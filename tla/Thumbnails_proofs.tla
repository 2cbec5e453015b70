-------------------------- MODULE Thumbnails_proofs --------------------------
(***************************************************************************)
(* Proofs of what the thumbnail policies and the thumbnail commands        *)
(* promise, for any flags, sources, contents and bounds: no edit leaves a  *)
(* row the schema would refuse, a preview's name tells the recipe it was   *)
(* made with, and no run deletes what ensure would make again or the last  *)
(* preview of a stub.                                                      *)
(***************************************************************************)
EXTENDS Thumbnails, SequenceTheorems, TLAPS

(***************************************************************************)
(* The inductive invariant.                                                *)
(***************************************************************************)

(* A row of the table: what the command line can have made of it and the   *)
(* validation accepts, without a discriminant of another branch.           *)
Row(r) ==
  /\ r = [c \in Columns |-> r[c]]
  /\ r.action \in {"skip", "generate"}
  /\ \A c \in Discriminants : r[c] \in FlagValues[c] \cup {Null}
  /\ r.mediaType # "image" => r.resizingStrategy = Null
  /\ r.mediaType # "video" => r.outputType = Null
  /\ Valid(r)

Recipes(r) == Row(r) /\ r.action = "generate"

RowsInv ==
  /\ \A p \in policies : Row(p)
  /\ \A p, q \in policies : p.name = q.name => p = q

(* A preview was made by a policy there was, and says so in its name.      *)
ThumbsInv == \A t \in thumbs : \E r : Recipes(r) /\ t.seg = Segment(r) /\ t.made = Recipe(r)

Unreadable(s) == files[s].form = "real" /\ MimeOf[files[s].hash] = Null

Pcs == {"waiting", "probe", "discard", "keepOne", "staleStub", "reconcile", "generate", "done"}

(* The previews a job holds are previews of its source.                    *)
JobHolds(s) ==
  LET job == jobs[s]
  IN /\ job = [pc |-> job.pc, todo |-> job.todo, exact |-> job.exact, stale |-> job.stale,
               kept |-> job.kept, pending |-> job.pending, drop |-> job.drop]
     /\ job.pc \in Pcs /\ job.kept \in BOOLEAN
     /\ job.todo \cup job.drop \subseteq ThumbsOf(s)
     /\ \A t \in job.stale : t.src = s
     /\ job.pc \in {"waiting", "probe", "done"} => job.todo = {}
     /\ job.pc # "reconcile" => (job.pc = "generate" \/ job.stale = {})
     /\ job.pc = "reconcile" => job.stale \subseteq ThumbsOf(s) /\ job.stale \cap job.todo = {}
     /\ job.pc # "generate" => job.drop = {}
     /\ job.pc = "generate" =>
          /\ job.todo = {}
          /\ \A t \in job.stale : (\E p \in job.pending : p.name = t.name) => t \in ThumbsOf(s)
          /\ \A t \in job.drop, p \in job.pending : p.name # t.name

(* What a job took from the tables, which nobody changes under a run.      *)
JobKnows(s) ==
  LET job == jobs[s]
  IN /\ job.pending \subseteq {p \in policies : p.action = "generate"}
     /\ job.pc \in {"reconcile", "generate"} => rows[s] # Null
     /\ job.pc = "keepOne" =>
          \E t \in ThumbsOf(s) : t.hash = rows[s] /\ (t \in job.todo <=> ~job.kept)
     /\ job.pc = "staleStub" => \A t \in ThumbsOf(s) : t.hash # rows[s]

(* What it found, as long as the user leaves the source alone.             *)
JobFound(s) ==
  LET job == jobs[s]
  IN s \notin touched =>
       /\ job.pc = "discard" => /\ files[s].form = "real" /\ Expected(s) = {}
                                /\ (Unreadable(s) => Skipped(s))
       /\ job.pc \in {"keepOne", "staleStub"} => files[s].form = "stub"
       /\ job.pc \in {"reconcile", "generate"} =>
            /\ files[s].form = "real" /\ ~Unreadable(s)
            /\ (job.stale \cup job.drop) \cap Expected(s) = {}
       /\ job.pc = "reconcile" => job.pending = Resolved(s, MimeOf[files[s].hash])

RunInv ==
  /\ run \in [mode : {"none", "ensure", "cleanup"}, stage : {"idle", "walk", "sweep"},
              scope : SUBSET Sources, discard : BOOLEAN, todo : SUBSET thumbs]
  /\ run.stage = "idle" => run = NoRun
  /\ run.stage # "sweep" => run.todo = {}
  /\ \A s \in Sources : /\ run.stage = "idle" => jobs[s] = NoJob
                        /\ run.stage = "sweep" => jobs[s].pc = "done"

JobOK(s) == JobHolds(s) /\ JobKnows(s) /\ JobFound(s)

JobsInv ==
  /\ jobs = [s \in Sources |-> jobs[s]]
  /\ \A s \in Sources : JobOK(s)

ThumbnailInv == TypeOK /\ RowsInv /\ ThumbsInv /\ RunInv /\ JobsInv

(***************************************************************************)
(* The tables of the code.                                                 *)
(***************************************************************************)

LEMMA SizingFacts ==
  /\ SizingFields[<<"image", "fit_to_box">>] = {"imageWidth", "imageHeight"}
  /\ SizingFields[<<"image", "resize_shorter_side">>] = {"shorterSide"}
  /\ SizingFields[<<"video", "mosaic">>] = {"shorterSide", "tileRowCount", "tileColumnCount"}
  /\ SizingFields[<<"video", "preview">>] = {"shorterSide", "frameCount", "frameDelayMs"}
BY DEF SizingFields, SizingKeys

LEMMA EncodingFacts ==
  /\ EncodingFields["image/jpeg"] = {"jpegQuality"}
  /\ EncodingFields["image/png"] = {"pngCompressionLevel"}
  /\ EncodingFields["image/webp"] = {"webpQuality", "webpLossless"}
  /\ EncodingFields["image/gif"] = {"gifMaxColors", "gifDither"}
BY DEF EncodingFields, OutputMimes

LEMMA LegalFacts ==
  /\ LegalOutputMimes[<<"video", "mosaic">>] = OutputMimes \ {"image/gif"}
  /\ LegalOutputMimes[<<"video", "preview">>] = {"image/gif", "image/webp"}
BY DEF LegalOutputMimes, SizingKeys

LEMMA ValueFacts ==
  /\ DOMAIN FlagValues = {"action", "mediaType", "resizingStrategy", "outputType", "outputMime"}
  /\ FlagValues["action"] = {"skip", "generate"}
  /\ FlagValues["mediaType"] = {"image", "video"}
  /\ FlagValues["resizingStrategy"] = {"fit_to_box", "resize_shorter_side"}
  /\ FlagValues["outputType"] = {"mosaic", "preview"}
  /\ FlagValues["outputMime"] = OutputMimes
BY DEF FlagValues

LEMMA NullFacts ==
  /\ Null \notin {"skip", "generate"} /\ Null \notin {"image", "video"}
  /\ Null \notin {"fit_to_box", "resize_shorter_side"} /\ Null \notin {"mosaic", "preview"}
  /\ Null \notin OutputMimes
  /\ Null \notin SizingKeys
<1>1. \A c \in DOMAIN FlagValues : Null \notin FlagValues[c]
  BY NullAssumption
<1>. QED BY <1>1, ValueFacts, NullAssumption

(***************************************************************************)
(* Rows.                                                                   *)
(***************************************************************************)

(* What the discriminants of a row can be, and what its columns are then.  *)
LEMMA RowValues ==
  ASSUME NEW r, Row(r)
  PROVE  /\ r.action \in {"skip", "generate"}
         /\ r.mediaType \in {"image", "video", Null}
         /\ r.resizingStrategy \in {"fit_to_box", "resize_shorter_side", Null}
         /\ r.outputType \in {"mosaic", "preview", Null}
         /\ r.outputMime \in OutputMimes \cup {Null}
BY ValueFacts DEF Row, Discriminants

LEMMA SkipRow ==
  ASSUME NEW r, Row(r), r.action = "skip"
  PROVE  \A c \in Columns \ {"name", "glob", "action"} : r[c] = Null
<1>1. \A c \in {"mimeTypes", "mediaType", "outputMime"} \cup FieldNames : r[c] = Null
  BY DEF Row, Valid, ActionConsistent
<1>2. r["resizingStrategy"] = Null /\ r["outputType"] = Null
  BY <1>1, NullFacts DEF Row
<1>. QED BY <1>1, <1>2 DEF Columns, Discriminants

LEMMA GenerateRow ==
  ASSUME NEW r, Row(r), r.action = "generate"
  PROVE  /\ r.mimeTypes # Null /\ r.outputMime \in OutputMimes
         /\ \/ /\ r.mediaType = "image" /\ r.resizingStrategy = "fit_to_box"
               /\ r.outputType = Null /\ SizingKey(r) = <<"image", "fit_to_box">>
            \/ /\ r.mediaType = "image" /\ r.resizingStrategy = "resize_shorter_side"
               /\ r.outputType = Null /\ SizingKey(r) = <<"image", "resize_shorter_side">>
            \/ /\ r.mediaType = "video" /\ r.outputType = "mosaic"
               /\ r.resizingStrategy = Null /\ SizingKey(r) = <<"video", "mosaic">>
            \/ /\ r.mediaType = "video" /\ r.outputType = "preview"
               /\ r.resizingStrategy = Null /\ SizingKey(r) = <<"video", "preview">>
         /\ SizingKey(r) \in SizingKeys
         /\ OwnFields(r) = SizingFields[SizingKey(r)] \cup EncodingFields[r.outputMime]
         /\ r.outputMime \in LegalOutputMimes[SizingKey(r)]
         /\ \A f \in FieldNames : r[f] # Null <=> f \in OwnFields(r)
<1>1. /\ r.mimeTypes # Null /\ r.mediaType # Null
      /\ r.mediaType = "image" => r.resizingStrategy # Null
      /\ r.mediaType = "video" => r.outputType # Null
      /\ r.outputMime # Null
      /\ r.outputMime \in LegalOutputMimes[SizingKey(r)]
      /\ \A f \in FieldNames : r[f] # Null <=> f \in OwnFields(r)
  BY DEF Row, Valid, ActionConsistent
<1>2. /\ r.mediaType # "image" => r.resizingStrategy = Null
      /\ r.mediaType # "video" => r.outputType = Null
  BY DEF Row
<1>3. \/ /\ r.mediaType = "image" /\ r.resizingStrategy = "fit_to_box"
         /\ r.outputType = Null /\ SizingKey(r) = <<"image", "fit_to_box">>
      \/ /\ r.mediaType = "image" /\ r.resizingStrategy = "resize_shorter_side"
         /\ r.outputType = Null /\ SizingKey(r) = <<"image", "resize_shorter_side">>
      \/ /\ r.mediaType = "video" /\ r.outputType = "mosaic"
         /\ r.resizingStrategy = Null /\ SizingKey(r) = <<"video", "mosaic">>
      \/ /\ r.mediaType = "video" /\ r.outputType = "preview"
         /\ r.resizingStrategy = Null /\ SizingKey(r) = <<"video", "preview">>
  BY <1>1, <1>2, RowValues, NullFacts DEF SizingKey
<1>4. SizingKey(r) \in SizingKeys
  BY <1>3 DEF SizingKeys
<1>5. OwnFields(r) = SizingFields[SizingKey(r)] \cup EncodingFields[r.outputMime]
  BY <1>1, <1>4, NullFacts DEF OwnFields
<1>. QED BY <1>1, <1>3, <1>4, <1>5, RowValues

(* A row reads back as it was stored: the columns of its own branch are    *)
(* all it has.                                                             *)
LEMMA ReadsBack ==
  ASSUME NEW r, Row(r)
  PROVE  ReadBack(r) = r
<1>1. r = [c \in Columns |-> r[c]]
  BY DEF Row
<1>2. ASSUME NEW c \in Columns
      PROVE  (IF c \in {"name", "glob", "action"} THEN r[c]
              ELSE IF r.action = "skip" THEN Null
              ELSE IF c \in FieldNames \ OwnFields(r) THEN Null
              ELSE r[c]) = r[c]
  <2>1. CASE r.action = "skip"
    BY <2>1, SkipRow
  <2>2. CASE r.action = "generate"
    BY <2>2, GenerateRow
  <2>. QED BY <2>1, <2>2, RowValues
<1>. QED BY <1>1, <1>2 DEF ReadBack

(* What create makes of the flags it accepts.                              *)
LEMMA BuiltRow ==
  ASSUME NEW flags, NEW defaults, Parsed(flags), {"name", "glob", "action"} \subseteq DOMAIN flags,
         CreateFlagsAccepted(flags), Valid(Built(flags, defaults))
  PROVE  Row(Built(flags, defaults)) /\ Built(flags, defaults).name = flags.name
<1>1. PICK r : r = Built(flags, defaults)
  OBVIOUS
<1>2. \A c \in Columns : r[c] = IF c \in DOMAIN flags THEN flags[c]
                                 ELSE IF c \in (IF "outputMime" \in DOMAIN flags
                                                THEN EncodingFields[flags.outputMime] ELSE {})
                                   THEN defaults[c]
                                 ELSE Null
  BY <1>1 DEF Built
<1>3. r = [c \in Columns |-> r[c]]
  BY <1>1 DEF Built
<1>4. Discriminants \cup {"action", "name"} \subseteq Columns
  BY DEF Columns, Discriminants
<1>5. Discriminants \cap FieldNames = {} /\ "action" \notin FieldNames
  BY DEF Discriminants, FieldNames
<1>6. "outputMime" \in DOMAIN flags => EncodingFields[flags.outputMime] \subseteq FieldNames
  <2>1. "outputMime" \in DOMAIN flags => flags["outputMime"] \in OutputMimes
    BY ValueFacts DEF Parsed
  <2>. QED BY <2>1, EncodingFacts DEF OutputMimes, FieldNames
<1>7. \A c \in Discriminants : r[c] = IF c \in DOMAIN flags THEN flags[c] ELSE Null
  BY <1>2, <1>4, <1>5, <1>6
<1>8. r["action"] = flags["action"] /\ r["name"] = flags["name"]
  BY <1>2, <1>4
<1>9. r.action \in {"skip", "generate"}
  BY <1>8, ValueFacts DEF Parsed
<1>10. \A c \in Discriminants : r[c] \in FlagValues[c] \cup {Null}
  BY <1>7, ValueFacts DEF Parsed, Discriminants
<1>11. /\ r.mediaType # "image" => r.resizingStrategy = Null
       /\ r.mediaType # "video" => r.outputType = Null
  <2>1. {"mediaType", "resizingStrategy", "outputType"} \subseteq Discriminants
    BY DEF Discriminants
  <2>2. CASE flags.action = "skip"
    <3>1. DOMAIN flags \subseteq {"name", "glob", "action"}
      BY <2>2 DEF CreateFlagsAccepted
    <3>. QED BY <1>7, <2>1, <3>1
  <2>3. CASE flags.action # "skip"
    <3>1. PICK row : row = [c \in Columns |-> IF c \in DOMAIN flags THEN flags[c] ELSE Null]
      OBVIOUS
    <3>2. \A c \in Discriminants : row[c] = r[c]
      BY <1>4, <1>7, <3>1
    <3>3. /\ "mediaType" \in DOMAIN flags
          /\ flags.mediaType = "image" => row.outputType = Null
          /\ flags.mediaType = "video" => row.resizingStrategy = Null
      BY <2>3, <3>1 DEF CreateFlagsAccepted
    <3>4. flags["mediaType"] \in {"image", "video"}
      BY <3>3, ValueFacts DEF Parsed
    <3>5. r["mediaType"] = flags["mediaType"]
      BY <1>7, <2>1, <3>3
    <3>. QED BY <2>1, <3>2, <3>3, <3>4, <3>5
  <2>. QED BY <2>2, <2>3
<1>. QED BY <1>1, <1>3, <1>8, <1>9, <1>10, <1>11 DEF Row

(* What edit makes of a row and the flags it accepts.                      *)
LEMMA MergedRow ==
  ASSUME NEW old, NEW flags, Row(old), Parsed(flags), Valid(Merged(old, flags))
  PROVE  Row(Merged(old, flags))
<1>. DEFINE Or(c, default) == IF c \in DOMAIN flags THEN flags[c] ELSE default
            Under(c, holds, parent) == IF holds THEN Or(c, IF parent THEN old[c] ELSE Null) ELSE Null
            action == Or("action", old.action)
            media == Under("mediaType", action = "generate", old.action = "generate")
<1>1. PICK r : r = Merged(old, flags)
  OBVIOUS
<1>2. r = [c \in Columns |-> r[c]]
  BY <1>1 DEF Merged
<1>3. /\ r["action"] = action
      /\ r["mediaType"] = media
      /\ r["outputMime"] = Under("outputMime", action = "generate", old.action = "generate")
      /\ r["resizingStrategy"] = Under("resizingStrategy", media = "image", old.mediaType = "image")
      /\ r["outputType"] = Under("outputType", media = "video", old.mediaType = "video")
  <2>1. {"action", "mediaType", "outputMime", "resizingStrategy", "outputType"}
          \subseteq Columns \ FieldNames
    BY DEF Columns, Discriminants, FieldNames
  <2>. QED BY <1>1, <2>1 DEF Merged
<1>4. \A c \in DOMAIN FlagValues : c \in DOMAIN flags => flags[c] \in FlagValues[c]
  BY DEF Parsed
<1>5. r.action \in {"skip", "generate"}
  BY <1>3, <1>4, ValueFacts, RowValues
<1>6. \A c \in Discriminants : r[c] \in FlagValues[c] \cup {Null}
  BY <1>3, <1>4, ValueFacts DEF Row, Discriminants
<1>7. /\ r.mediaType # "image" => r.resizingStrategy = Null
      /\ r.mediaType # "video" => r.outputType = Null
  BY <1>3
<1>. QED BY <1>1, <1>2, <1>5, <1>6, <1>7 DEF Row

(* The table's CHECK takes a row.                                          *)
LEMMA RowFits ==
  ASSUME NEW r, Row(r)
  PROVE  SchemaAccepts(r)
<1>. DEFINE NotNull == {c \in Columns : r[c] # Null}
            sizing == {"mediaType", "resizingStrategy", "outputType", "imageWidth", "imageHeight",
                       "shorterSide", "tileRowCount", "tileColumnCount", "frameCount",
                       "frameDelayMs"}
            encoding == {"outputMime", "jpegQuality", "pngCompressionLevel", "webpQuality",
                         "webpLossless", "gifMaxColors", "gifDither"}
<1>1. sizing \subseteq Columns /\ encoding \subseteq Columns
  BY DEF Columns, Discriminants, FieldNames
<1>2. CASE r.action = "skip"
  <2>1. \A c \in Columns \ {"name", "glob", "action"} : r[c] = Null
    BY <1>2, SkipRow
  <2>2. NotNull \cap sizing = {} /\ NotNull \cap encoding = {}
    BY <1>1, <2>1
  <2>3. r.mimeTypes = Null
    BY <2>1 DEF Columns
  <2>. QED BY <1>2, <2>2, <2>3 DEF SchemaAccepts
<1>3. CASE r.action = "generate"
  <2>1. \A f \in FieldNames : r[f] # Null <=> f \in SizingFields[SizingKey(r)] \cup EncodingFields[r.outputMime]
    BY <1>3, GenerateRow
  <2>2. r.mimeTypes # Null /\ r.outputMime \in OutputMimes /\ r["mediaType"] # Null
        /\ r["outputMime"] # Null
    BY <1>3, GenerateRow, NullFacts
  <2>3. PICK own : own = EncodingFields[r.outputMime]
    OBVIOUS
  <2>4. own \cap {"imageWidth", "imageHeight", "shorterSide", "tileRowCount", "tileColumnCount",
                  "frameCount", "frameDelayMs"} = {}
    BY <2>2, <2>3, EncodingFacts DEF OutputMimes
  <2>5. \/ /\ r.mediaType = "image" /\ r.resizingStrategy = "fit_to_box"
           /\ NotNull \cap sizing = {"mediaType", "resizingStrategy", "imageWidth", "imageHeight"}
        \/ /\ r.mediaType = "image" /\ r.resizingStrategy = "resize_shorter_side"
           /\ NotNull \cap sizing = {"mediaType", "resizingStrategy", "shorterSide"}
        \/ /\ r.mediaType = "video" /\ r.outputType = "mosaic"
           /\ NotNull \cap sizing =
                {"mediaType", "outputType", "shorterSide", "tileRowCount", "tileColumnCount"}
        \/ /\ r.mediaType = "video" /\ r.outputType = "preview"
           /\ NotNull \cap sizing =
                {"mediaType", "outputType", "shorterSide", "frameCount", "frameDelayMs"}
    <3>1. sizing \ {"mediaType", "resizingStrategy", "outputType"} \subseteq FieldNames
      BY DEF FieldNames
    <3>2. CASE SizingKey(r) = <<"image", "fit_to_box">>
      <4>1. r["mediaType"] = "image" /\ r["resizingStrategy"] = "fit_to_box" /\ r["outputType"] = Null
        BY <1>3, <3>2, GenerateRow
      <4>. QED BY <1>1, <2>1, <2>2, <2>3, <2>4, <3>1, <3>2, <4>1, SizingFacts, NullFacts
    <3>3. CASE SizingKey(r) = <<"image", "resize_shorter_side">>
      <4>1. r["mediaType"] = "image" /\ r["resizingStrategy"] = "resize_shorter_side"
            /\ r["outputType"] = Null
        BY <1>3, <3>3, GenerateRow
      <4>. QED BY <1>1, <2>1, <2>2, <2>3, <2>4, <3>1, <3>3, <4>1, SizingFacts, NullFacts
    <3>4. CASE SizingKey(r) = <<"video", "mosaic">>
      <4>1. r["mediaType"] = "video" /\ r["outputType"] = "mosaic" /\ r["resizingStrategy"] = Null
        BY <1>3, <3>4, GenerateRow
      <4>. QED BY <1>1, <2>1, <2>2, <2>3, <2>4, <3>1, <3>4, <4>1, SizingFacts, NullFacts
    <3>5. CASE SizingKey(r) = <<"video", "preview">>
      <4>1. r["mediaType"] = "video" /\ r["outputType"] = "preview" /\ r["resizingStrategy"] = Null
        BY <1>3, <3>5, GenerateRow
      <4>. QED BY <1>1, <2>1, <2>2, <2>3, <2>4, <3>1, <3>5, <4>1, SizingFacts, NullFacts
    <3>. QED BY <1>3, <3>2, <3>3, <3>4, <3>5, GenerateRow
  <2>6. SizingFields[SizingKey(r)] \cap {"jpegQuality", "pngCompressionLevel", "webpQuality",
                                         "webpLossless", "gifMaxColors", "gifDither"} = {}
    BY <1>3, GenerateRow, SizingFacts
  <2>7. NotNull \cap encoding = {"outputMime"} \cup own
    <3>1. encoding \ {"outputMime"} \subseteq FieldNames
      BY DEF FieldNames
    <3>2. own \subseteq encoding \ {"outputMime"}
      BY <2>2, <2>3, EncodingFacts DEF OutputMimes
    <3>. QED BY <1>1, <2>1, <2>2, <2>3, <2>6, <3>1, <3>2
  <2>8. \/ r.outputMime = "image/jpeg" /\ NotNull \cap encoding = {"outputMime", "jpegQuality"}
        \/ r.outputMime = "image/png" /\ NotNull \cap encoding = {"outputMime", "pngCompressionLevel"}
        \/ /\ r.outputMime = "image/webp"
           /\ NotNull \cap encoding = {"outputMime", "webpQuality", "webpLossless"}
        \/ /\ r.outputMime = "image/gif"
           /\ NotNull \cap encoding = {"outputMime", "gifMaxColors", "gifDither"}
    BY <2>2, <2>3, <2>7, EncodingFacts DEF OutputMimes
  <2>9. \/ r.mediaType = "image"
        \/ r.outputType = "mosaic" /\ r.outputMime \in OutputMimes \ {"image/gif"}
        \/ r.outputType = "preview" /\ r.outputMime \in {"image/gif", "image/webp"}
    BY <1>3, GenerateRow, LegalFacts
  <2>10. (r.action = "skip") <=> (r.mimeTypes = Null)
    BY <1>3, <2>2
  <2>. QED BY <2>5, <2>8, <2>9, <2>10 DEF SchemaAccepts
<1>. QED BY <1>2, <1>3, RowValues

(***************************************************************************)
(* Names of previews.                                                      *)
(***************************************************************************)

(* The sizing tokens of each branch.                                       *)
LEMMA SizingSegments ==
  ASSUME NEW r, Recipes(r)
  PROVE  /\ SizingKey(r) = <<"image", "fit_to_box">> =>
              SizingTokens(r) = <<<<"iw", r.imageWidth>>, <<"ih", r.imageHeight>>>>
         /\ SizingKey(r) = <<"image", "resize_shorter_side">> =>
              SizingTokens(r) = <<<<"ss", r.shorterSide>>>>
         /\ SizingKey(r) = <<"video", "mosaic">> =>
              SizingTokens(r) = <<<<"ss", r.shorterSide>>, <<"tr", r.tileRowCount>>,
                                  <<"tc", r.tileColumnCount>>>>
         /\ SizingKey(r) = <<"video", "preview">> =>
              SizingTokens(r) = <<<<"ss", r.shorterSide>>, <<"fc", r.frameCount>>,
                                  <<"fd", r.frameDelayMs>>>>
<1>1. CASE SizingKey(r) = <<"image", "fit_to_box">>
  <2>1. r.mediaType = "image" /\ r.resizingStrategy = "fit_to_box"
    BY <1>1, GenerateRow DEF Recipes
  <2>. QED BY <1>1, <2>1 DEF SizingTokens, Tokens
<1>2. CASE SizingKey(r) = <<"image", "resize_shorter_side">>
  <2>1. r.mediaType = "image" /\ r.resizingStrategy = "resize_shorter_side"
    BY <1>2, GenerateRow DEF Recipes
  <2>. QED BY <1>2, <2>1 DEF SizingTokens, Tokens
<1>3. CASE SizingKey(r) = <<"video", "mosaic">>
  <2>1. r.mediaType = "video" /\ r.outputType = "mosaic"
    BY <1>3, GenerateRow DEF Recipes
  <2>. QED BY <1>3, <2>1 DEF SizingTokens, Tokens
<1>4. CASE SizingKey(r) = <<"video", "preview">>
  <2>1. r.mediaType = "video" /\ r.outputType = "preview"
    BY <1>4, GenerateRow DEF Recipes
  <2>. QED BY <1>4, <2>1 DEF SizingTokens, Tokens
<1>. QED BY <1>1, <1>2, <1>3, <1>4, GenerateRow DEF Recipes

(* The encoding tokens of each output mime.                                *)
LEMMA EncodingSegments ==
  ASSUME NEW r, Recipes(r)
  PROVE  /\ r.outputMime = "image/jpeg" =>
              EncodingTokens(r) = <<<<"fmt", r.outputMime>>, <<"q", r.jpegQuality>>>>
         /\ r.outputMime = "image/png" =>
              EncodingTokens(r) = <<<<"fmt", r.outputMime>>, <<"pl", r.pngCompressionLevel>>>>
         /\ r.outputMime = "image/webp" =>
              EncodingTokens(r) = <<<<"fmt", r.outputMime>>, <<"wq", r.webpQuality>>,
                                    <<"wl", r.webpLossless>>>>
         /\ r.outputMime = "image/gif" =>
              EncodingTokens(r) = <<<<"fmt", r.outputMime>>, <<"mc", r.gifMaxColors>>,
                                    <<"dt", r.gifDither>>>>
<1>1. ASSUME NEW x, NEW y PROVE <<x>> \o <<y>> = <<x, y>>
  <2>1. PICK S : S = {x, y}
    OBVIOUS
  <2>2. <<x>> \in Seq(S) /\ <<y>> \in Seq(S) /\ <<x, y>> \in Seq(S)
    BY <2>1
  <2>3. PICK s : s = <<x>> \o <<y>>
    OBVIOUS
  <2>4. s \in Seq(S) /\ Len(s) = 2 /\ \A i \in 1..2 : s[i] = IF i <= 1 THEN <<x>>[i] ELSE <<y>>[i - 1]
    BY <2>2, <2>3, ConcatProperties
  <2>5. s[1] = x /\ s[2] = y
    BY <2>4
  <2>6. PICK u : u = <<x, y>>
    OBVIOUS
  <2>7. u \in Seq(S) /\ Len(u) = 2 /\ \A i \in 1..2 : s[i] = u[i]
    BY <2>2, <2>5, <2>6
  <2>. QED BY <2>3, <2>4, <2>6, <2>7, SeqEqual
<1>2. ASSUME NEW x, NEW y, NEW z PROVE <<x>> \o <<y, z>> = <<x, y, z>>
  <2>1. PICK S : S = {x, y, z}
    OBVIOUS
  <2>2. <<x>> \in Seq(S) /\ <<y, z>> \in Seq(S) /\ <<x, y, z>> \in Seq(S)
    BY <2>1
  <2>3. PICK s : s = <<x>> \o <<y, z>>
    OBVIOUS
  <2>4. s \in Seq(S) /\ Len(s) = 3 /\ \A i \in 1..3 : s[i] = IF i <= 1 THEN <<x>>[i] ELSE <<y, z>>[i - 1]
    BY <2>2, <2>3, ConcatProperties
  <2>5. s[1] = x /\ s[2] = y /\ s[3] = z
    BY <2>4
  <2>6. PICK u : u = <<x, y, z>>
    OBVIOUS
  <2>7. u \in Seq(S) /\ Len(u) = 3 /\ \A i \in 1..3 : s[i] = u[i]
    BY <2>2, <2>5, <2>6
  <2>. QED BY <2>3, <2>4, <2>6, <2>7, SeqEqual
<1>3. CASE r.outputMime = "image/jpeg"
  <2>1. EncodingTokens(r) = Tokens(r, <<<<"fmt", "outputMime">>>> \o <<<<"q", "jpegQuality">>>>)
    BY <1>3 DEF EncodingTokens
  <2>2. EncodingTokens(r) = Tokens(r, <<<<"fmt", "outputMime">>, <<"q", "jpegQuality">>>>)
    BY <1>1, <2>1
  <2>. QED BY <1>3, <2>2 DEF Tokens
<1>4. CASE r.outputMime = "image/png"
  <2>1. EncodingTokens(r)
          = Tokens(r, <<<<"fmt", "outputMime">>>> \o <<<<"pl", "pngCompressionLevel">>>>)
    BY <1>4 DEF EncodingTokens
  <2>2. EncodingTokens(r) = Tokens(r, <<<<"fmt", "outputMime">>, <<"pl", "pngCompressionLevel">>>>)
    BY <1>1, <2>1
  <2>. QED BY <1>4, <2>2 DEF Tokens
<1>5. CASE r.outputMime = "image/webp"
  <2>1. EncodingTokens(r)
          = Tokens(r, <<<<"fmt", "outputMime">>>> \o <<<<"wq", "webpQuality">>, <<"wl", "webpLossless">>>>)
    BY <1>5 DEF EncodingTokens
  <2>2. EncodingTokens(r)
          = Tokens(r, <<<<"fmt", "outputMime">>, <<"wq", "webpQuality">>, <<"wl", "webpLossless">>>>)
    BY <1>2, <2>1
  <2>. QED BY <1>5, <2>2 DEF Tokens
<1>6. CASE r.outputMime = "image/gif"
  <2>1. EncodingTokens(r)
          = Tokens(r, <<<<"fmt", "outputMime">>>> \o <<<<"mc", "gifMaxColors">>, <<"dt", "gifDither">>>>)
    BY <1>6 DEF EncodingTokens
  <2>2. EncodingTokens(r)
          = Tokens(r, <<<<"fmt", "outputMime">>, <<"mc", "gifMaxColors">>, <<"dt", "gifDither">>>>)
    BY <1>2, <2>1
  <2>. QED BY <1>6, <2>2 DEF Tokens
<1>. QED BY <1>3, <1>4, <1>5, <1>6

(* Equal names are names of equal recipes: what the generator is given.    *)
LEMMA SegmentTellsRecipe ==
  ASSUME NEW r, NEW p, Recipes(r), Recipes(p), Segment(r) = Segment(p)
  PROVE  Recipe(r) = Recipe(p)
<1>1. SizingTokens(r) = SizingTokens(p) /\ EncodingTokens(r) = EncodingTokens(p)
  BY DEF Segment
<1>. DEFINE Sizes(k) == SizingKey(r) = k /\ SizingKey(p) = k
                        /\ \A f \in SizingFields[k] : r[f] = p[f]
            Codes(m) == r.outputMime = m /\ p.outputMime = m
                        /\ \A f \in EncodingFields[m] : r[f] = p[f]
<1>2. \E k \in SizingKeys : Sizes(k)
  <2>1. \A k \in SizingKeys : k = <<"image", "fit_to_box">> \/ k = <<"image", "resize_shorter_side">>
                              \/ k = <<"video", "mosaic">> \/ k = <<"video", "preview">>
    BY DEF SizingKeys
  <2>2. SizingKey(r) \in SizingKeys /\ SizingKey(p) \in SizingKeys
    BY GenerateRow DEF Recipes
  <2>3. CASE SizingKey(r) = <<"image", "fit_to_box">>
    <3>1. SizingKey(p) = <<"image", "fit_to_box">>
      BY <1>1, <2>1, <2>2, <2>3, SizingSegments
    <3>. QED BY <1>1, <2>2, <2>3, <3>1, SizingSegments, SizingFacts
  <2>4. CASE SizingKey(r) = <<"image", "resize_shorter_side">>
    <3>1. SizingKey(p) = <<"image", "resize_shorter_side">>
      BY <1>1, <2>1, <2>2, <2>4, SizingSegments
    <3>. QED BY <1>1, <2>2, <2>4, <3>1, SizingSegments, SizingFacts
  <2>5. CASE SizingKey(r) = <<"video", "mosaic">>
    <3>1. SizingKey(p) = <<"video", "mosaic">>
      BY <1>1, <2>1, <2>2, <2>5, SizingSegments
    <3>. QED BY <1>1, <2>2, <2>5, <3>1, SizingSegments, SizingFacts
  <2>6. CASE SizingKey(r) = <<"video", "preview">>
    <3>1. SizingKey(p) = <<"video", "preview">>
      BY <1>1, <2>1, <2>2, <2>6, SizingSegments
    <3>. QED BY <1>1, <2>2, <2>6, <3>1, SizingSegments, SizingFacts
  <2>. QED BY <2>1, <2>2, <2>3, <2>4, <2>5, <2>6
<1>3. \E m \in OutputMimes : Codes(m)
  <2>1. r.outputMime \in OutputMimes /\ p.outputMime \in OutputMimes
    BY GenerateRow DEF Recipes
  <2>2. r.outputMime = p.outputMime
    <3>1. EncodingTokens(r)[1] = <<"fmt", r.outputMime>>
      BY <2>1, EncodingSegments DEF OutputMimes
    <3>2. EncodingTokens(p)[1] = <<"fmt", p.outputMime>>
      BY <2>1, EncodingSegments DEF OutputMimes
    <3>. QED BY <1>1, <3>1, <3>2
  <2>3. CASE r.outputMime = "image/jpeg"
    <3>1. EncodingTokens(r)[2] = <<"q", r.jpegQuality>>
      BY <2>3, EncodingSegments
    <3>2. p.outputMime = "image/jpeg"
      BY <2>2, <2>3
    <3>3. EncodingTokens(p)[2] = <<"q", p.jpegQuality>>
      BY <3>2, EncodingSegments
    <3>4. r.jpegQuality = p.jpegQuality
      BY <1>1, <3>1, <3>3
    <3>5. Codes("image/jpeg")
      BY <2>2, <2>3, <3>4, EncodingFacts
    <3>. QED BY <2>1, <2>3, <3>5
  <2>4. CASE r.outputMime = "image/png"
    <3>1. EncodingTokens(r)[2] = <<"pl", r.pngCompressionLevel>>
      BY <2>4, EncodingSegments
    <3>2. p.outputMime = "image/png"
      BY <2>2, <2>4
    <3>3. EncodingTokens(p)[2] = <<"pl", p.pngCompressionLevel>>
      BY <3>2, EncodingSegments
    <3>4. r.pngCompressionLevel = p.pngCompressionLevel
      BY <1>1, <3>1, <3>3
    <3>5. Codes("image/png")
      BY <2>2, <2>4, <3>4, EncodingFacts
    <3>. QED BY <2>1, <2>4, <3>5
  <2>5. CASE r.outputMime = "image/webp"
    <3>1. EncodingTokens(r)[2] = <<"wq", r.webpQuality>> /\ EncodingTokens(r)[3] = <<"wl", r.webpLossless>>
      BY <2>5, EncodingSegments
    <3>2. p.outputMime = "image/webp"
      BY <2>2, <2>5
    <3>3. EncodingTokens(p)[2] = <<"wq", p.webpQuality>> /\ EncodingTokens(p)[3] = <<"wl", p.webpLossless>>
      BY <3>2, EncodingSegments
    <3>4. r.webpQuality = p.webpQuality /\ r.webpLossless = p.webpLossless
      BY <1>1, <3>1, <3>3
    <3>5. Codes("image/webp")
      BY <2>2, <2>5, <3>4, EncodingFacts
    <3>. QED BY <2>1, <2>5, <3>5
  <2>6. CASE r.outputMime = "image/gif"
    <3>1. EncodingTokens(r)[2] = <<"mc", r.gifMaxColors>> /\ EncodingTokens(r)[3] = <<"dt", r.gifDither>>
      BY <2>6, EncodingSegments
    <3>2. p.outputMime = "image/gif"
      BY <2>2, <2>6
    <3>3. EncodingTokens(p)[2] = <<"mc", p.gifMaxColors>> /\ EncodingTokens(p)[3] = <<"dt", p.gifDither>>
      BY <3>2, EncodingSegments
    <3>4. r.gifMaxColors = p.gifMaxColors /\ r.gifDither = p.gifDither
      BY <1>1, <3>1, <3>3
    <3>5. Codes("image/gif")
      BY <2>2, <2>6, <3>4, EncodingFacts
    <3>. QED BY <2>1, <2>6, <3>5
  <2>. QED BY <2>1, <2>3, <2>4, <2>5, <2>6 DEF OutputMimes
<1>4. PICK k \in SizingKeys : Sizes(k)
  BY <1>2
<1>5. PICK m \in OutputMimes : Codes(m)
  BY <1>3
<1>6. OwnFields(r) = SizingFields[k] \cup EncodingFields[m]
  BY <1>4, <1>5, GenerateRow DEF Recipes
<1>7. OwnFields(p) = SizingFields[k] \cup EncodingFields[m]
  BY <1>4, <1>5, GenerateRow DEF Recipes
<1>8. \A f \in OwnFields(r) : r[f] = p[f]
  BY <1>4, <1>5, <1>6
<1>9. [f \in OwnFields(r) |-> r[f]] = [f \in OwnFields(p) |-> p[f]]
  BY <1>6, <1>7, <1>8
<1>. QED BY <1>4, <1>5, <1>9 DEF Recipe

(***************************************************************************)
(* The table.                                                              *)
(***************************************************************************)

LEMMA RowsInit == Init => RowsInv
<1>. SUFFICES ASSUME Init PROVE RowsInv
  OBVIOUS
<1>1. policies = {Built(flags, Defaults) : flags \in Created}
  BY DEF Init
<1>2. ASSUME NEW flags \in Created
      PROVE  Row(Built(flags, Defaults)) /\ Built(flags, Defaults).name = flags.name
  <2>1. Parsed(flags) /\ {"name", "glob", "action"} \subseteq DOMAIN flags
    BY CreatedAssumption, FlagsAssumption
  <2>2. CreateFlagsAccepted(flags) /\ Valid(Built(flags, Defaults))
    BY CreatedAssumption
  <2>. QED BY <2>1, <2>2, BuiltRow
<1>3. \A f, g \in Created : f.name = g.name => f = g
  BY CreatedAssumption
<1>. QED BY <1>1, <1>2, <1>3 DEF RowsInv

LEMMA EditsKeepRows == RowsInv /\ EditPolicies => RowsInv'
<1>. SUFFICES ASSUME RowsInv, EditPolicies PROVE RowsInv'
  OBVIOUS
<1>1. ASSUME NEW flags \in Creates, RunCreate(flags, Defaults) PROVE RowsInv'
  <2>1. Parsed(flags) /\ {"name", "glob", "action"} \subseteq DOMAIN flags
    BY FlagsAssumption
  <2>2. PICK row : row = Built(flags, Defaults)
    OBVIOUS
  <2>3. /\ CreateFlagsAccepted(flags) /\ Valid(row)
        /\ \A p \in policies : p.name # row.name
        /\ policies' = policies \cup {row}
    BY <1>1, <2>2 DEF RunCreate
  <2>4. Row(row)
    BY <2>1, <2>2, <2>3, BuiltRow
  <2>. QED BY <2>3, <2>4 DEF RowsInv
<1>2. ASSUME NEW old \in policies, NEW flags \in Edits, RunEdit(old, flags) PROVE RowsInv'
  <2>1. Parsed(flags) /\ Row(old) /\ ReadBack(old) = old
    BY FlagsAssumption, ReadsBack DEF RowsInv
  <2>2. PICK row : row = Merged(old, flags)
    OBVIOUS
  <2>3. /\ Valid(row)
        /\ \A p \in policies \ {old} : p.name # row.name
        /\ policies' = (policies \ {old}) \cup {row}
    BY <1>2, <2>1, <2>2 DEF RunEdit
  <2>4. Row(row)
    BY <2>1, <2>2, <2>3, MergedRow
  <2>. QED BY <2>3, <2>4 DEF RowsInv
<1>3. ASSUME NEW old \in policies, RunDelete(old) PROVE RowsInv'
  BY <1>3 DEF RunDelete, RowsInv
<1>. QED BY <1>1, <1>2, <1>3 DEF EditPolicies

(***************************************************************************)
(* Jobs.                                                                   *)
(***************************************************************************)

(* A job as it starts.                                                     *)
LEMMA JobIs ==
  ASSUME NEW pc, NEW todo
  PROVE  Job(pc, todo) = [pc |-> pc, todo |-> todo, exact |-> {}, stale |-> {}, kept |-> FALSE,
                          pending |-> {}, drop |-> {}]
<1>1. PICK a : a = [NoJob EXCEPT !.pc = pc]
  OBVIOUS
<1>2. a = [pc |-> pc, todo |-> {}, exact |-> {}, stale |-> {}, kept |-> FALSE,
           pending |-> {}, drop |-> {}]
  BY <1>1 DEF NoJob
<1>3. PICK b : b = [a EXCEPT !.todo = todo]
  OBVIOUS
<1>4. b = [pc |-> pc, todo |-> todo, exact |-> {}, stale |-> {}, kept |-> FALSE,
           pending |-> {}, drop |-> {}]
  BY <1>2, <1>3
<1>. QED BY <1>1, <1>3, <1>4 DEF Job

LEMMA NoJobFacts ==
  /\ NoJob.pc = "waiting" /\ NoJob.todo = {} /\ NoJob.exact = {} /\ NoJob.stale = {}
  /\ NoJob.kept = FALSE /\ NoJob.pending = {} /\ NoJob.drop = {}
BY DEF NoJob

(* A job that is at its start, or done, holds nothing.                     *)
LEMMA EmptyJob ==
  ASSUME NEW s \in Sources, NEW pc \in {"waiting", "probe", "done"}, jobs'[s] = Job(pc, {})
  PROVE  JobOK(s)'
<1>1. PICK j : j = jobs'[s]
  OBVIOUS
<1>2. j = [pc |-> pc, todo |-> {}, exact |-> {}, stale |-> {}, kept |-> FALSE,
           pending |-> {}, drop |-> {}]
  BY <1>1, JobIs
<1>3. JobHolds(s)'
  <2>1. /\ j.pc = pc /\ j.todo = {} /\ j.exact = {} /\ j.stale = {} /\ j.kept = FALSE
        /\ j.pending = {} /\ j.drop = {}
    BY <1>2
  <2>2. j = [pc |-> j.pc, todo |-> j.todo, exact |-> j.exact, stale |-> j.stale,
             kept |-> j.kept, pending |-> j.pending, drop |-> j.drop]
    BY <1>2, <2>1
  <2>3. j.pc \in Pcs
    BY <2>1 DEF Pcs
  <2>. QED BY <1>1, <2>1, <2>2, <2>3 DEF JobHolds
<1>4. JobKnows(s)'
  BY <1>1, <1>2 DEF JobKnows
<1>5. JobFound(s)'
  BY <1>1, <1>2 DEF JobFound
<1>. QED BY <1>3, <1>4, <1>5 DEF JobOK

LEMMA NoJobIsJob == NoJob = Job("waiting", {})
<1>1. Job("waiting", {}) = [pc |-> "waiting", todo |-> {}, exact |-> {}, stale |-> {},
                            kept |-> FALSE, pending |-> {}, drop |-> {}]
  BY JobIs
<1>. QED BY <1>1 DEF NoJob

LEMMA IdleJobs ==
  ASSUME jobs' = [s \in Sources |-> NoJob]
  PROVE  JobsInv'
<1>1. ASSUME NEW s \in Sources PROVE JobOK(s)'
  BY EmptyJob, NoJobIsJob
<1>2. jobs' = [s \in Sources |-> jobs'[s]]
  OBVIOUS
<1>. QED BY <1>1, <1>2 DEF JobsInv

(* What a source's previews should be depends on it and on the tables.     *)
LEMMA ExpectedSame ==
  ASSUME NEW s, UNCHANGED <<policies, rows>>, files'[s] = files[s]
  PROVE  /\ Expected(s)' = Expected(s) /\ (Unreadable(s)' <=> Unreadable(s))
         /\ (Skipped(s)' <=> Skipped(s))
         /\ \A mime : Resolved(s, mime)' = Resolved(s, mime)
<1>1. Skipped(s)' <=> Skipped(s)
  BY DEF Skipped, Globbed
<1>2. GenerateGlobbed(s)' = GenerateGlobbed(s)
  BY DEF GenerateGlobbed, Globbed
<1>3. ASSUME NEW mime PROVE Resolved(s, mime)' = Resolved(s, mime)
  BY <1>2 DEF Resolved
<1>4. Unreadable(s)' <=> Unreadable(s)
  BY DEF Unreadable
<1>5. Resolved(s, MimeOf[files[s].hash])' = Resolved(s, MimeOf[files[s].hash])
  BY <1>2 DEF Resolved
<1>6. Expected(s)' = Expected(s)
  BY <1>1, <1>5 DEF Expected
<1>. QED BY <1>1, <1>3, <1>4, <1>6

(* A job no step touches.                                                  *)
LEMMA JobSame ==
  ASSUME NEW s, JobOK(s), UNCHANGED <<policies, rows>>, jobs'[s] = jobs[s],
         ThumbsOf(s)' = ThumbsOf(s),
         s \notin touched' => s \notin touched /\ files'[s] = files[s]
  PROVE  JobOK(s)'
<1>1. JobHolds(s)'
  <2>1. JobHolds(s)
    BY DEF JobOK
  <2>. QED BY <2>1 DEF JobHolds
<1>2. JobKnows(s)'
  <2>1. JobKnows(s)
    BY DEF JobOK
  <2>. QED BY <2>1 DEF JobKnows
<1>3. JobFound(s)'
  <2>1. SUFFICES ASSUME s \notin touched' PROVE JobFound(s)'
    BY DEF JobFound
  <2>2. s \notin touched /\ files'[s] = files[s] /\ JobFound(s)
    BY <2>1 DEF JobOK
  <2>3. /\ Expected(s)' = Expected(s) /\ (Unreadable(s)' <=> Unreadable(s))
        /\ (Skipped(s)' <=> Skipped(s))
    BY <2>2, ExpectedSame
  <2>4. Resolved(s, MimeOf[files[s].hash])' = Resolved(s, MimeOf[files[s].hash])
    BY <2>2 DEF Resolved, GenerateGlobbed, Globbed
  <2>. QED BY <2>2, <2>3, <2>4 DEF JobFound
<1>. QED BY <1>1, <1>2, <1>3 DEF JobOK

(* A step of the job of s in the walk keeps the invariant if it leaves     *)
(* that job in order.                                                      *)
LEMMA WalkKeeps ==
  ASSUME ThumbnailInv, NEW s \in Sources, NEW j, jobs' = [jobs EXCEPT ![s] = j],
         run.stage = "walk",
         UNCHANGED <<policies, files, rows, run, touched, moves, edits>>,
         upsets' \in 0..MaxUpsets,
         \A t \in thumbs : t \in thumbs' \/ t.src = s,
         \A t \in thumbs' : t \in thumbs \/ (t.src = s /\ t.hash \in Contents),
         ThumbsInv', jobs'[s] = j => JobOK(s)'
  PROVE  ThumbnailInv'
<1>1. jobs = [u \in Sources |-> jobs[u]] /\ \A u \in Sources : JobOK(u)
  BY DEF ThumbnailInv, JobsInv
<1>2. jobs'[s] = j /\ (\A u \in Sources : u # s => jobs'[u] = jobs[u])
      /\ jobs' = [u \in Sources |-> jobs'[u]]
  BY <1>1
<1>3. ASSUME NEW u \in Sources, u # s PROVE JobOK(u)'
  <2>1. ThumbsOf(u)' = ThumbsOf(u)
    BY <1>3 DEF ThumbsOf
  <2>2. JobOK(u) /\ jobs'[u] = jobs[u]
    BY <1>1, <1>2, <1>3
  <2>. QED BY <2>1, <2>2, JobSame
<1>4. JobsInv'
  BY <1>2, <1>3 DEF JobsInv
<1>5. RowsInv'
  BY DEF ThumbnailInv, RowsInv
<1>6. run.todo = {}
  BY DEF ThumbnailInv, RunInv
<1>7. RunInv'
  BY <1>6 DEF ThumbnailInv, RunInv
<1>8. \A u \in Sources : jobs'[u].todo \cup jobs'[u].drop \subseteq ThumbsOf(u)'
  BY <1>4 DEF JobsInv, JobOK, JobHolds
<1>9. \A t \in thumbs' : t.src \in Sources /\ t.hash \in Contents
  BY DEF ThumbnailInv, TypeOK
<1>10. TypeOK'
  BY <1>6, <1>8, <1>9 DEF ThumbnailInv, TypeOK
<1>. QED BY <1>4, <1>5, <1>7, <1>10 DEF ThumbnailInv

(* The stage of the run while a job is under way.                          *)
LEMMA AtWalk ==
  ASSUME ThumbnailInv, NEW s \in Sources, jobs[s].pc \notin {"waiting", "done"}
  PROVE  run.stage = "walk"
<1>1. run.stage \in {"idle", "walk", "sweep"}
  BY DEF ThumbnailInv, RunInv
<1>2. run.stage # "idle" /\ run.stage # "sweep"
  BY NoJobFacts DEF ThumbnailInv, RunInv
<1>. QED BY <1>1, <1>2

(* A step that removes no preview and adds none.                           *)
LEMMA SameThumbs ==
  ASSUME ThumbnailInv, NEW s, thumbs' = thumbs
  PROVE  /\ ThumbsInv' /\ ThumbsOf(s)' = ThumbsOf(s)
         /\ (\A t \in thumbs : t \in thumbs' \/ t.src = s)
         /\ (\A t \in thumbs' : t \in thumbs \/ (t.src = s /\ t.hash \in Contents))
<1>1. ThumbsInv'
  BY DEF ThumbnailInv, ThumbsInv
<1>. QED BY <1>1 DEF ThumbsOf

(***************************************************************************)
(* The steps of a job.                                                     *)
(***************************************************************************)

(* A job that has listed the previews of its source.                       *)
LEMMA ListingJob ==
  ASSUME NEW s \in Sources, NEW pc \in {"discard", "keepOne", "staleStub"},
         jobs'[s] = Job(pc, ThumbsOf(s)),
         UNCHANGED <<policies, files, rows, thumbs, touched>>,
         pc = "discard" => /\ files[s].form = "real" /\ Expected(s) = {}
                           /\ (Unreadable(s) => Skipped(s)),
         pc # "discard" => files[s].form = "stub",
         pc = "keepOne" => \E t \in ThumbsOf(s) : t.hash = rows[s],
         pc = "staleStub" => \A t \in ThumbsOf(s) : t.hash # rows[s]
  PROVE  JobOK(s)'
<1>1. PICK j : j = jobs'[s]
  OBVIOUS
<1>2. j = [pc |-> pc, todo |-> ThumbsOf(s), exact |-> {}, stale |-> {}, kept |-> FALSE,
           pending |-> {}, drop |-> {}]
  BY <1>1, JobIs
<1>3. /\ j.pc = pc /\ j.todo = ThumbsOf(s) /\ j.exact = {} /\ j.stale = {} /\ j.kept = FALSE
      /\ j.pending = {} /\ j.drop = {}
  BY <1>2
<1>4. ThumbsOf(s)' = ThumbsOf(s)
  BY DEF ThumbsOf
<1>5. JobHolds(s)'
  <2>1. j = [pc |-> j.pc, todo |-> j.todo, exact |-> j.exact, stale |-> j.stale,
             kept |-> j.kept, pending |-> j.pending, drop |-> j.drop]
    BY <1>2, <1>3
  <2>2. j.pc \in Pcs
    BY <1>3 DEF Pcs
  <2>. QED BY <1>1, <1>3, <1>4, <2>1, <2>2 DEF JobHolds
<1>6. JobKnows(s)'
  BY <1>1, <1>3, <1>4 DEF JobKnows
<1>7. JobFound(s)'
  BY <1>1, <1>3, ExpectedSame DEF JobFound
<1>. QED BY <1>5, <1>6, <1>7 DEF JobOK

LEMMA StubJobOK ==
  ASSUME NEW s \in Sources, jobs'[s] = StubJob(s), files[s].form = "stub",
         UNCHANGED <<policies, files, rows, thumbs, touched>>
  PROVE  JobOK(s)'
<1>1. CASE rows[s] = Null
  BY <1>1, EmptyJob DEF StubJob
<1>2. CASE rows[s] # Null /\ \E t \in ThumbsOf(s) : t.hash = rows[s]
  BY <1>2, ListingJob DEF StubJob
<1>3. CASE rows[s] # Null /\ ~ \E t \in ThumbsOf(s) : t.hash = rows[s]
  BY <1>3, ListingJob DEF StubJob
<1>. QED BY <1>1, <1>2, <1>3

LEMMA ReachKeeps ==
  ASSUME ThumbnailInv, NEW s \in Sources, Reach(s)
  PROVE  ThumbnailInv'
<1>1. /\ run.stage = "walk" /\ thumbs' = thumbs
      /\ UNCHANGED <<policies, files, rows, run, touched, moves, edits, upsets>>
  BY DEF Reach
<1>2. PICK j : j = IF files[s].form = "none" \/ s \notin run.scope THEN Job("done", {})
                   ELSE IF Skipped(s)
                     THEN IF files[s].form = "stub" THEN StubJob(s)
                                                    ELSE Job("discard", ThumbsOf(s))
                   ELSE IF ~ ShouldProcess(s, run.mode, rows[s]) THEN Job("done", {})
                   ELSE IF files[s].form = "stub" THEN StubJob(s)
                   ELSE Job("probe", {})
  OBVIOUS
<1>3. jobs' = [jobs EXCEPT ![s] = j]
  BY <1>2 DEF Reach
<1>4. ASSUME jobs'[s] = j PROVE JobOK(s)'
  <2>1. CASE j = Job("done", {}) \/ j = Job("probe", {})
    BY <1>4, <2>1, EmptyJob
  <2>2. CASE files[s].form = "stub" /\ j = StubJob(s)
    BY <1>1, <1>4, <2>2, StubJobOK
  <2>3. CASE files[s].form \notin {"none", "stub"} /\ Skipped(s) /\ j = Job("discard", ThumbsOf(s))
    <3>1. files[s].form = "real"
      BY <2>3 DEF ThumbnailInv, TypeOK, Files, NoFile
    <3>2. Expected(s) = {}
      BY <2>3 DEF Expected
    <3>. QED BY <1>1, <1>4, <2>3, <3>1, <3>2, ListingJob
  <2>. QED BY <1>2, <2>1, <2>2, <2>3
<1>5. upsets' \in 0..MaxUpsets
  BY <1>1 DEF ThumbnailInv, TypeOK
<1>. QED BY <1>1, <1>3, <1>4, <1>5, SameThumbs, WalkKeeps

LEMMA ProbeKeeps ==
  ASSUME ThumbnailInv, NEW s \in Sources, Probe(s)
  PROVE  ThumbnailInv'
<1>1. /\ jobs[s].pc = "probe" /\ thumbs' = thumbs
      /\ UNCHANGED <<policies, files, rows, run, touched, moves, edits, upsets>>
  BY DEF Probe
<1>2. PICK mime : mime = IF files[s].form = "real" THEN MimeOf[files[s].hash] ELSE Null
  OBVIOUS
<1>3. PICK wanted : wanted = Resolved(s, mime)
  OBVIOUS
<1>4. PICK k : k = [Job("reconcile", ThumbsOf(s)) EXCEPT !.pending = wanted]
  OBVIOUS
<1>5. PICK j : j = IF mime = Null THEN Job("done", {})
                   ELSE IF wanted = {} THEN Job("discard", ThumbsOf(s))
                   ELSE IF rows[s] = Null THEN Job("done", {})
                   ELSE k
  OBVIOUS
<1>6. jobs' = [jobs EXCEPT ![s] = j]
  BY <1>2, <1>3, <1>4, <1>5 DEF Probe
<1>7. mime # Null => files[s].form = "real" /\ mime = MimeOf[files[s].hash] /\ ~Unreadable(s)
  BY <1>2 DEF Unreadable
<1>8. ASSUME jobs'[s] = j PROVE JobOK(s)'
  <2>1. CASE j = Job("done", {})
    BY <1>8, <2>1, EmptyJob
  <2>2. CASE mime # Null /\ wanted = {} /\ j = Job("discard", ThumbsOf(s))
    <3>1. Expected(s) = {}
      BY <1>3, <1>7, <2>2 DEF Expected
    <3>. QED BY <1>1, <1>7, <1>8, <2>2, <3>1, ListingJob
  <2>3. CASE mime # Null /\ rows[s] # Null /\ j = k
    <3>1. j = [pc |-> "reconcile", todo |-> ThumbsOf(s), exact |-> {}, stale |-> {},
               kept |-> FALSE, pending |-> wanted, drop |-> {}]
      BY <1>4, <2>3, JobIs
    <3>2. /\ j.pc = "reconcile" /\ j.todo = ThumbsOf(s) /\ j.exact = {} /\ j.stale = {}
          /\ j.kept = FALSE /\ j.pending = wanted /\ j.drop = {}
      BY <3>1
    <3>3. ThumbsOf(s)' = ThumbsOf(s)
      BY <1>1 DEF ThumbsOf
    <3>4. JobHolds(s)'
      <4>1. j = [pc |-> j.pc, todo |-> j.todo, exact |-> j.exact, stale |-> j.stale,
                 kept |-> j.kept, pending |-> j.pending, drop |-> j.drop]
        BY <3>1, <3>2
      <4>2. j.pc \in Pcs
        BY <3>2 DEF Pcs
      <4>. QED BY <1>8, <3>2, <3>3, <4>1, <4>2 DEF JobHolds
    <3>5. wanted \subseteq {p \in policies : p.action = "generate"}
      BY <1>3 DEF Resolved, GenerateGlobbed, Globbed
    <3>6. JobKnows(s)'
      BY <1>1, <1>8, <2>3, <3>2, <3>5 DEF JobKnows
    <3>7. Resolved(s, MimeOf[files[s].hash])' = wanted
      BY <1>1, <1>3, <1>7, <2>3 DEF Resolved, GenerateGlobbed, Globbed
    <3>8. Unreadable(s)' <=> Unreadable(s)
      BY <1>1 DEF Unreadable
    <3>9. JobFound(s)'
      BY <1>1, <1>7, <1>8, <2>3, <3>2, <3>7, <3>8 DEF JobFound
    <3>. QED BY <3>4, <3>6, <3>9 DEF JobOK
  <2>. QED BY <1>5, <2>1, <2>2, <2>3
<1>9. upsets' \in 0..MaxUpsets
  BY <1>1 DEF ThumbnailInv, TypeOK
<1>10. run.stage = "walk"
  BY <1>1, AtWalk
<1>. QED BY <1>1, <1>6, <1>8, <1>9, <1>10, SameThumbs, WalkKeeps

(* What the invariant says of a job under way.                             *)
LEMMA JobShape ==
  ASSUME ThumbnailInv, NEW s \in Sources
  PROVE  /\ jobs[s] = [pc |-> jobs[s].pc, todo |-> jobs[s].todo, exact |-> jobs[s].exact,
                       stale |-> jobs[s].stale, kept |-> jobs[s].kept,
                       pending |-> jobs[s].pending, drop |-> jobs[s].drop]
         /\ JobHolds(s) /\ JobKnows(s) /\ JobFound(s)
         /\ jobs = [u \in Sources |-> jobs[u]]
BY DEF ThumbnailInv, JobsInv, JobOK, JobHolds

(* Only a cleanup removes what a listing drops.                            *)
LEMMA RemovedThumbs ==
  ASSUME ThumbnailInv, NEW s \in Sources, NEW dropped, thumbs' = Removed(dropped),
         \A t \in dropped : t.src = s
  PROVE  /\ thumbs' \subseteq thumbs /\ thumbs \ dropped \subseteq thumbs'
         /\ ThumbsOf(s)' \subseteq ThumbsOf(s) /\ ThumbsOf(s) \ dropped \subseteq ThumbsOf(s)'
         /\ ThumbsInv'
         /\ (\A t \in thumbs : t \in thumbs' \/ t.src = s)
<1>1. thumbs' \subseteq thumbs /\ thumbs \ dropped \subseteq thumbs'
  BY DEF Removed
<1>2. ThumbsInv'
  BY <1>1 DEF ThumbnailInv, ThumbsInv
<1>. QED BY <1>1, <1>2 DEF ThumbsOf

LEMMA VisitKeeps ==
  ASSUME ThumbnailInv, NEW s \in Sources, NEW t, Visit(s, t)
  PROVE  ThumbnailInv'
<1>1. PICK job : job = jobs[s]
  OBVIOUS
<1>2. PICK keep \in BOOLEAN : keep = (job.pc = "keepOne" /\ ~ job.kept /\ t.hash = rows[s])
  OBVIOUS
<1>3. PICK dropped : dropped = IF keep \/ (job.pc = "staleStub" /\ ~ run.discard) THEN {} ELSE {t}
  OBVIOUS
<1>4. /\ job.pc \in {"discard", "keepOne", "staleStub"} /\ t \in job.todo
      /\ thumbs' = Removed(dropped)
      /\ UNCHANGED <<policies, files, rows, run, touched, moves, edits, upsets>>
  BY <1>1, <1>2, <1>3 DEF Visit
<1>5. /\ job = [pc |-> job.pc, todo |-> job.todo, exact |-> job.exact, stale |-> job.stale,
                kept |-> job.kept, pending |-> job.pending, drop |-> job.drop]
      /\ JobHolds(s) /\ JobKnows(s) /\ JobFound(s) /\ jobs = [u \in Sources |-> jobs[u]]
  BY <1>1, JobShape
<1>6. PICK j : j = [job EXCEPT !.todo = @ \ {t}, !.kept = @ \/ keep]
  OBVIOUS
<1>7. jobs' = [jobs EXCEPT ![s] = j]
  BY <1>1, <1>2, <1>5, <1>6 DEF Visit
<1>8. j = [pc |-> job.pc, todo |-> job.todo \ {t}, exact |-> job.exact, stale |-> job.stale,
           kept |-> job.kept \/ keep, pending |-> job.pending, drop |-> job.drop]
  BY <1>5, <1>6
<1>9. /\ j.pc = job.pc /\ j.todo = job.todo \ {t} /\ j.exact = job.exact /\ j.stale = job.stale
      /\ (j.kept <=> job.kept \/ keep) /\ j.kept \in BOOLEAN /\ j.pending = job.pending
      /\ j.drop = job.drop
  BY <1>5, <1>8, <1>1 DEF JobHolds
<1>10. job.todo \subseteq ThumbsOf(s) /\ job.stale = {} /\ job.drop = {} /\ job.kept \in BOOLEAN
       /\ job.pc \in Pcs
  BY <1>1, <1>4, <1>5 DEF JobHolds
<1>11. t.src = s /\ \A u \in dropped : u.src = s
  BY <1>3, <1>4, <1>10 DEF ThumbsOf
<1>12. /\ thumbs' \subseteq thumbs /\ ThumbsOf(s)' \subseteq ThumbsOf(s)
       /\ ThumbsOf(s) \ dropped \subseteq ThumbsOf(s)'
       /\ ThumbsInv' /\ (\A u \in thumbs : u \in thumbs' \/ u.src = s)
  BY <1>4, <1>11, RemovedThumbs
<1>13. ASSUME jobs'[s] = j PROVE JobOK(s)'
  <2>1. JobHolds(s)'
    <3>1. j = [pc |-> j.pc, todo |-> j.todo, exact |-> j.exact, stale |-> j.stale,
               kept |-> j.kept, pending |-> j.pending, drop |-> j.drop]
      BY <1>8, <1>9
    <3>2. j.todo \cup j.drop \subseteq ThumbsOf(s)'
      BY <1>3, <1>9, <1>10, <1>12
    <3>3. j.stale = {} /\ j.drop = {} /\ j.pc \in {"discard", "keepOne", "staleStub"}
      BY <1>4, <1>9, <1>10
    <3>. QED BY <1>9, <1>10, <1>13, <3>1, <3>2, <3>3 DEF JobHolds
  <2>2. JobKnows(s)'
    <3>1. j.pending \subseteq {p \in policies : p.action = "generate"}
      BY <1>1, <1>5, <1>9 DEF JobKnows
    <3>2. ASSUME j.pc = "keepOne"
          PROVE  \E u \in ThumbsOf(s)' : u.hash = rows[s] /\ (u \in j.todo <=> ~j.kept)
      <4>1. PICK u \in ThumbsOf(s) : u.hash = rows[s] /\ (u \in job.todo <=> ~job.kept)
        BY <1>1, <1>5, <1>9, <3>2 DEF JobKnows
      <4>2. CASE job.kept
        <5>1. u # t /\ u \in ThumbsOf(s)'
          BY <1>3, <1>4, <1>12, <4>1, <4>2
        <5>. QED BY <1>9, <4>1, <4>2, <5>1
      <4>3. CASE ~job.kept /\ keep
        <5>1. t \in ThumbsOf(s)' /\ t.hash = rows[s]
          BY <1>2, <1>3, <1>4, <1>10, <1>12, <4>3
        <5>. QED BY <1>9, <4>3, <5>1
      <4>4. CASE ~job.kept /\ ~keep
        <5>1. u # t
          BY <1>2, <1>9, <3>2, <4>1, <4>4
        <5>2. u \in ThumbsOf(s)'
          BY <1>3, <1>12, <5>1
        <5>. QED BY <1>9, <4>1, <4>4, <5>1, <5>2
      <4>. QED BY <4>2, <4>3, <4>4
    <3>3. j.pc = "staleStub" => \A u \in ThumbsOf(s)' : u.hash # rows[s]
      BY <1>1, <1>5, <1>9, <1>12 DEF JobKnows
    <3>. QED BY <1>4, <1>9, <1>13, <3>1, <3>2, <3>3 DEF JobKnows
  <2>3. JobFound(s)'
    <3>1. /\ Expected(s)' = Expected(s) /\ (Unreadable(s)' <=> Unreadable(s))
          /\ (Skipped(s)' <=> Skipped(s))
      BY <1>4, ExpectedSame
    <3>2. j.pc \in {"discard", "keepOne", "staleStub"} /\ j.pc = jobs[s].pc
      BY <1>1, <1>4, <1>9
    <3>. QED BY <1>4, <1>5, <1>13, <3>1, <3>2 DEF JobFound
  <2>. QED BY <2>1, <2>2, <2>3 DEF JobOK
<1>14. upsets' \in 0..MaxUpsets
  BY <1>4 DEF ThumbnailInv, TypeOK
<1>15. run.stage = "walk"
  BY <1>1, <1>4, AtWalk
<1>. QED BY <1>4, <1>7, <1>12, <1>13, <1>14, <1>15, WalkKeeps

(* A preview a reconciling job takes for outdated is none that is wanted.  *)
LEMMA OutdatedIsUnwanted ==
  ASSUME NEW s \in Sources, NEW t, files[s].form = "real",
         ~ (t.hash = rows[s] /\ \E p \in Resolved(s, MimeOf[files[s].hash]) :
                                   p.name = t.name /\ t.seg = Segment(p))
  PROVE  t \notin Expected(s)
<1>1. SUFFICES ASSUME t \in Expected(s) PROVE FALSE
  OBVIOUS
<1>2. PICK p \in Resolved(s, MimeOf[files[s].hash]) : t = Thumb(s, p, rows[s])
  BY <1>1 DEF Expected
<1>3. t.name = p.name /\ t.seg = Segment(p) /\ t.hash = rows[s]
  BY <1>2 DEF Thumb
<1>. QED BY <1>3

LEMMA ClaimKeeps ==
  ASSUME ThumbnailInv, NEW s \in Sources, NEW t, Claim(s, t)
  PROVE  ThumbnailInv'
<1>1. PICK job : job = jobs[s]
  OBVIOUS
<1>2. PICK owners : owners = {p \in job.pending : p.name = t.name}
  OBVIOUS
<1>3. PICK exact \in BOOLEAN : exact = (t.hash = rows[s] /\ \E p \in owners : t.seg = Segment(p))
  OBVIOUS
<1>4. PICK held : held = {u \in job.stale : u.name = t.name}
  OBVIOUS
<1>5. /\ job.pc = "reconcile" /\ t \in job.todo
      /\ UNCHANGED <<policies, files, rows, run, touched, moves, edits, upsets>>
  BY <1>1 DEF Claim
<1>6. /\ job = [pc |-> job.pc, todo |-> job.todo, exact |-> job.exact, stale |-> job.stale,
                kept |-> job.kept, pending |-> job.pending, drop |-> job.drop]
      /\ JobHolds(s) /\ JobKnows(s) /\ JobFound(s) /\ jobs = [u \in Sources |-> jobs[u]]
  BY <1>1, JobShape
<1>7. \E dropped, ex, st :
        /\ thumbs' = Removed(dropped) \/ (thumbs' = thumbs /\ dropped = {})
        /\ jobs' = [jobs EXCEPT ![s].todo = @ \ {t}, ![s].exact = ex, ![s].stale = st]
        /\ \/ exact /\ dropped = held /\ st = job.stale \ held
           \/ ~exact /\ dropped = {} /\ st = job.stale \cup {t}
           \/ ~exact /\ dropped = {t} /\ st = job.stale
  <2>1. CASE /\ owners # {} /\ exact
             /\ thumbs' = Removed(held)
             /\ jobs' = [jobs EXCEPT ![s].todo = @ \ {t}, ![s].exact = @ \cup {t.name},
                                     ![s].stale = @ \ held]
    <3>1. jobs' = [jobs EXCEPT ![s].todo = @ \ {t}, ![s].exact = job.exact \cup {t.name},
                               ![s].stale = job.stale \ held]
      BY <1>1, <1>6, <2>1
    <3>. QED BY <2>1, <3>1
  <2>2. CASE /\ owners # {} /\ ~ exact
             /\ jobs' = [jobs EXCEPT ![s].todo = @ \ {t}, ![s].stale = @ \cup {t}]
             /\ UNCHANGED thumbs
    <3>1. jobs' = [jobs EXCEPT ![s].todo = @ \ {t}, ![s].exact = job.exact,
                               ![s].stale = job.stale \cup {t}]
      BY <1>1, <1>6, <2>2
    <3>. QED BY <2>2, <3>1
  <2>3. CASE /\ owners = {} \/ ~ exact
             /\ thumbs' = Removed({t})
             /\ jobs' = [jobs EXCEPT ![s].todo = @ \ {t}]
    <3>1. jobs' = [jobs EXCEPT ![s].todo = @ \ {t}, ![s].exact = job.exact,
                               ![s].stale = job.stale]
      BY <1>1, <1>6, <2>3
    <3>2. ~exact
      BY <1>3, <2>3
    <3>. QED BY <2>3, <3>1, <3>2
  <2>. QED BY <1>1, <1>2, <1>3, <1>4, <2>1, <2>2, <2>3 DEF Claim
<1>8. PICK dropped, ex, st :
        /\ thumbs' = Removed(dropped) \/ (thumbs' = thumbs /\ dropped = {})
        /\ jobs' = [jobs EXCEPT ![s].todo = @ \ {t}, ![s].exact = ex, ![s].stale = st]
        /\ \/ exact /\ dropped = held /\ st = job.stale \ held
           \/ ~exact /\ dropped = {} /\ st = job.stale \cup {t}
           \/ ~exact /\ dropped = {t} /\ st = job.stale
  BY <1>7
<1>9. PICK j : j = [job EXCEPT !.todo = @ \ {t}, !.exact = ex, !.stale = st]
  OBVIOUS
<1>10. jobs' = [jobs EXCEPT ![s] = j]
  BY <1>1, <1>6, <1>8, <1>9
<1>11. j = [pc |-> job.pc, todo |-> job.todo \ {t}, exact |-> ex, stale |-> st,
            kept |-> job.kept, pending |-> job.pending, drop |-> job.drop]
  BY <1>6, <1>9
<1>12. /\ j.pc = "reconcile" /\ j.todo = job.todo \ {t} /\ j.exact = ex /\ j.stale = st
       /\ j.kept = job.kept /\ j.pending = job.pending /\ j.drop = job.drop
  BY <1>5, <1>11
<1>13. job.todo \subseteq ThumbsOf(s) /\ job.drop = {} /\ job.kept \in BOOLEAN
       /\ job.stale \subseteq ThumbsOf(s) /\ job.stale \cap job.todo = {}
  BY <1>1, <1>5, <1>6 DEF JobHolds
<1>14. t.src = s /\ (\A u \in dropped : u.src = s)
  BY <1>4, <1>5, <1>8, <1>13 DEF ThumbsOf
<1>15. /\ thumbs' \subseteq thumbs /\ ThumbsOf(s)' \subseteq ThumbsOf(s)
       /\ ThumbsOf(s) \ dropped \subseteq ThumbsOf(s)'
       /\ ThumbsInv' /\ (\A u \in thumbs : u \in thumbs' \/ u.src = s)
  <2>1. CASE thumbs' = Removed(dropped)
    BY <1>14, <2>1, RemovedThumbs
  <2>2. CASE thumbs' = thumbs
    BY <2>2, SameThumbs
  <2>. QED BY <1>8, <2>1, <2>2
<1>16. ASSUME jobs'[s] = j PROVE JobOK(s)'
  <2>1. JobHolds(s)'
    <3>1. j = [pc |-> j.pc, todo |-> j.todo, exact |-> j.exact, stale |-> j.stale,
               kept |-> j.kept, pending |-> j.pending, drop |-> j.drop]
      BY <1>11, <1>12, <1>5
    <3>2. j.todo \subseteq ThumbsOf(s)'
      BY <1>4, <1>8, <1>12, <1>13, <1>15
    <3>3. j.stale \subseteq ThumbsOf(s)' /\ j.stale \cap j.todo = {}
      BY <1>4, <1>5, <1>8, <1>12, <1>13, <1>15
    <3>4. (\A u \in j.stale : u.src = s) /\ j.drop = {} /\ j.kept \in BOOLEAN
      BY <1>12, <1>13, <3>3 DEF ThumbsOf
    <3>5. j.pc \in Pcs
      BY <1>12 DEF Pcs
    <3>. QED BY <1>12, <1>16, <3>1, <3>2, <3>3, <3>4, <3>5 DEF JobHolds
  <2>2. JobKnows(s)'
    BY <1>1, <1>5, <1>6, <1>12, <1>16 DEF JobKnows
  <2>3. JobFound(s)'
    <3>1. /\ Expected(s)' = Expected(s) /\ (Unreadable(s)' <=> Unreadable(s))
          /\ (Skipped(s)' <=> Skipped(s))
      BY <1>5, ExpectedSame
    <3>2. Resolved(s, MimeOf[files[s].hash])' = Resolved(s, MimeOf[files[s].hash])
      BY <1>5 DEF Resolved, GenerateGlobbed, Globbed
    <3>3. ASSUME s \notin touched
          PROVE  /\ files[s].form = "real" /\ ~Unreadable(s)
                 /\ (j.stale \cup j.drop) \cap Expected(s) = {}
                 /\ j.pending = Resolved(s, MimeOf[files[s].hash])
      <4>1. /\ files[s].form = "real" /\ ~Unreadable(s)
            /\ job.stale \cap Expected(s) = {}
            /\ job.pending = Resolved(s, MimeOf[files[s].hash])
        BY <1>1, <1>5, <1>6, <3>3 DEF JobFound
      <4>2. ~exact => t \notin Expected(s)
        <5>1. SUFFICES ASSUME ~exact PROVE t \notin Expected(s)
          OBVIOUS
        <5>2. ~ (t.hash = rows[s] /\ \E p \in Resolved(s, MimeOf[files[s].hash]) :
                                       p.name = t.name /\ t.seg = Segment(p))
          BY <1>2, <1>3, <4>1, <5>1
        <5>. QED BY <4>1, <5>2, OutdatedIsUnwanted
      <4>3. j.stale \subseteq job.stale \/ (~exact /\ j.stale = job.stale \cup {t})
        BY <1>8, <1>12
      <4>. QED BY <1>12, <1>13, <4>1, <4>2, <4>3
    <3>. QED BY <1>5, <1>12, <1>16, <3>1, <3>2, <3>3 DEF JobFound
  <2>. QED BY <2>1, <2>2, <2>3 DEF JobOK
<1>17. upsets' \in 0..MaxUpsets
  BY <1>5 DEF ThumbnailInv, TypeOK
<1>18. run.stage = "walk"
  BY <1>1, <1>5, AtWalk
<1>. QED BY <1>5, <1>10, <1>15, <1>16, <1>17, <1>18, WalkKeeps

LEMMA ListedKeeps ==
  ASSUME ThumbnailInv, NEW s \in Sources, Listed(s)
  PROVE  ThumbnailInv'
<1>1. PICK job : job = jobs[s]
  OBVIOUS
<1>2. /\ job.pc \in {"discard", "keepOne", "staleStub", "reconcile"} /\ job.todo = {}
      /\ thumbs' = thumbs
      /\ UNCHANGED <<policies, files, rows, run, touched, moves, edits, upsets>>
  BY <1>1 DEF Listed
<1>3. /\ job = [pc |-> job.pc, todo |-> job.todo, exact |-> job.exact, stale |-> job.stale,
                kept |-> job.kept, pending |-> job.pending, drop |-> job.drop]
      /\ JobHolds(s) /\ JobKnows(s) /\ JobFound(s) /\ jobs = [u \in Sources |-> jobs[u]]
  BY <1>1, JobShape
<1>4. PICK left : left = Unserved(s)
  OBVIOUS
<1>5. PICK k : k = [job EXCEPT !.pc = "generate", !.pending = left]
  OBVIOUS
<1>6. PICK j : j = IF job.pc = "reconcile" /\ run.mode = "ensure" THEN k ELSE Job("done", {})
  OBVIOUS
<1>7. jobs' = [jobs EXCEPT ![s] = j]
  BY <1>1, <1>4, <1>5, <1>6 DEF Listed
<1>8. ThumbsOf(s)' = ThumbsOf(s)
  BY <1>2 DEF ThumbsOf
<1>9. ASSUME jobs'[s] = j PROVE JobOK(s)'
  <2>1. CASE j = Job("done", {})
    BY <1>9, <2>1, EmptyJob
  <2>2. CASE job.pc = "reconcile" /\ j = k
    <3>1. j = [pc |-> "generate", todo |-> {}, exact |-> job.exact, stale |-> job.stale,
               kept |-> job.kept, pending |-> left, drop |-> job.drop]
      BY <1>2, <1>3, <1>5, <2>2
    <3>2. /\ j.pc = "generate" /\ j.todo = {} /\ j.exact = job.exact /\ j.stale = job.stale
          /\ j.kept = job.kept /\ j.pending = left /\ j.drop = job.drop
      BY <3>1
    <3>3. j = [pc |-> j.pc, todo |-> j.todo, exact |-> j.exact, stale |-> j.stale,
               kept |-> j.kept, pending |-> j.pending, drop |-> j.drop]
      BY <3>1, <3>2
    <3>4. job.drop = {} /\ job.kept \in BOOLEAN /\ job.stale \subseteq ThumbsOf(s)
          /\ \A t \in job.stale : t.src = s
      BY <1>1, <1>3, <2>2 DEF JobHolds
    <3>5. JobHolds(s)'
      <4>1. j.pc \in Pcs
        BY <3>2 DEF Pcs
      <4>. QED BY <1>8, <1>9, <3>2, <3>3, <3>4, <4>1 DEF JobHolds
    <3>6. JobKnows(s)'
      BY <1>1, <1>2, <1>3, <1>4, <1>9, <2>2, <3>2 DEF JobKnows, Unserved
    <3>7. Expected(s)' = Expected(s) /\ (Unreadable(s)' <=> Unreadable(s))
      BY <1>2, ExpectedSame
    <3>8. JobFound(s)'
      BY <1>1, <1>2, <1>3, <1>9, <2>2, <3>2, <3>7 DEF JobFound
    <3>. QED BY <3>5, <3>6, <3>8 DEF JobOK
  <2>. QED BY <1>6, <2>1, <2>2
<1>10. upsets' \in 0..MaxUpsets
  BY <1>2 DEF ThumbnailInv, TypeOK
<1>11. run.stage = "walk"
  BY <1>1, <1>2, AtWalk
<1>. QED BY <1>2, <1>7, <1>9, <1>10, <1>11, SameThumbs, WalkKeeps

(* A job that generates: it goes on with fewer policies, and may drop the  *)
(* previews those replace.                                                 *)
LEMMA GenerateKeeps ==
  ASSUME ThumbnailInv, NEW s \in Sources, NEW left, NEW drop,
         jobs[s].pc = "generate",
         jobs' = [jobs EXCEPT ![s] = [pc |-> "generate", todo |-> {}, exact |-> jobs[s].exact,
                                      stale |-> jobs[s].stale, kept |-> jobs[s].kept,
                                      pending |-> left, drop |-> drop]],
         left \subseteq jobs[s].pending, drop \subseteq jobs[s].stale,
         UNCHANGED <<policies, files, rows, run, touched, moves, edits>>,
         upsets' \in 0..MaxUpsets,
         \A t \in thumbs : t \in thumbs' \/ t.src = s,
         \A t \in thumbs' : t \in thumbs \/ (t.src = s /\ t.hash \in Contents),
         ThumbsInv',
         drop \subseteq ThumbsOf(s)',
         \A t \in jobs[s].stale : (\E p \in left : p.name = t.name) => t \in ThumbsOf(s)',
         \A t \in drop, p \in left : p.name # t.name
  PROVE  ThumbnailInv'
<1>1. PICK job : job = jobs[s]
  OBVIOUS
<1>2. PICK j : j = [pc |-> "generate", todo |-> {}, exact |-> job.exact, stale |-> job.stale,
                    kept |-> job.kept, pending |-> left, drop |-> drop]
  OBVIOUS
<1>3. jobs' = [jobs EXCEPT ![s] = j]
  BY <1>1, <1>2
<1>4. /\ j.pc = "generate" /\ j.todo = {} /\ j.exact = job.exact /\ j.stale = job.stale
      /\ j.kept = job.kept /\ j.pending = left /\ j.drop = drop
  BY <1>2
<1>5. JobHolds(s) /\ JobKnows(s) /\ JobFound(s)
  BY JobShape
<1>6. ASSUME jobs'[s] = j PROVE JobOK(s)'
  <2>1. JobHolds(s)'
    <3>1. j = [pc |-> j.pc, todo |-> j.todo, exact |-> j.exact, stale |-> j.stale,
               kept |-> j.kept, pending |-> j.pending, drop |-> j.drop]
      BY <1>2, <1>4
    <3>2. j.pc \in Pcs
      BY <1>4 DEF Pcs
    <3>3. job.kept \in BOOLEAN /\ \A t \in job.stale : t.src = s
      BY <1>1, <1>5 DEF JobHolds
    <3>. QED BY <1>1, <1>4, <1>6, <3>1, <3>2, <3>3 DEF JobHolds
  <2>2. JobKnows(s)'
    BY <1>1, <1>4, <1>5, <1>6 DEF JobKnows
  <2>3. Expected(s)' = Expected(s) /\ (Unreadable(s)' <=> Unreadable(s))
    BY ExpectedSame
  <2>4. JobFound(s)'
    BY <1>1, <1>4, <1>5, <1>6, <2>3 DEF JobFound
  <2>. QED BY <2>1, <2>2, <2>4 DEF JobOK
<1>7. run.stage = "walk"
  BY AtWalk
<1>. QED BY <1>3, <1>6, <1>7, WalkKeeps

LEMMA PublishKeeps ==
  ASSUME ThumbnailInv, NEW s \in Sources, NEW p, Publish(s, p)
  PROVE  ThumbnailInv'
<1>1. PICK job : job = jobs[s]
  OBVIOUS
<1>2. PICK stale : stale = {t \in job.stale : t.name = p.name}
  OBVIOUS
<1>3. /\ job.pc = "generate" /\ p \in job.pending /\ job.drop = {}
      /\ thumbs' = thumbs \cup {Thumb(s, p, rows[s])}
      /\ UNCHANGED <<policies, files, rows, run, touched, moves, edits, upsets>>
  BY <1>1 DEF Publish
<1>4. /\ job = [pc |-> job.pc, todo |-> job.todo, exact |-> job.exact, stale |-> job.stale,
                kept |-> job.kept, pending |-> job.pending, drop |-> job.drop]
      /\ JobHolds(s) /\ JobKnows(s) /\ JobFound(s) /\ jobs = [u \in Sources |-> jobs[u]]
  BY <1>1, JobShape
<1>5. PICK k : k = [job EXCEPT !.pending = @ \ {p}, !.drop = stale]
  OBVIOUS
<1>6. k = [pc |-> "generate", todo |-> {}, exact |-> job.exact, stale |-> job.stale,
           kept |-> job.kept, pending |-> job.pending \ {p}, drop |-> stale]
  <2>1. job.todo = {}
    BY <1>1, <1>3, <1>4 DEF JobHolds
  <2>. QED BY <1>3, <1>4, <1>5, <2>1
<1>7. jobs' = [jobs EXCEPT ![s] = k]
  BY <1>1, <1>2, <1>4, <1>5 DEF Publish
<1>8. p \in policies /\ p.action = "generate" /\ job.pending \subseteq policies /\ rows[s] # Null
  BY <1>1, <1>3, <1>4 DEF JobKnows
<1>9. Recipes(p)
  BY <1>8 DEF ThumbnailInv, RowsInv, Recipes
<1>10. PICK new : new = Thumb(s, p, rows[s])
  OBVIOUS
<1>11. new.src = s /\ new.hash = rows[s] /\ new.seg = Segment(p) /\ new.made = Recipe(p)
  BY <1>10 DEF Thumb
<1>12. rows[s] \in Contents
  BY <1>8 DEF ThumbnailInv, TypeOK
<1>13. ThumbsInv'
  BY <1>3, <1>9, <1>10, <1>11 DEF ThumbnailInv, ThumbsInv
<1>14. \A t \in job.stale : (\E q \in job.pending : q.name = t.name) => t \in ThumbsOf(s)
  BY <1>1, <1>3, <1>4 DEF JobHolds
<1>15. ThumbsOf(s) \subseteq ThumbsOf(s)'
  BY <1>3 DEF ThumbsOf
<1>16. stale \subseteq ThumbsOf(s)' /\ stale \subseteq job.stale
  BY <1>2, <1>3, <1>14, <1>15
<1>17. \A t \in stale, q \in job.pending \ {p} : q.name # t.name
  BY <1>2, <1>8 DEF ThumbnailInv, RowsInv
<1>18. upsets' \in 0..MaxUpsets
  BY <1>3 DEF ThumbnailInv, TypeOK
<1>19. \A t \in thumbs' : t \in thumbs \/ (t.src = s /\ t.hash \in Contents)
  BY <1>3, <1>10, <1>11, <1>12
<1>20. \A t \in thumbs : t \in thumbs' \/ t.src = s
  BY <1>3
<1>21. \A t \in job.stale : (\E q \in job.pending \ {p} : q.name = t.name) => t \in ThumbsOf(s)'
  BY <1>14, <1>15
<1>22. PICK left : left = jobs[s].pending \ {p}
  OBVIOUS
<1>23. jobs' = [jobs EXCEPT ![s] = [pc |-> "generate", todo |-> {}, exact |-> jobs[s].exact,
                                    stale |-> jobs[s].stale, kept |-> jobs[s].kept,
                                    pending |-> left, drop |-> stale]]
  BY <1>1, <1>6, <1>7, <1>22
<1>24. left \subseteq jobs[s].pending /\ stale \subseteq jobs[s].stale
       /\ (\A t \in jobs[s].stale : (\E q \in left : q.name = t.name) => t \in ThumbsOf(s)')
       /\ (\A t \in stale, q \in left : q.name # t.name)
  BY <1>1, <1>16, <1>17, <1>21, <1>22
<1>25. jobs[s].pc = "generate" /\ UNCHANGED <<policies, files, rows, run, touched, moves, edits>>
  BY <1>1, <1>3
<1>. QED BY <1>13, <1>16, <1>18, <1>19, <1>20, <1>23, <1>24, <1>25, GenerateKeeps

LEMMA DropStaleKeeps ==
  ASSUME ThumbnailInv, NEW s \in Sources, DropStale(s)
  PROVE  ThumbnailInv'
<1>1. PICK job : job = jobs[s]
  OBVIOUS
<1>2. /\ job.drop # {} /\ thumbs' = thumbs \ job.drop
      /\ UNCHANGED <<policies, files, rows, run, touched, moves, edits, upsets>>
  BY <1>1 DEF DropStale
<1>3. /\ job = [pc |-> job.pc, todo |-> job.todo, exact |-> job.exact, stale |-> job.stale,
                kept |-> job.kept, pending |-> job.pending, drop |-> job.drop]
      /\ JobHolds(s) /\ jobs = [u \in Sources |-> jobs[u]]
  BY <1>1, JobShape
<1>4. job.pc = "generate"
  BY <1>1, <1>2, <1>3 DEF JobHolds
<1>5. /\ job.todo = {} /\ job.drop \subseteq ThumbsOf(s)
      /\ \A t \in job.stale : (\E p \in job.pending : p.name = t.name) => t \in ThumbsOf(s)
      /\ \A t \in job.drop, p \in job.pending : p.name # t.name
  BY <1>1, <1>3, <1>4 DEF JobHolds
<1>6. PICK k : k = [job EXCEPT !.drop = {}]
  OBVIOUS
<1>7. k = [pc |-> "generate", todo |-> {}, exact |-> job.exact, stale |-> job.stale,
           kept |-> job.kept, pending |-> job.pending, drop |-> {}]
  BY <1>3, <1>4, <1>5, <1>6
<1>8. jobs' = [jobs EXCEPT ![s] = k]
  BY <1>1, <1>3, <1>6 DEF DropStale
<1>9. ThumbsInv'
  BY <1>2 DEF ThumbnailInv, ThumbsInv
<1>10. \A t \in job.stale : (\E p \in job.pending : p.name = t.name) => t \in ThumbsOf(s)'
  BY <1>2, <1>5 DEF ThumbsOf
<1>11. upsets' \in 0..MaxUpsets
  BY <1>2 DEF ThumbnailInv, TypeOK
<1>12. \A t \in thumbs : t \in thumbs' \/ t.src = s
  BY <1>2, <1>5 DEF ThumbsOf
<1>13. \A t \in thumbs' : t \in thumbs \/ (t.src = s /\ t.hash \in Contents)
  BY <1>2
<1>14. jobs' = [jobs EXCEPT ![s] = [pc |-> "generate", todo |-> {}, exact |-> jobs[s].exact,
                                    stale |-> jobs[s].stale, kept |-> jobs[s].kept,
                                    pending |-> jobs[s].pending, drop |-> {}]]
  BY <1>1, <1>7, <1>8
<1>15. PICK none : none = {}
  OBVIOUS
<1>16. none \subseteq jobs[s].stale /\ none \subseteq ThumbsOf(s)'
       /\ \A t \in none, p \in jobs[s].pending : p.name # t.name
  BY <1>15
<1>. QED BY <1>1, <1>2, <1>4, <1>9, <1>10, <1>11, <1>12, <1>13, <1>14, <1>15, <1>16, GenerateKeeps

LEMMA GenerationFailsKeeps ==
  ASSUME ThumbnailInv, NEW s \in Sources, NEW p, GenerationFails(s, p)
  PROVE  ThumbnailInv'
<1>1. PICK job : job = jobs[s]
  OBVIOUS
<1>2. /\ job.pc = "generate" /\ p \in job.pending /\ job.drop = {} /\ thumbs' = thumbs
      /\ upsets' = upsets \/ (upsets < MaxUpsets /\ upsets' = upsets + 1)
      /\ UNCHANGED <<policies, files, rows, run, touched, moves, edits>>
  BY <1>1 DEF GenerationFails
<1>3. /\ job = [pc |-> job.pc, todo |-> job.todo, exact |-> job.exact, stale |-> job.stale,
                kept |-> job.kept, pending |-> job.pending, drop |-> job.drop]
      /\ JobHolds(s) /\ jobs = [u \in Sources |-> jobs[u]]
  BY <1>1, JobShape
<1>4. /\ job.todo = {}
      /\ \A t \in job.stale : (\E q \in job.pending : q.name = t.name) => t \in ThumbsOf(s)
  BY <1>1, <1>2, <1>3 DEF JobHolds
<1>5. PICK k : k = [job EXCEPT !.pending = @ \ {p}]
  OBVIOUS
<1>6. k = [pc |-> "generate", todo |-> {}, exact |-> job.exact, stale |-> job.stale,
           kept |-> job.kept, pending |-> job.pending \ {p}, drop |-> {}]
  BY <1>2, <1>3, <1>4, <1>5
<1>7. jobs' = [jobs EXCEPT ![s] = k]
  BY <1>1, <1>3, <1>5 DEF GenerationFails
<1>8. upsets' \in 0..MaxUpsets
  BY <1>2, ThumbnailsAssumption DEF ThumbnailInv, TypeOK
<1>9. ThumbsInv' /\ ThumbsOf(s)' = ThumbsOf(s)
      /\ (\A t \in thumbs : t \in thumbs' \/ t.src = s)
      /\ (\A t \in thumbs' : t \in thumbs \/ (t.src = s /\ t.hash \in Contents))
  BY <1>2, SameThumbs
<1>10. \A t \in job.stale : (\E q \in job.pending \ {p} : q.name = t.name) => t \in ThumbsOf(s)'
  BY <1>4, <1>9
<1>. QED BY <1>1, <1>2, <1>6, <1>7, <1>8, <1>9, <1>10, GenerateKeeps

LEMMA JobEndsKeeps ==
  ASSUME ThumbnailInv, NEW s \in Sources, JobEnds(s)
  PROVE  ThumbnailInv'
<1>1. /\ jobs[s].pc = "generate" /\ thumbs' = thumbs
      /\ jobs' = [jobs EXCEPT ![s] = Job("done", {})]
      /\ UNCHANGED <<policies, files, rows, run, touched, moves, edits, upsets>>
  BY DEF JobEnds
<1>2. ASSUME jobs'[s] = Job("done", {}) PROVE JobOK(s)'
  BY <1>2, EmptyJob
<1>3. upsets' \in 0..MaxUpsets
  BY <1>1 DEF ThumbnailInv, TypeOK
<1>4. run.stage = "walk"
  BY <1>1, AtWalk
<1>. QED BY <1>1, <1>2, <1>3, <1>4, SameThumbs, WalkKeeps

(***************************************************************************)
(* The other steps.                                                        *)
(***************************************************************************)

(* While no run is under way, jobs hold nothing.                           *)
LEMMA WhileIdling ==
  ASSUME ThumbnailInv, Idling
  PROVE  /\ jobs = [s \in Sources |-> NoJob] /\ run.todo = {} /\ run.scope = {}
         /\ run.stage = "idle"
<1>1. run = [mode |-> "none", stage |-> "idle", scope |-> {}, discard |-> FALSE, todo |-> {}]
  BY DEF Idling, NoRun
<1>2. run.stage = "idle" /\ run.todo = {} /\ run.scope = {}
  BY <1>1
<1>3. jobs = [s \in Sources |-> jobs[s]] /\ \A s \in Sources : jobs[s] = NoJob
  BY <1>2 DEF ThumbnailInv, RunInv, JobsInv
<1>. QED BY <1>2, <1>3

LEMMA NoRunFacts ==
  /\ NoRun.mode = "none" /\ NoRun.stage = "idle" /\ NoRun.scope = {}
  /\ NoRun.discard = FALSE /\ NoRun.todo = {}
  /\ \A T : NoRun \in [mode : {"none", "ensure", "cleanup"}, stage : {"idle", "walk", "sweep"},
                       scope : SUBSET Sources, discard : BOOLEAN, todo : SUBSET T]
BY DEF NoRun

(* A step after which no run is under way.                                 *)
LEMMA IdleKeeps ==
  ASSUME ThumbnailInv, run' = NoRun, jobs' = [s \in Sources |-> NoJob],
         files' \in [Sources -> Files], rows' \in [Sources -> Contents \cup {Null}],
         UNCHANGED thumbs, RowsInv',
         moves' \in 0..MaxMoves, edits' \in 0..MaxEdits, upsets' \in 0..MaxUpsets
  PROVE  ThumbnailInv'
<1>1. JobsInv'
  BY IdleJobs
<1>2. ThumbsInv'
  BY DEF ThumbnailInv, ThumbsInv
<1>3. RunInv'
  BY NoRunFacts DEF RunInv
<1>4. \A s \in Sources : jobs'[s].todo \cup jobs'[s].drop = {}
  BY NoJobFacts
<1>5. TypeOK'
  BY <1>4, NoRunFacts DEF ThumbnailInv, TypeOK, ThumbsOf
<1>. QED BY <1>1, <1>2, <1>3, <1>5 DEF ThumbnailInv

LEMMA InitKeeps == Init => ThumbnailInv
<1>. SUFFICES ASSUME Init PROVE ThumbnailInv
  OBVIOUS
<1>1. /\ files \in [Sources -> Files] /\ rows \in [Sources -> Contents \cup {Null}]
      /\ thumbs = {} /\ run = NoRun /\ jobs = [s \in Sources |-> NoJob]
      /\ moves = 0 /\ edits = 0 /\ upsets = 0
  BY ThumbnailsAssumption DEF Init, Files, File
<1>2. RowsInv
  BY RowsInit
<1>3. ThumbsInv
  BY <1>1 DEF ThumbsInv
<1>4. RunInv
  BY <1>1, NoRunFacts DEF RunInv
<1>5. ASSUME NEW s \in Sources PROVE JobOK(s)
  <2>1. PICK j : j = jobs[s]
    OBVIOUS
  <2>2. j = [pc |-> "waiting", todo |-> {}, exact |-> {}, stale |-> {}, kept |-> FALSE,
             pending |-> {}, drop |-> {}]
    BY <1>1, <2>1 DEF NoJob
  <2>3. /\ j.pc = "waiting" /\ j.todo = {} /\ j.exact = {} /\ j.stale = {} /\ j.kept = FALSE
        /\ j.pending = {} /\ j.drop = {}
    BY <2>2
  <2>4. JobHolds(s)
    <3>1. j = [pc |-> j.pc, todo |-> j.todo, exact |-> j.exact, stale |-> j.stale,
               kept |-> j.kept, pending |-> j.pending, drop |-> j.drop]
      BY <2>2, <2>3
    <3>. QED BY <2>1, <2>3, <3>1 DEF JobHolds, Pcs
  <2>5. JobKnows(s)
    BY <2>1, <2>3 DEF JobKnows
  <2>6. JobFound(s)
    BY <2>1, <2>3 DEF JobFound
  <2>. QED BY <2>4, <2>5, <2>6 DEF JobOK
<1>6. JobsInv
  BY <1>1, <1>5 DEF JobsInv
<1>7. TypeOK
  <2>1. \A s \in Sources : jobs[s].todo \cup jobs[s].drop = {}
    BY <1>1, NoJobFacts
  <2>. QED BY <1>1, <2>1, NoRunFacts, ThumbnailsAssumption DEF TypeOK
<1>. QED BY <1>2, <1>3, <1>4, <1>6, <1>7 DEF ThumbnailInv

LEMMA StartKeeps ==
  ASSUME ThumbnailInv, NEW mode \in {"ensure", "cleanup"}, NEW scope \in SUBSET Sources,
         NEW discard \in BOOLEAN, Start(mode, scope, discard)
  PROVE  ThumbnailInv'
<1>1. PICK r : r = [mode |-> mode, stage |-> "walk", scope |-> scope, discard |-> discard,
                    todo |-> {}]
  OBVIOUS
<1>2. /\ run' = r /\ jobs' = [s \in Sources |-> NoJob]
      /\ UNCHANGED <<policies, files, rows, thumbs, moves, edits>>
      /\ upsets' = upsets \/ (upsets < MaxUpsets /\ upsets' = upsets + 1)
  BY <1>1 DEF Start
<1>3. /\ r.stage = "walk" /\ r.todo = {} /\ r.scope = scope
      /\ r \in [mode : {"none", "ensure", "cleanup"}, stage : {"idle", "walk", "sweep"},
                scope : SUBSET Sources, discard : BOOLEAN, todo : SUBSET thumbs]
  BY <1>1
<1>4. JobsInv'
  BY <1>2, IdleJobs
<1>5. ThumbsInv' /\ RowsInv'
  BY <1>2 DEF ThumbnailInv, ThumbsInv, RowsInv
<1>6. RunInv'
  BY <1>2, <1>3 DEF RunInv
<1>7. upsets' \in 0..MaxUpsets
  BY <1>2, ThumbnailsAssumption DEF ThumbnailInv, TypeOK
<1>8. \A s \in Sources : jobs'[s].todo \cup jobs'[s].drop = {}
  BY <1>2, NoJobFacts
<1>9. TypeOK'
  BY <1>2, <1>3, <1>7, <1>8 DEF ThumbnailInv, TypeOK, ThumbsOf
<1>. QED BY <1>4, <1>5, <1>6, <1>9 DEF ThumbnailInv

(* A step of the sweep: all jobs are done and hold nothing.                *)
LEMMA SweepKeeps ==
  ASSUME ThumbnailInv, NEW todo, run' = [run EXCEPT !.stage = "sweep", !.todo = todo],
         \A s \in Sources : jobs[s].pc = "done",
         thumbs' \subseteq thumbs, todo \subseteq thumbs',
         UNCHANGED <<policies, files, rows, jobs, touched, moves, edits, upsets>>
  PROVE  ThumbnailInv'
<1>1. PICK r : r = [run EXCEPT !.stage = "sweep", !.todo = todo]
  OBVIOUS
<1>2. /\ r \in [mode : {"none", "ensure", "cleanup"}, stage : {"idle", "walk", "sweep"},
                scope : SUBSET Sources, discard : BOOLEAN, todo : SUBSET thumbs']
      /\ r.stage = "sweep" /\ r.todo = todo /\ r.scope = run.scope /\ run' = r
  BY <1>1 DEF ThumbnailInv, RunInv
<1>3. RunInv'
  BY <1>2 DEF RunInv
<1>4. ThumbsInv' /\ RowsInv'
  BY DEF ThumbnailInv, ThumbsInv, RowsInv
<1>5. ASSUME NEW s \in Sources PROVE JobOK(s)' /\ jobs[s].todo \cup jobs[s].drop = {}
  <2>1. JobHolds(s) /\ JobKnows(s) /\ JobFound(s) /\ jobs[s].pc = "done"
    BY JobShape
  <2>2. jobs[s].todo = {} /\ jobs[s].drop = {} /\ jobs[s].stale = {}
    BY <2>1 DEF JobHolds
  <2>3. JobHolds(s)'
    BY <2>1, <2>2 DEF JobHolds
  <2>4. JobKnows(s)'
    BY <2>1 DEF JobKnows
  <2>5. JobFound(s)'
    BY <2>1 DEF JobFound
  <2>. QED BY <2>2, <2>3, <2>4, <2>5 DEF JobOK
<1>6. JobsInv'
  BY <1>5 DEF ThumbnailInv, JobsInv
<1>7. TypeOK'
  BY <1>2, <1>5 DEF ThumbnailInv, TypeOK, RunInv
<1>. QED BY <1>3, <1>4, <1>6, <1>7 DEF ThumbnailInv

LEMMA SweepsKeep ==
  ASSUME ThumbnailInv, StartSweep \/ \E t \in run.todo : Sweep(t)
  PROVE  ThumbnailInv'
<1>1. CASE StartSweep
  <2>1. /\ run' = [run EXCEPT !.stage = "sweep", !.todo = thumbs] /\ thumbs' = thumbs
        /\ \A s \in Sources : jobs[s].pc = "done"
        /\ UNCHANGED <<policies, files, rows, jobs, touched, moves, edits, upsets>>
    BY <1>1 DEF StartSweep
  <2>. QED BY <2>1, SweepKeeps
<1>2. ASSUME NEW t \in run.todo, Sweep(t) PROVE ThumbnailInv'
  <2>1. /\ run.stage = "sweep" /\ run' = [run EXCEPT !.todo = @ \ {t}]
        /\ UNCHANGED <<policies, files, rows, jobs, touched, moves, edits, upsets>>
        /\ thumbs' = thumbs \/ thumbs' = Removed({t})
    BY <1>2 DEF Sweep
  <2>2. thumbs' \subseteq thumbs /\ thumbs \ {t} \subseteq thumbs'
    BY <2>1 DEF Removed
  <2>3. PICK todo : todo = run.todo \ {t}
    OBVIOUS
  <2>4. run' = [run EXCEPT !.stage = "sweep", !.todo = todo]
    <3>1. run \in [mode : {"none", "ensure", "cleanup"}, stage : {"idle", "walk", "sweep"},
                   scope : SUBSET Sources, discard : BOOLEAN, todo : SUBSET thumbs]
      BY DEF ThumbnailInv, RunInv
    <3>. QED BY <2>1, <2>3, <3>1
  <2>5. todo \subseteq thumbs' /\ \A s \in Sources : jobs[s].pc = "done"
    BY <2>1, <2>2, <2>3 DEF ThumbnailInv, RunInv
  <2>. QED BY <2>1, <2>2, <2>4, <2>5, SweepKeeps
<1>. QED BY <1>1, <1>2

LEMMA RunEndsKeeps == ThumbnailInv /\ (Finish \/ Kill) => ThumbnailInv'
<1>. SUFFICES ASSUME ThumbnailInv, Finish \/ Kill PROVE ThumbnailInv'
  OBVIOUS
<1>1. /\ run' = NoRun /\ jobs' = [s \in Sources |-> NoJob]
      /\ UNCHANGED <<policies, files, rows, thumbs, moves, edits>>
      /\ upsets' = upsets \/ (upsets < MaxUpsets /\ upsets' = upsets + 1)
  BY DEF Finish, Kill
<1>2. upsets' \in 0..MaxUpsets
  BY <1>1, ThumbnailsAssumption DEF ThumbnailInv, TypeOK
<1>3. RowsInv'
  BY <1>1 DEF ThumbnailInv, RowsInv
<1>. QED BY <1>1, <1>2, <1>3, IdleKeeps DEF ThumbnailInv, TypeOK

(* The user changes a source, under a run or not.                          *)
LEMMA ChangeKeeps ==
  ASSUME ThumbnailInv, NEW s \in Sources, NEW f \in Files,
         files' = [files EXCEPT ![s] = f],
         touched' = IF Idling THEN {} ELSE touched \cup {s},
         moves' \in 0..MaxMoves,
         UNCHANGED <<policies, rows, thumbs, run, jobs, edits, upsets>>
  PROVE  ThumbnailInv'
<1>1. files' \in [Sources -> Files] /\ \A u \in Sources : u # s => files'[u] = files[u]
  BY DEF ThumbnailInv, TypeOK
<1>2. CASE Idling
  <2>1. jobs' = [u \in Sources |-> NoJob] /\ run' = NoRun
    BY <1>2, WhileIdling DEF Idling
  <2>2. RowsInv'
    BY DEF ThumbnailInv, RowsInv
  <2>. QED BY <1>1, <2>1, <2>2, IdleKeeps DEF ThumbnailInv, TypeOK
<1>3. CASE ~Idling
  <2>1. touched' = touched \cup {s}
    BY <1>3
  <2>2. ASSUME NEW u \in Sources PROVE JobOK(u)'
    <3>1. JobOK(u)
      BY DEF ThumbnailInv, JobsInv
    <3>2. ThumbsOf(u)' = ThumbsOf(u)
      BY DEF ThumbsOf
    <3>3. u \notin touched' => u \notin touched /\ files'[u] = files[u]
      BY <1>1, <2>1
    <3>. QED BY <3>1, <3>2, <3>3, JobSame
  <2>3. JobsInv'
    BY <2>2 DEF ThumbnailInv, JobsInv
  <2>4. RowsInv' /\ ThumbsInv' /\ RunInv'
    BY DEF ThumbnailInv, RowsInv, ThumbsInv, RunInv
  <2>5. TypeOK'
    BY <1>1 DEF ThumbnailInv, TypeOK, ThumbsOf
  <2>. QED BY <2>3, <2>4, <2>5 DEF ThumbnailInv
<1>. QED BY <1>2, <1>3

LEMMA MovingTyped == TypeOK /\ Moving => moves' \in 0..MaxMoves
BY ThumbnailsAssumption DEF TypeOK, Moving

LEMMA UserKeeps == ThumbnailInv /\ UserSteps => ThumbnailInv'
<1>. SUFFICES ASSUME ThumbnailInv, UserSteps PROVE ThumbnailInv'
  OBVIOUS
<1>1. ASSUME NEW s \in Sources, NEW h \in Contents, Write(s, h) PROVE ThumbnailInv'
  <2>1. File("real", h) \in Files
    BY DEF File, Files
  <2>2. moves' \in 0..MaxMoves
    BY <1>1, MovingTyped DEF Write, ThumbnailInv
  <2>. QED BY <1>1, <2>1, <2>2, ChangeKeeps DEF Write
<1>2. ASSUME NEW s \in Sources, Remove(s) PROVE ThumbnailInv'
  <2>1. NoFile \in Files
    BY DEF Files
  <2>2. moves' \in 0..MaxMoves
    BY <1>2, MovingTyped DEF Remove, ThumbnailInv
  <2>. QED BY <1>2, <2>1, <2>2, ChangeKeeps DEF Remove
<1>3. ASSUME NEW s \in Sources, NEW f \in Files, Idling, files' = [files EXCEPT ![s] = f], Moving,
             UNCHANGED <<policies, rows, thumbs, run, jobs, touched, edits, upsets>>
      PROVE  ThumbnailInv'
  <2>1. files' \in [Sources -> Files]
    BY <1>3 DEF ThumbnailInv, TypeOK
  <2>2. moves' \in 0..MaxMoves
    BY <1>3, MovingTyped DEF ThumbnailInv
  <2>3. RowsInv'
    BY <1>3 DEF ThumbnailInv, RowsInv
  <2>4. jobs' = [u \in Sources |-> NoJob] /\ run' = NoRun
    BY <1>3, WhileIdling DEF Idling
  <2>. QED BY <1>3, <2>1, <2>2, <2>3, <2>4, IdleKeeps DEF ThumbnailInv, TypeOK
<1>4. ASSUME NEW s \in Sources, Stubify(s) PROVE ThumbnailInv'
  <2>1. files[s] \in Files /\ files[s].form = "real" /\ rows[s] = files[s].hash
    BY <1>4 DEF Stubify, ThumbnailInv, TypeOK
  <2>2. rows[s] \in Contents
    BY <2>1 DEF Files, NoFile
  <2>3. File("stub", rows[s]) \in Files
    BY <2>2 DEF File, Files
  <2>. QED BY <1>3, <1>4, <2>3 DEF Stubify
<1>5. ASSUME NEW s \in Sources, Materialize(s) PROVE ThumbnailInv'
  <2>1. files[s] \in Files /\ files[s].form = "stub"
    BY <1>5 DEF Materialize, ThumbnailInv, TypeOK
  <2>2. files[s] \in [form : {"real", "stub"}, hash : Contents]
    BY <2>1 DEF Files, NoFile
  <2>3. PICK f : f = [files[s] EXCEPT !.form = "real"]
    OBVIOUS
  <2>4. f \in Files /\ files' = [files EXCEPT ![s] = f]
    BY <1>5, <2>2, <2>3 DEF Files, Materialize
  <2>. QED BY <1>3, <1>5, <2>4 DEF Materialize
<1>. QED BY <1>1, <1>2, <1>4, <1>5 DEF UserSteps

LEMMA ScanKeeps == ThumbnailInv /\ Scan => ThumbnailInv'
<1>. SUFFICES ASSUME ThumbnailInv, Scan PROVE ThumbnailInv'
  OBVIOUS
<1>1. /\ Idling /\ rows' = [s \in Sources |-> files[s].hash]
      /\ UNCHANGED <<policies, files, thumbs, run, jobs, touched, moves, edits, upsets>>
  BY DEF Scan, Scanned
<1>2. \A s \in Sources : files[s] \in Files
  BY DEF ThumbnailInv, TypeOK
<1>3. \A s \in Sources : files[s].hash \in Contents \cup {Null}
  BY <1>2 DEF Files, NoFile
<1>4. rows' \in [Sources -> Contents \cup {Null}]
  BY <1>1, <1>3
<1>5. RowsInv'
  BY <1>1 DEF ThumbnailInv, RowsInv
<1>6. jobs' = [u \in Sources |-> NoJob] /\ run' = NoRun
  BY <1>1, WhileIdling DEF Idling
<1>. QED BY <1>1, <1>4, <1>5, <1>6, IdleKeeps DEF ThumbnailInv, TypeOK

LEMMA EditKeeps == ThumbnailInv /\ EditPolicies => ThumbnailInv'
<1>. SUFFICES ASSUME ThumbnailInv, EditPolicies PROVE ThumbnailInv'
  OBVIOUS
<1>1. /\ Idling /\ edits < MaxEdits /\ edits' = edits + 1
      /\ UNCHANGED <<files, rows, thumbs, run, jobs, touched, moves, upsets>>
  BY DEF EditPolicies
<1>2. RowsInv'
  BY EditsKeepRows DEF ThumbnailInv
<1>3. edits' \in 0..MaxEdits
  BY <1>1, ThumbnailsAssumption DEF ThumbnailInv, TypeOK
<1>4. jobs' = [u \in Sources |-> NoJob] /\ run' = NoRun
  BY <1>1, WhileIdling DEF Idling
<1>. QED BY <1>1, <1>2, <1>3, <1>4, IdleKeeps DEF ThumbnailInv, TypeOK

LEMMA NextKeeps == ThumbnailInv /\ [Next]_vars => ThumbnailInv'
<1>. SUFFICES ASSUME ThumbnailInv, [Next]_vars PROVE ThumbnailInv'
  OBVIOUS
<1>1. CASE UNCHANGED vars
  <2>1. UNCHANGED <<policies, files, rows, thumbs, run, jobs, touched, moves, edits, upsets>>
    BY <1>1 DEF vars
  <2>2. ASSUME NEW u \in Sources PROVE JobOK(u)'
    <3>1. JobOK(u)
      BY DEF ThumbnailInv, JobsInv
    <3>2. ThumbsOf(u)' = ThumbsOf(u)
      BY <2>1 DEF ThumbsOf
    <3>. QED BY <2>1, <3>1, <3>2, JobSame
  <2>3. JobsInv'
    BY <2>1, <2>2 DEF ThumbnailInv, JobsInv
  <2>4. RowsInv' /\ ThumbsInv' /\ RunInv'
    BY <2>1 DEF ThumbnailInv, RowsInv, ThumbsInv, RunInv
  <2>5. TypeOK'
    BY <2>1 DEF ThumbnailInv, TypeOK, ThumbsOf
  <2>. QED BY <2>3, <2>4, <2>5 DEF ThumbnailInv
<1>2. CASE RunSteps
  <2>1. ASSUME NEW s \in Sources,
               Reach(s) \/ Probe(s) \/ Listed(s) \/ DropStale(s) \/ JobEnds(s)
        PROVE  ThumbnailInv'
    BY <2>1, ReachKeeps, ProbeKeeps, ListedKeeps, DropStaleKeeps, JobEndsKeeps
  <2>2. ASSUME NEW s \in Sources, NEW t \in thumbs, Visit(s, t) \/ Claim(s, t)
        PROVE  ThumbnailInv'
    BY <2>2, VisitKeeps, ClaimKeeps
  <2>3. ASSUME NEW s \in Sources, NEW p \in jobs[s].pending, Publish(s, p) \/ GenerationFails(s, p)
        PROVE  ThumbnailInv'
    BY <2>3, PublishKeeps, GenerationFailsKeeps
  <2>. QED BY <1>2, <2>1, <2>2, <2>3, SweepsKeep, RunEndsKeeps DEF RunSteps
<1>. QED BY <1>1, <1>2, UserKeeps, StartKeeps, ScanKeeps, EditKeeps, RunEndsKeeps DEF Next, Starts

(* The invariant of the thumbnail commands.                                *)
THEOREM ThumbnailsInvariant == Spec => []ThumbnailInv
<1>1. Init => ThumbnailInv
  BY InitKeeps
<1>2. ThumbnailInv /\ [Next]_vars => ThumbnailInv'
  BY NextKeeps
<1>. QED BY <1>1, <1>2, PTL DEF Spec

(* Every variable has its type; what a job has still to look at or to drop *)
(* is on disk and belongs to its source.                                   *)
THEOREM TypeCorrect == Spec => []TypeOK
<1>1. ThumbnailInv => TypeOK
  BY DEF ThumbnailInv
<1>. QED BY <1>1, ThumbnailsInvariant, PTL

(* No chain of creates and edits makes a row the schema's CHECK refuses    *)
(* (thumbnail-policies-repository.ts:345).                                 *)
THEOREM RowsFitSchemaHolds == Spec => []RowsFitSchema
<1>1. ThumbnailInv => RowsFitSchema
  BY RowFits DEF ThumbnailInv, RowsInv, RowsFitSchema
<1>. QED BY <1>1, ThumbnailsInvariant, PTL

(* A preview whose name is the one a policy expects was made with that     *)
(* policy's recipe (thumbnail.ts, expectedParamsSegment).                  *)
THEOREM NameTellsRecipeHolds == Spec => []NameTellsRecipe
<1>1. ASSUME ThumbnailInv, NEW t \in thumbs, NEW p \in policies,
             p.action = "generate", t.seg = Segment(p)
      PROVE  t.made = Recipe(p)
  <2>1. PICK r : Recipes(r) /\ t.seg = Segment(r) /\ t.made = Recipe(r)
    BY <1>1 DEF ThumbnailInv, ThumbsInv
  <2>2. Recipes(p)
    BY <1>1 DEF ThumbnailInv, RowsInv, Recipes
  <2>. QED BY <1>1, <2>1, <2>2, SegmentTellsRecipe
<1>2. ThumbnailInv => NameTellsRecipe
  BY <1>1 DEF NameTellsRecipe
<1>. QED BY <1>2, ThumbnailsInvariant, PTL

(***************************************************************************)
(* What a run may delete.                                                  *)
(***************************************************************************)

(* The steps that remove a preview, and what they know of it.              *)
LEMMA WhoRemoves ==
  ASSUME ThumbnailInv, [Next]_vars, NEW t \in thumbs, t \notin thumbs'
  PROVE  \/ /\ t.src \in Sources /\ Visit(t.src, t) /\ thumbs \ {t} \subseteq thumbs'
            /\ ~ (jobs[t.src].pc = "keepOne" /\ ~jobs[t.src].kept /\ t.hash = rows[t.src])
         \/ /\ t.src \in Sources /\ jobs[t.src].pc = "reconcile"
            /\ \/ t \in jobs[t.src].stale
               \/ ~ (t.hash = rows[t.src] /\ \E p \in jobs[t.src].pending :
                                                p.name = t.name /\ t.seg = Segment(p))
         \/ t.src \in Sources /\ jobs[t.src].pc = "generate" /\ t \in jobs[t.src].drop
         \/ Orphan(t)
<1>1. thumbs' # thumbs
  OBVIOUS
<1>2. ASSUME NEW s \in Sources,
             Reach(s) \/ Probe(s) \/ Listed(s) \/ JobEnds(s)
             \/ \E p \in jobs[s].pending : Publish(s, p) \/ GenerationFails(s, p)
      PROVE  FALSE
  <2>1. thumbs \subseteq thumbs'
    BY <1>2 DEF Reach, Probe, Listed, JobEnds, Publish, GenerationFails
  <2>. QED BY <2>1
<1>3. ASSUME NEW s \in Sources, DropStale(s)
      PROVE  t.src \in Sources /\ jobs[t.src].pc = "generate" /\ t \in jobs[t.src].drop
  <2>1. t \in jobs[s].drop
    BY <1>3 DEF DropStale
  <2>2. jobs[s].pc = "generate" /\ t.src = s
    BY <2>1, JobShape DEF JobHolds, ThumbsOf
  <2>. QED BY <2>1, <2>2
<1>4. ASSUME NEW s \in Sources, NEW u \in thumbs, Visit(s, u)
      PROVE  /\ t.src \in Sources /\ Visit(t.src, t) /\ thumbs \ {t} \subseteq thumbs'
             /\ ~ (jobs[t.src].pc = "keepOne" /\ ~jobs[t.src].kept /\ t.hash = rows[t.src])
  <2>1. u \in jobs[s].todo
    BY <1>4 DEF Visit
  <2>2. u.src = s
    <3>1. JobHolds(s)
      BY JobShape
    <3>2. u \in ThumbsOf(s)
      BY <2>1, <3>1 DEF JobHolds
    <3>. QED BY <3>2 DEF ThumbsOf
  <2>3. PICK dropped :
          /\ thumbs' = Removed(dropped) /\ dropped \subseteq {u}
          /\ jobs[s].pc = "keepOne" /\ ~jobs[s].kept /\ u.hash = rows[s] => dropped = {}
    BY <1>4 DEF Visit
  <2>4. t \in dropped /\ thumbs \ dropped \subseteq thumbs'
    BY <2>3 DEF Removed
  <2>5. t = u /\ ~ (jobs[s].pc = "keepOne" /\ ~jobs[s].kept /\ u.hash = rows[s])
    BY <2>3, <2>4
  <2>. QED BY <1>4, <2>2, <2>3, <2>4, <2>5
<1>5. ASSUME NEW s \in Sources, NEW u \in thumbs, Claim(s, u)
      PROVE  /\ t.src \in Sources /\ jobs[t.src].pc = "reconcile"
             /\ \/ t \in jobs[t.src].stale
                \/ ~ (t.hash = rows[t.src] /\ \E p \in jobs[t.src].pending :
                                                 p.name = t.name /\ t.seg = Segment(p))
  <2>1. jobs[s].pc = "reconcile" /\ u \in jobs[s].todo
    BY <1>5 DEF Claim
  <2>2. u.src = s /\ \A v \in jobs[s].stale : v.src = s
    <3>1. JobHolds(s)
      BY JobShape
    <3>2. u \in ThumbsOf(s) /\ \A v \in jobs[s].stale : v.src = s
      BY <2>1, <3>1 DEF JobHolds
    <3>. QED BY <3>2 DEF ThumbsOf
  <2>3. \/ thumbs' = Removed({v \in jobs[s].stale : v.name = u.name})
        \/ thumbs' = thumbs
        \/ /\ thumbs' = Removed({u})
           /\ ~ (u.hash = rows[s] /\ \E p \in {q \in jobs[s].pending : q.name = u.name} :
                                        u.seg = Segment(p))
    BY <1>5 DEF Claim
  <2>4. CASE thumbs' = Removed({v \in jobs[s].stale : v.name = u.name})
    <3>1. t \in jobs[s].stale
      BY <2>4 DEF Removed
    <3>. QED BY <2>1, <2>2, <3>1
  <2>5. CASE /\ thumbs' = Removed({u})
             /\ ~ (u.hash = rows[s] /\ \E p \in {q \in jobs[s].pending : q.name = u.name} :
                                          u.seg = Segment(p))
    <3>1. t = u
      BY <2>5 DEF Removed
    <3>. QED BY <2>1, <2>2, <2>5, <3>1
  <2>. QED BY <1>1, <2>3, <2>4, <2>5
<1>6. ASSUME NEW u \in run.todo, Sweep(u) PROVE Orphan(t)
  BY <1>1, <1>6 DEF Sweep, Removed
<1>7. CASE UNCHANGED vars
  BY <1>1, <1>7 DEF vars
<1>8. CASE StartSweep \/ Finish \/ Kill
  BY <1>1, <1>8 DEF StartSweep, Finish, Kill
<1>9. CASE UserSteps \/ Scan \/ EditPolicies
  BY <1>1, <1>9 DEF UserSteps, Write, Remove, Stubify, Materialize, Scan, EditPolicies
<1>10. CASE Starts
  BY <1>1, <1>10 DEF Starts, Start
<1>. QED
  BY <1>2, <1>3, <1>4, <1>5, <1>6, <1>7, <1>8, <1>9, <1>10 DEF Next, RunSteps

(* A preview that goes while the user leaves its source alone.             *)
LEMMA RemovedIsUnwanted ==
  ASSUME ThumbnailInv, [Next]_vars, NEW t \in thumbs, t \notin thumbs',
         t.src \in run.scope, t.src \notin touched
  PROVE  /\ t \notin Expected(t.src)
         /\ ~ (/\ files[t.src].form = "real" /\ MimeOf[files[t.src].hash] = Null
               /\ Globbed(t.src) # {} /\ ~ Skipped(t.src))
<1>1. CASE t.src \in Sources /\ Visit(t.src, t)
  <2>1. jobs[t.src].pc \in {"discard", "keepOne", "staleStub"} /\ JobFound(t.src)
    BY <1>1, JobShape DEF Visit
  <2>2. CASE jobs[t.src].pc = "discard"
    BY <2>1, <2>2 DEF JobFound, Unreadable
  <2>3. CASE jobs[t.src].pc # "discard"
    <3>1. files[t.src].form = "stub"
      BY <2>1, <2>3 DEF JobFound
    <3>. QED BY <3>1 DEF Expected
  <2>. QED BY <2>2, <2>3
<1>2. CASE /\ t.src \in Sources /\ jobs[t.src].pc = "reconcile"
           /\ \/ t \in jobs[t.src].stale
              \/ ~ (t.hash = rows[t.src] /\ \E p \in jobs[t.src].pending :
                                               p.name = t.name /\ t.seg = Segment(p))
  <2>1. /\ files[t.src].form = "real" /\ ~Unreadable(t.src)
        /\ jobs[t.src].stale \cap Expected(t.src) = {}
        /\ jobs[t.src].pending = Resolved(t.src, MimeOf[files[t.src].hash])
    BY <1>2, JobShape DEF JobFound
  <2>2. t \notin Expected(t.src)
    BY <1>2, <2>1, OutdatedIsUnwanted
  <2>. QED BY <2>1, <2>2 DEF Unreadable
<1>3. CASE t.src \in Sources /\ jobs[t.src].pc = "generate" /\ t \in jobs[t.src].drop
  <2>1. /\ files[t.src].form = "real" /\ ~Unreadable(t.src)
        /\ jobs[t.src].drop \cap Expected(t.src) = {}
    BY <1>3, JobShape DEF JobFound
  <2>. QED BY <1>3, <2>1 DEF Unreadable
<1>4. CASE Orphan(t)
  <2>1. files[t.src].form = "none" \/ Globbed(t.src) = {}
    BY <1>4 DEF Orphan
  <2>2. CASE files[t.src].form = "none"
    BY <2>2 DEF Expected
  <2>3. CASE Globbed(t.src) = {}
    <3>1. \A mime : Resolved(t.src, mime) = {}
      BY <2>3 DEF Resolved, GenerateGlobbed
    <3>2. Expected(t.src) = {}
      BY <3>1 DEF Expected
    <3>. QED BY <2>3, <3>2
  <2>. QED BY <2>1, <2>2, <2>3
<1>. QED BY <1>1, <1>2, <1>3, <1>4, WhoRemoves

(* Of a source in its scope no run deletes a preview that ensure would     *)
(* make again, nor, if the source cannot be read any more, any preview at  *)
(* all, unless the user changed that source under it.                      *)
THEOREM SparesWhatIsWantedHolds == Spec => SparesWhatIsWanted
<1>1. ThumbnailInv /\ [Next]_vars =>
        \A t \in thumbs \ thumbs' :
          t.src \in run.scope \ touched =>
            /\ t \notin Expected(t.src)
            /\ ~ (/\ files[t.src].form = "real" /\ MimeOf[files[t.src].hash] = Null
                  /\ Globbed(t.src) # {} /\ ~ Skipped(t.src))
  BY RemovedIsUnwanted
<1>. QED BY <1>1, ThumbnailsInvariant, PTL DEF Spec, SparesWhatIsWanted

LEMMA StubStaysCovered ==
  ASSUME ThumbnailInv, [Next]_vars, NEW s \in run.scope, s \notin touched,
         files[s].form = "stub", Globbed(s) # {}, \E t \in ThumbsOf(s) : t.hash = rows[s]
  PROVE  \E t \in thumbs' : t.src = s /\ t.hash = rows[s]
<1>1. PICK t \in ThumbsOf(s) : t.hash = rows[s]
  OBVIOUS
<1>2. t \in thumbs /\ t.src = s
  BY DEF ThumbsOf
<1>3. SUFFICES ASSUME t \notin thumbs' PROVE \E u \in thumbs' : u.src = s /\ u.hash = rows[s]
  BY <1>1, <1>2
<1>4. CASE /\ s \in Sources /\ Visit(s, t) /\ thumbs \ {t} \subseteq thumbs'
           /\ ~ (jobs[s].pc = "keepOne" /\ ~jobs[s].kept /\ t.hash = rows[s])
  <2>1. /\ jobs[s].pc \in {"discard", "keepOne", "staleStub"} /\ t \in jobs[s].todo
        /\ JobFound(s) /\ JobKnows(s)
    BY <1>4, JobShape DEF Visit
  <2>2. jobs[s].pc = "keepOne"
    BY <1>1, <2>1 DEF JobFound, JobKnows
  <2>3. PICK u \in ThumbsOf(s) : u.hash = rows[s] /\ (u \in jobs[s].todo <=> ~jobs[s].kept)
    BY <2>1, <2>2 DEF JobKnows
  <2>4. u # t
    BY <1>1, <1>4, <2>1, <2>2, <2>3
  <2>. QED BY <1>4, <2>3, <2>4 DEF ThumbsOf
<1>5. CASE s \in Sources /\ jobs[s].pc \in {"reconcile", "generate"}
  BY <1>5, JobShape DEF JobFound
<1>6. CASE Orphan(t)
  BY <1>2, <1>6 DEF Orphan
<1>. QED BY <1>2, <1>3, <1>4, <1>5, <1>6, WhoRemoves

(* As long as a policy covers a stub, a run leaves it a preview of its     *)
(* content if it had one, unless the user changed it under the run.        *)
THEOREM StubKeepsAPreviewHolds == Spec => StubKeepsAPreview
<1>1. ThumbnailInv /\ [Next]_vars =>
        \A s \in run.scope \ touched :
          (/\ files[s].form = "stub" /\ Globbed(s) # {}
           /\ \E t \in ThumbsOf(s) : t.hash = rows[s])
             => \E t \in thumbs' : t.src = s /\ t.hash = rows[s]
  BY StubStaysCovered
<1>. QED BY <1>1, ThumbnailsInvariant, PTL DEF Spec, StubKeepsAPreview
=============================================================================
