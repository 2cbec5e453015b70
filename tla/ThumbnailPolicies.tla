--------------------------- MODULE ThumbnailPolicies ---------------------------
(***************************************************************************)
(* The thumbnail_policies table of state.db and the three commands that    *)
(* change it: the flags the command line accepts, how an edit is merged    *)
(* onto the old row, what the repository validates, and the file-name      *)
(* segment a generate policy gives its previews.                           *)
(*                                                                         *)
(* A row is a function on Columns (so row.glob and row["glob"] both read); *)
(* a set of flags or an edit is a function on some of them.  A glob is the *)
(* set of sources it matches; mime types are <<type, subtype>>.  The       *)
(* commands commit through mutateStateDb, which Vault and Mirror model:    *)
(* here a commit is one step.  Value ranges, name and mime syntax are left *)
(* out, and so is the table's CHECK: SchemaAccepts states it, and RowsFit- *)
(* Schema shows that what the code validates needs nothing from it.        *)
(***************************************************************************)
EXTENDS Naturals, Sequences, FiniteSets

CONSTANTS Creates,   \* the flags `create` may be called with
          Edits,     \* the flags `edit` may be called with
          Null       \* SQL NULL, an absent property

VARIABLE policies    \* the rows, names UNIQUE

FieldNames == {"imageWidth", "imageHeight", "shorterSide", "tileRowCount",
               "tileColumnCount", "frameCount", "frameDelayMs", "jpegQuality",
               "pngCompressionLevel", "webpQuality", "webpLossless",
               "gifMaxColors", "gifDither"}

Discriminants == {"mediaType", "resizingStrategy", "outputType", "outputMime"}

Columns == {"name", "glob", "action", "mimeTypes"} \cup Discriminants \cup FieldNames

OutputMimes == {"image/jpeg", "image/png", "image/webp", "image/gif"}

\* What the command line takes for a flag (parseAction to parseOutputMime);
\* one that is not given is not there, and none is null.
FlagValues == [action |-> {"skip", "generate"}, mediaType |-> {"image", "video"},
               resizingStrategy |-> {"fit_to_box", "resize_shorter_side"},
               outputType |-> {"mosaic", "preview"}, outputMime |-> OutputMimes]

Parsed(flags) ==
    /\ DOMAIN flags \subseteq Columns
    /\ \A c \in DOMAIN flags :
           flags[c] # Null /\ (c \in DOMAIN FlagValues => flags[c] \in FlagValues[c])

ASSUME FlagsAssumption == /\ \A flags \in Creates : Parsed(flags)
                          /\ \A flags \in Creates : {"name", "glob", "action"} \subseteq DOMAIN flags
                          /\ \A flags \in Edits : Parsed(flags)

\* The sizing axis: `${mediaType}:${resizingStrategy or outputType}`.
SizingKeys == {<<"image", "fit_to_box">>, <<"image", "resize_shorter_side">>,
               <<"video", "mosaic">>, <<"video", "preview">>}

\* NULL is none of the values the code compares a column with.
ASSUME NullAssumption == Null \notin SizingKeys /\ \A c \in DOMAIN FlagValues : Null \notin FlagValues[c]

SizingFields ==
    [k \in SizingKeys |->
        CASE k[2] = "fit_to_box" -> {"imageWidth", "imageHeight"}
          [] k[2] = "resize_shorter_side" -> {"shorterSide"}
          [] k[2] = "mosaic" -> {"shorterSide", "tileRowCount", "tileColumnCount"}
          [] k[2] = "preview" -> {"shorterSide", "frameCount", "frameDelayMs"}]

EncodingFields ==
    [m \in OutputMimes |->
        CASE m = "image/jpeg" -> {"jpegQuality"}
          [] m = "image/png" -> {"pngCompressionLevel"}
          [] m = "image/webp" -> {"webpQuality", "webpLossless"}
          [] m = "image/gif" -> {"gifMaxColors", "gifDither"}]

LegalOutputMimes ==
    [k \in SizingKeys |-> CASE k[2] = "mosaic" -> OutputMimes \ {"image/gif"}
                            [] k[2] = "preview" -> {"image/gif", "image/webp"}
                            [] OTHER -> OutputMimes]

\* sizingKeyFor: undefined until the media type and its discriminant are known.
SizingKey(row) ==
    IF row.mediaType = "image" /\ row.resizingStrategy # Null
        THEN <<"image", row.resizingStrategy>>
    ELSE IF row.mediaType = "video" /\ row.outputType # Null
        THEN <<"video", row.outputType>>
    ELSE Null

\* The fields of the row's branch and encoding, and no other's.
OwnFields(row) ==
    (IF SizingKey(row) = Null THEN {} ELSE SizingFields[SizingKey(row)]) \cup
    (IF row.outputMime = Null THEN {} ELSE EncodingFields[row.outputMime])

(* Validation, the same for create and edit ******************************)

\* Mutant: the rule that joins the two axes is left to the schema.
ActionConsistentNoAxes(row) ==
    IF row.action = "skip"
        THEN \A c \in {"mimeTypes", "mediaType", "outputMime"} \cup FieldNames : row[c] = Null
        ELSE /\ row.mimeTypes # Null
             /\ row.mediaType # Null
             /\ row.mediaType = "image" => row.resizingStrategy # Null
             /\ row.mediaType = "video" => row.outputType # Null
             /\ row.outputMime # Null
             /\ \A f \in FieldNames : row[f] # Null <=> f \in OwnFields(row)

\* validateActionConsistency
ActionConsistent(row) ==
    IF row.action = "skip"
        THEN \A c \in {"mimeTypes", "mediaType", "outputMime"} \cup FieldNames : row[c] = Null
        ELSE /\ row.mimeTypes # Null
             /\ row.mediaType # Null
             /\ row.mediaType = "image" => row.resizingStrategy # Null
             /\ row.mediaType = "video" => row.outputType # Null
             /\ row.outputMime # Null
             /\ row.outputMime \in LegalOutputMimes[SizingKey(row)]
             /\ \A f \in FieldNames : row[f] # Null <=> f \in OwnFields(row)

\* validateMimeTypes and validateMediaTypeMimeConsistency, generate rows only.
MimeTypesValid(row) ==
    row.action = "generate" =>
        row.mimeTypes # {} /\ \A m \in row.mimeTypes : m[1] = row.mediaType

Valid(row) == ActionConsistent(row) /\ MimeTypesValid(row)

\* What a stored row reads back as (fromRawRow, then toFlatFields): the
\* columns of its own branch, every other one null.
ReadBack(row) ==
    [c \in Columns |->
        IF c \in {"name", "glob", "action"} THEN row[c]
        ELSE IF row.action = "skip" THEN Null
        ELSE IF c \in FieldNames \ OwnFields(row) THEN Null
        ELSE row[c]]

(* create ****************************************************************)

REQUIRED_ENCODING_FIELDS(mime) == IF mime = "image/jpeg" THEN {"jpegQuality"} ELSE {}

\* assertGenerateFlagsConsistentForCreate
CreateFlagsAccepted(flags) ==
    LET row == [c \in Columns |-> IF c \in DOMAIN flags THEN flags[c] ELSE Null]
        given == DOMAIN flags \cap FieldNames IN
    IF flags.action = "skip"
        THEN DOMAIN flags \subseteq {"name", "glob", "action"}
        ELSE /\ {"mimeTypes", "mediaType", "outputMime"} \subseteq DOMAIN flags
             /\ flags.mediaType = "image" => row.outputType = Null
             /\ flags.mediaType = "video" => row.resizingStrategy = Null
             /\ SizingKey(row) # Null
             /\ given \subseteq OwnFields(row)
             /\ SizingFields[SizingKey(row)] \cup REQUIRED_ENCODING_FIELDS(row.outputMime)
                    \subseteq given

\* buildCreateInput: the encoding flags that were left out get their defaults
\* (ENCODING_DEFAULTS), and flatFromCreateInput nulls what is not given.
Built(flags, defaults) ==
    LET encoding == IF "outputMime" \in DOMAIN flags THEN EncodingFields[flags.outputMime]
                    ELSE {} IN
    [c \in Columns |-> IF c \in DOMAIN flags THEN flags[c]
                       ELSE IF c \in encoding THEN defaults[c]
                       ELSE Null]

(* edit ******************************************************************)

BRANCH_ONLY_FIELDS == {{"imageWidth", "imageHeight"}, {"tileRowCount", "tileColumnCount"},
                       {"frameCount", "frameDelayMs"}}

\* assertNoMixedBranchFlagsForEdit
EditFlagsAccepted(flags) ==
    /\ ~ {"resizingStrategy", "outputType"} \subseteq DOMAIN flags
    /\ Cardinality({b \in BRANCH_ONLY_FIELDS : b \cap DOMAIN flags # {}}) =< 1

\* update's merge: a discriminant stays while the branch above it does, and a
\* field carries over only if the new branch or encoding has it too.
Merged(old, flags) ==
    LET Or(c, default) == IF c \in DOMAIN flags THEN flags[c] ELSE default
        Under(c, holds, parent) == IF holds THEN Or(c, IF parent THEN old[c] ELSE Null) ELSE Null
        action == Or("action", old.action)
        wasGenerate == old.action = "generate"
        media == Under("mediaType", action = "generate", wasGenerate)
        head == [c \in Columns |->
            CASE c \in {"name", "glob"} -> Or(c, old[c])
              [] c = "action" -> action
              [] c = "mediaType" -> media
              [] c \in {"mimeTypes", "outputMime"} -> Under(c, action = "generate", wasGenerate)
              [] c = "resizingStrategy" -> Under(c, media = "image", old.mediaType = "image")
              [] c = "outputType" -> Under(c, media = "video", old.mediaType = "video")
              [] OTHER -> Null] IN
    [c \in Columns |-> IF c \notin FieldNames THEN head[c]
                       ELSE Or(c, IF c \in OwnFields(head) THEN old[c] ELSE Null)]

(* The commands **********************************************************)

\* runCreate; the INSERT fails on a name that is taken.
RunCreate(flags, defaults) ==
    LET row == Built(flags, defaults) IN
    /\ CreateFlagsAccepted(flags) /\ Valid(row)
    /\ \A p \in policies : p.name # row.name
    /\ policies' = policies \cup {row}

\* runEdit, on the row it read back.
RunEdit(old, flags) ==
    LET row == Merged(ReadBack(old), flags) IN
    /\ EditFlagsAccepted(flags) /\ Valid(row)
    /\ \A p \in policies \ {old} : p.name # row.name
    /\ policies' = (policies \ {old}) \cup {row}

RunDelete(old) == policies' = policies \ {old}

(* The previews of a policy **********************************************)

\* Sequence of <<token, value>> of the fields that are named.
Tokens(row, named) == [i \in DOMAIN named |-> <<named[i][1], row[named[i][2]]>>]

SizingTokens(row) ==
    Tokens(row,
        IF row.mediaType = "image"
            THEN IF row.resizingStrategy = "fit_to_box"
                     THEN <<<<"iw", "imageWidth">>, <<"ih", "imageHeight">>>>
                     ELSE <<<<"ss", "shorterSide">>>>
            ELSE IF row.outputType = "mosaic"
                     THEN <<<<"ss", "shorterSide">>, <<"tr", "tileRowCount">>,
                            <<"tc", "tileColumnCount">>>>
                     ELSE <<<<"ss", "shorterSide">>, <<"fc", "frameCount">>,
                            <<"fd", "frameDelayMs">>>>)

EncodingTokens(row) ==
    Tokens(row, <<<<"fmt", "outputMime">>>> \o
        CASE row.outputMime = "image/jpeg" -> <<<<"q", "jpegQuality">>>>
          [] row.outputMime = "image/png" -> <<<<"pl", "pngCompressionLevel">>>>
          [] row.outputMime = "image/webp" -> <<<<"wq", "webpQuality">>, <<"wl", "webpLossless">>>>
          [] row.outputMime = "image/gif" -> <<<<"mc", "gifMaxColors">>, <<"dt", "gifDither">>>>)

\* Mutant: the encoding's own fields are not in the name.
SegmentNoEncoding(row) == <<row.name, SizingTokens(row), <<<<"fmt", row.outputMime>>>>>>
\* expectedParamsSegment, after the version token.  normalizeParamsValue is
\* one-to-one on the output mimes and dithers there are.
Segment(row) == <<row.name, SizingTokens(row), EncodingTokens(row)>>

\* What generateForDecision hands to the generator: the branch it calls and
\* every field it passes.
Recipe(row) == [branch |-> SizingKey(row), mime |-> row.outputMime,
                fields |-> [f \in OwnFields(row) |-> row[f]]]

(* The schema ************************************************************)

\* The CHECKs of migration 0012, column by column: which columns are NULL.
SchemaAccepts(row) ==
    LET NotNull == {c \in Columns : row[c] # Null}
        sizing == {"mediaType", "resizingStrategy", "outputType", "imageWidth", "imageHeight",
                   "shorterSide", "tileRowCount", "tileColumnCount", "frameCount", "frameDelayMs"}
        encoding == {"outputMime", "jpegQuality", "pngCompressionLevel", "webpQuality",
                     "webpLossless", "gifMaxColors", "gifDither"}
        Sizing(columns) == NotNull \cap sizing = columns
        Encoding(columns) == NotNull \cap encoding = columns IN
    /\ (row.action = "skip") <=> (row.mimeTypes = Null)
    /\ \/ row.action = "skip" /\ Sizing({})
       \/ /\ row.mediaType = "image" /\ row.resizingStrategy = "fit_to_box"
          /\ Sizing({"mediaType", "resizingStrategy", "imageWidth", "imageHeight"})
       \/ /\ row.mediaType = "image" /\ row.resizingStrategy = "resize_shorter_side"
          /\ Sizing({"mediaType", "resizingStrategy", "shorterSide"})
       \/ /\ row.mediaType = "video" /\ row.outputType = "mosaic"
          /\ Sizing({"mediaType", "outputType", "shorterSide", "tileRowCount", "tileColumnCount"})
       \/ /\ row.mediaType = "video" /\ row.outputType = "preview"
          /\ Sizing({"mediaType", "outputType", "shorterSide", "frameCount", "frameDelayMs"})
    /\ \/ row.action = "skip" /\ Encoding({})
       \/ row.outputMime = "image/jpeg" /\ Encoding({"outputMime", "jpegQuality"})
       \/ row.outputMime = "image/png" /\ Encoding({"outputMime", "pngCompressionLevel"})
       \/ row.outputMime = "image/webp" /\ Encoding({"outputMime", "webpQuality", "webpLossless"})
       \/ row.outputMime = "image/gif" /\ Encoding({"outputMime", "gifMaxColors", "gifDither"})
    /\ \/ row.action = "skip" \/ row.mediaType = "image"
       \/ row.outputType = "mosaic" /\ row.outputMime \in OutputMimes \ {"image/gif"}
       \/ row.outputType = "preview" /\ row.outputMime \in {"image/gif", "image/webp"}

\* Whatever chain of creates, branch switches and merges led to a row, the
\* table's CHECK would take it: an edit never passes the validation only to
\* fail as a raw constraint error after the state database was downloaded,
\* and no field of an earlier branch survives in a row.
RowsFitSchema == \A p \in policies : SchemaAccepts(p)
=============================================================================
