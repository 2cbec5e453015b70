----------------------------- MODULE MCThumbnails -----------------------------
(* Instances of Thumbnails for TLC: one picture file, which can turn into a *)
(* video or into something no tool can read.                                *)
EXTENDS Thumbnails, TLC
CONSTANTS a, jpg, mp4, bad

MCMimeOf == jpg :> <<"image", "jpeg">> @@ mp4 :> <<"video", "mp4">> @@ bad :> Null

MCTooLong == a :> {"long"}

MCDefaults == [pngCompressionLevel |-> 9, webpQuality |-> 80, webpLossless |-> 0,
               gifMaxColors |-> 256, gifDither |-> 1]

Everything == [glob |-> {a}]
Generate == [action |-> "generate"] @@ Everything

\* The policy there is at first.
ImagePolicy ==
    [name |-> "p", mimeTypes |-> {<<"image", "*">>}, mediaType |-> "image",
     resizingStrategy |-> "resize_shorter_side", shorterSide |-> 90,
     outputMime |-> "image/jpeg", jpegQuality |-> 80] @@ Generate

MCCreated == {ImagePolicy}

MCCreates == {
    ImagePolicy,
    \* a video policy whose webp encoding is left to the defaults
    [name |-> "q", mimeTypes |-> {<<"video", "mp4">>}, mediaType |-> "video",
     outputType |-> "preview", shorterSide |-> 90, frameCount |-> 4, frameDelayMs |-> 20,
     outputMime |-> "image/webp"] @@ Generate,
    [name |-> "s", action |-> "skip"] @@ Everything,
    \* refused: a mosaic cannot be a gif
    [name |-> "q", mimeTypes |-> {<<"video", "*">>}, mediaType |-> "video",
     outputType |-> "mosaic", shorterSide |-> 90, tileRowCount |-> 2, tileColumnCount |-> 2,
     outputMime |-> "image/gif"] @@ Generate }

MCEdits == {
    [jpegQuality |-> 60],
    [name |-> "long"],
    [action |-> "skip"],
    [mediaType |-> "video", mimeTypes |-> {<<"video", "*">>}, outputType |-> "mosaic",
     tileRowCount |-> 2, tileColumnCount |-> 2],
    [outputType |-> "mosaic", tileRowCount |-> 2, tileColumnCount |-> 2],
    [outputType |-> "preview", frameCount |-> 4, frameDelayMs |-> 20] }
=============================================================================
