---------------------------- MODULE MCMediaUpload ----------------------------
(***************************************************************************)
(* Instances of MediaUpload for TLC.  The limits keep the proportion of    *)
(* one chunk for an image and three for a GIF; a video has five.           *)
(***************************************************************************)
EXTENDS MediaUpload

MCLimit(image, gif, video) ==
    [tweet_image |-> image, tweet_gif |-> gif, tweet_video |-> video]
MCLimits == MCLimit(CHUNK, 3 * CHUNK, 5 * CHUNK - 1)
MCFileSizes == 0..(5 * CHUNK + 1)
=============================================================================
