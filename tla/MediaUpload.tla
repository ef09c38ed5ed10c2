----------------------------- MODULE MediaUpload -----------------------------
(***************************************************************************)
(* POST /twitter/media/upload: TwitterMediaService.upload_media and the    *)
(* chunked upload of TwitterAPIClient (INIT, APPEND, FINALIZE, STATUS), up *)
(* to the HTTP answer.  An action is the code from one await to the next.  *)
(*                                                                         *)
(* Uploads share nothing, so the module follows one file.  Lengths are in  *)
(* any unit; what Twitter received is what its side counts, whatever the   *)
(* code believes it sent.                                                  *)
(***************************************************************************)
EXTENDS Errors

CONSTANTS
    CHUNK,      \* chunk_size
    LIMIT,      \* media category -> the largest file
    MAX_POLLS,  \* max_polls
    FileSize    \* lengths of the files users choose

ASSUME UploadAssumption ==
    /\ CHUNK \in Nat \ {0}
    /\ LIMIT \in [{"tweet_image", "tweet_gif", "tweet_video"} -> Nat]
    /\ MAX_POLLS \in Nat \ {0}
    /\ FileSize \subseteq Nat

VARIABLES
    file,       \* the file: its content type and length
    pc,         \* the await the request is at, or "answered"
    offset,     \* where the next chunk begins
    segments,   \* chunks appended: the next segment_index
    polls,      \* STATUS requests made
    answer,     \* the HTTP status of the answer, or NoAnswer
    received,   \* at Twitter: length of what was appended
    media,      \* at Twitter: "none", "open", "processing", "ready", "failed"
    expired     \* the access token of the client has expired

locals  == <<offset, segments, polls>>
twitter == <<received, media>>
vars    == <<file, pc, locals, answer, twitter, expired>>

NoAnswer == 0

Image == {"image/jpeg", "image/png", "image/webp"}
Gif   == {"image/gif"}
Video == {"video/mp4"}

ContentType == Image \cup Gif \cup Video \cup {"application/octet-stream"}

-----------------------------------------------------------------------------
Init ==
    /\ file \in [type : ContentType, size : FileSize]
    /\ pc = "validate"
    /\ offset = 0
    /\ segments = 0
    /\ polls = 0
    /\ answer = NoAnswer
    /\ received = 0
    /\ media = "none"
    /\ expired = FALSE

Answer(status) == pc' = "answered" /\ answer' = status

Raise(error) == Answer(HttpAnswer(error))

Goto(next) == pc' = next /\ UNCHANGED answer

(* The category of a content type, for those _classify knows.              *)
Category ==
    [type \in Image \cup Gif \cup Video |->
        CASE type \in Image -> "tweet_image"
          [] type \in Gif   -> "tweet_gif"
          [] type \in Video -> "tweet_video"]

Acceptable ==
    /\ file.type \in DOMAIN Category
    /\ file.size <= LIMIT[Category[file.type]]
    /\ file.size # 0

(* upload_media up to its first request: what refuses a file.              *)
Validate ==
    /\ pc = "validate"
    /\ IF Acceptable THEN Goto("init") ELSE Raise("TwitterValidationError")
    /\ UNCHANGED <<file, locals, twitter, expired>>

(* How one request can end: 2xx with the body the code reads, 2xx without  *)
(* it, 400 and above, or an httpx exception.  Twitter has done what it     *)
(* answers with 2xx, and may have done what was cut if the token was good. *)
Response == IF expired THEN {"refused", "cut"} ELSE {"ok", "garbled", "refused", "cut"}

Done(response) ==
    CASE response \in {"ok", "garbled"} -> {TRUE}
      [] response = "refused"           -> {FALSE}
      [] response = "cut"               -> {FALSE, ~ expired}

(* INIT.  An answer without media_id_string raises inside the try block.   *)
InitUpload ==
    /\ pc = "init"
    /\ \E response \in Response : \E done \in Done(response) :
         /\ media' = IF done THEN "open" ELSE media
         /\ IF response = "ok" THEN Goto("append") ELSE Raise("MediaUploadError")
    /\ UNCHANGED <<file, locals, received, expired>>

Min2(m, n) == IF m <= n THEN m ELSE n

(* Faulty: range(0, len(file_bytes) + 1, chunk_size).                      *)
MoreChunksInclusive(next) == next <= file.size

(* Whether range(0, len(file_bytes), chunk_size) goes on to next.          *)
MoreChunks(next) == next < file.size

(* APPEND of one chunk, whose body nobody reads.                           *)
AppendChunk ==
    /\ pc = "append"
    /\ \E response \in Response : \E done \in Done(response) :
         /\ received' = IF done THEN received + Min2(CHUNK, file.size - offset)
                                ELSE received
         /\ IF response \in {"ok", "garbled"}
            THEN /\ offset' = offset + CHUNK
                 /\ segments' = segments + 1
                 /\ Goto(IF MoreChunks(offset') THEN "append" ELSE "finalize")
            ELSE Raise("MediaUploadError") /\ UNCHANGED <<offset, segments>>
    /\ UNCHANGED <<file, polls, media, expired>>

(* Faulty: the upload counts as ready without a look at processing_info.   *)
FinalizedAtOnce(state) == Answer(200)

(* Where a FINALIZE body leads: with processing_info to the STATUS poll.   *)
Finalized(state) == IF state = "processing" THEN Goto("status") ELSE Answer(200)

(* FINALIZE.  media_id_string is read from the body after the try block,   *)
(* processing_info within it.                                              *)
Finalize ==
    /\ pc = "finalize"
    /\ \E response \in Response : \E done \in Done(response) :
         /\ media' \in IF done THEN {"ready", "processing"} ELSE {media}
         /\ CASE response = "ok"      -> Finalized(media')
              [] response = "garbled" -> Raise("KeyError") \/ Raise("MediaUploadError")
              [] OTHER                -> Raise("MediaUploadError")
    /\ UNCHANGED <<file, locals, received, expired>>

(* Faulty: the budget starts over whenever Twitter says it is still busy.  *)
KeepPollingPatiently(response) ==
    LET n == IF response = "ok" THEN 0 ELSE polls + 1 IN
    /\ polls' = n
    /\ IF n >= MAX_POLLS THEN Raise("MediaUploadError") ELSE Goto("status")

(* Faulty: one poll too many.                                              *)
KeepPollingOnceMore(response) ==
    /\ polls' = polls + 1
    /\ IF polls' > MAX_POLLS THEN Raise("MediaUploadError") ELSE Goto("status")

(* No state in the answer: sleep, then the next of max_polls rounds.       *)
KeepPolling(response) ==
    /\ polls' = polls + 1
    /\ IF polls' = MAX_POLLS THEN Raise("MediaUploadError") ELSE Goto("status")

(* STATUS.  The HTTP status is not looked at, so a refused poll counts as  *)
(* "still processing".  A body without what the code reads may be no       *)
(* object, have no state, or say "succeeded" and name no media_id_string,  *)
(* which is read after the try block.                                      *)
PollStatus ==
    /\ pc = "status"
    /\ \E response \in Response :
         \/ /\ response \in {"cut", "garbled"} \/ (response = "ok" /\ media = "failed")
            /\ Raise("MediaUploadError") /\ UNCHANGED polls
         \/ /\ response = "ok" /\ media = "ready"
            /\ Answer(200) /\ UNCHANGED polls
         \/ /\ response = "garbled" /\ media = "ready"
            /\ Raise("KeyError") /\ UNCHANGED polls
         \/ /\ response \in {"refused", "garbled"} \/ (response = "ok" /\ media = "processing")
            /\ KeepPolling(response)
    /\ UNCHANGED <<file, offset, segments, twitter, expired>>

(* Twitter finishes the processing, well or not.                           *)
Process ==
    /\ media = "processing"
    /\ media' \in {"ready", "failed"}
    /\ UNCHANGED <<file, pc, locals, answer, received, expired>>

(* The token was fetched once, before the upload began.                    *)
TokenExpires ==
    /\ ~ expired
    /\ expired' = TRUE
    /\ UNCHANGED <<file, pc, locals, answer, twitter>>

Step ==
    \/ Validate
    \/ InitUpload
    \/ AppendChunk
    \/ Finalize
    \/ PollStatus

Next == Step \/ Process \/ TokenExpires

Spec == Init /\ [][Next]_vars

FairSpec == Spec /\ WF_vars(Step)

-----------------------------------------------------------------------------
TypeOK ==
    /\ file \in [type : ContentType, size : FileSize]
    /\ pc \in {"validate", "init", "append", "finalize", "status", "answered"}
    /\ offset \in Nat /\ segments \in Nat /\ received \in Nat
    /\ polls \in 0..MAX_POLLS
    /\ answer \in {NoAnswer, 200, 422, 500, 502}
    /\ media \in {"none", "open", "processing", "ready", "failed"}
    /\ expired \in BOOLEAN

(* A media_id handed to the client can be attached to a tweet: Twitter has *)
(* every byte of an admissible file and has finished processing it, though *)
(* the code never looks at the status of a poll and the token may expire.  *)
MediaIdIsReady ==
    answer = 200 => media = "ready" /\ received = file.size /\ Acceptable

(* FINALIZE is sent when the file was cut into the least number of chunks: *)
(* all of it, and no empty one at the end of an exact multiple of CHUNK.   *)
ChunksCover ==
    pc \in {"finalize", "status"} =>
        /\ received = file.size
        /\ segments * CHUNK >= file.size
        /\ segments * CHUNK < file.size + CHUNK

(* What the status tells the client: 422 that its file is at fault and     *)
(* nothing was sent; 502 that Twitter was asked and it may try again; 500  *)
(* comes only after FINALIZE, when the file is at Twitter after all.       *)
AnswerTellsStage ==
    /\ answer = 422 => media = "none" /\ ~ Acceptable
    /\ answer = 502 => Acceptable
    /\ answer = 500 => media \in {"ready", "processing", "failed"} /\ received = file.size

(* How far an upload is from its answer at most, by its await: the units   *)
(* still to append, the requests that follow, and the polls left.          *)
Distance ==
    CASE pc = "validate" -> file.size + MAX_POLLS + 3
      [] pc = "init"     -> file.size + MAX_POLLS + 2
      [] pc = "append"   -> (file.size - offset) + MAX_POLLS + 1
      [] pc = "finalize" -> MAX_POLLS + 1
      [] pc = "status"   -> MAX_POLLS - polls
      [] pc = "answered" -> 0

(* Each request brings the upload nearer its answer: neither an answer     *)
(* without a state nor one whose status is 401 makes the poll start over.  *)
EveryStepCounts ==
    [][Distance' \in 0..Distance /\ (Step => Distance' # Distance)]_vars

(* Every upload is answered, whatever Twitter says to its polls.           *)
UploadEnds == <>(pc = "answered")
=============================================================================
