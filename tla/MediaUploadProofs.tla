-------------------------- MODULE MediaUploadProofs --------------------------
(***************************************************************************)
(* Proofs that an upload, for any chunk size, limits, poll budget and      *)
(* file, is well typed, hands out only media that is ready, cuts the file  *)
(* into as few chunks as cover it, answers with a status that tells how    *)
(* far it got, and has a bounded number of requests to go at every await.  *)
(***************************************************************************)
EXTENDS MediaUpload, TLAPS

(* How far the upload is: what has been sent, what Twitter has of it, and  *)
(* that only an admissible file gets past the checks.                      *)
StageInv ==
    /\ pc # "answered" => answer = NoAnswer /\ polls < MAX_POLLS
    /\ pc \notin {"validate", "answered"} => Acceptable
    /\ pc \in {"validate", "init"} =>
          media = "none" /\ offset = 0 /\ segments = 0 /\ received = 0
    /\ pc = "append" =>
          media = "open" /\ offset < file.size /\ received = offset
    /\ pc \in {"append", "finalize", "status"} => offset = segments * CHUNK
    /\ pc = "finalize" => media = "open"
    /\ pc \in {"finalize", "status"} =>
          received = file.size /\ offset >= file.size /\ offset < file.size + CHUNK
    /\ pc = "status" => media \in {"processing", "ready", "failed"}

IInv == TypeOK /\ StageInv /\ MediaIdIsReady /\ AnswerTellsStage

(* The statuses an upload can be answered with.                            *)
LEMMA Statuses ==
    /\ HttpAnswer("TwitterValidationError") = 422
    /\ HttpAnswer("MediaUploadError") = 502
    /\ HttpAnswer("KeyError") = 500
BY DEF HttpAnswer, HttpStatusCode, TwitterBaseError

LEMMA ChunksFromStage == IInv => ChunksCover
BY UploadAssumption DEF IInv, TypeOK, StageInv, ChunksCover

LEMMA InitIInv == Init => IInv
<1> SUFFICES ASSUME Init PROVE IInv
  OBVIOUS
<1>1. TypeOK
  <2>1. polls \in 0..MAX_POLLS
    BY UploadAssumption DEF Init
  <2> QED
    BY <2>1 DEF Init, TypeOK
<1>2. StageInv /\ MediaIdIsReady /\ AnswerTellsStage
  BY UploadAssumption DEF Init, StageInv, MediaIdIsReady, AnswerTellsStage, NoAnswer
<1> QED
  BY <1>1, <1>2 DEF IInv

LEMMA SizeIsNat == TypeOK => file.size \in Nat
BY UploadAssumption DEF TypeOK

LEMMA ValidateStep == ASSUME IInv, Validate PROVE IInv'
<1>1. UNCHANGED <<file, locals, twitter, expired>>
  BY DEF Validate
<1>2. CASE Acceptable
  <2>1. pc' = "init" /\ answer' = answer
    BY <1>2 DEF Validate, Goto
  <2> QED
    BY <1>1, <1>2, <2>1 DEF IInv, TypeOK, StageInv, MediaIdIsReady, AnswerTellsStage,
       Acceptable, Validate, locals, twitter, NoAnswer
<1>3. CASE ~ Acceptable
  <2>1. pc' = "answered" /\ answer' = 422
    BY <1>3, Statuses DEF Validate, Raise, Answer
  <2> QED
    BY <1>1, <1>3, <2>1 DEF IInv, TypeOK, StageInv, MediaIdIsReady, AnswerTellsStage,
       Acceptable, Validate, locals, twitter, NoAnswer
<1> QED
  BY <1>2, <1>3

LEMMA InitUploadStep == ASSUME IInv, InitUpload PROVE IInv'
<1>1. /\ pc = "init" /\ UNCHANGED <<file, locals, received, expired>>
      /\ Acceptable /\ file.size \in Nat \ {0}
  BY SizeIsNat DEF IInv, StageInv, InitUpload, Acceptable
<1>2. PICK response, done :
        /\ response \in Response /\ done \in Done(response)
        /\ media' = IF done THEN "open" ELSE media
        /\ IF response = "ok" THEN Goto("append") ELSE Raise("MediaUploadError")
  BY DEF InitUpload
<1>3. CASE response = "ok"
  <2>1. pc' = "append" /\ answer' = answer /\ media' = "open"
    BY <1>2, <1>3 DEF Goto, Done
  <2> QED
    BY <1>1, <2>1, UploadAssumption DEF IInv, TypeOK, StageInv, MediaIdIsReady,
       AnswerTellsStage, Acceptable, locals, NoAnswer
<1>4. CASE response # "ok"
  <2>1. pc' = "answered" /\ answer' = 502 /\ media' \in {"open", "none"}
    BY <1>1, <1>2, <1>4, Statuses DEF Raise, Answer, IInv, StageInv
  <2> QED
    BY <1>1, <2>1 DEF IInv, TypeOK, StageInv, MediaIdIsReady, AnswerTellsStage,
       Acceptable, locals
<1> QED
  BY <1>3, <1>4

LEMMA AppendChunkStep == ASSUME IInv, AppendChunk PROVE IInv'
<1>1. /\ pc = "append" /\ UNCHANGED <<file, polls, media, expired>>
      /\ Acceptable /\ file.size \in Nat /\ CHUNK \in Nat \ {0}
      /\ offset \in Nat /\ segments \in Nat /\ received = offset
      /\ offset < file.size /\ offset = segments * CHUNK /\ media = "open"
  BY SizeIsNat, UploadAssumption DEF IInv, StageInv, TypeOK, AppendChunk
<1>2. PICK response, done :
        /\ response \in Response /\ done \in Done(response)
        /\ received' = IF done THEN received + Min2(CHUNK, file.size - offset)
                               ELSE received
        /\ IF response \in {"ok", "garbled"}
           THEN /\ offset' = offset + CHUNK
                /\ segments' = segments + 1
                /\ Goto(IF MoreChunks(offset') THEN "append" ELSE "finalize")
           ELSE Raise("MediaUploadError") /\ UNCHANGED <<offset, segments>>
  BY DEF AppendChunk
<1>3. received' \in Nat
  BY <1>1, <1>2 DEF Min2
<1>4. CASE response \in {"ok", "garbled"}
  <2>1. /\ offset' = offset + CHUNK /\ segments' = segments + 1 /\ answer' = answer
        /\ pc' = IF offset' < file.size THEN "append" ELSE "finalize"
        /\ received' = received + Min2(CHUNK, file.size - offset)
    BY <1>2, <1>4 DEF Goto, MoreChunks, Done
  <2>2. offset' = segments' * CHUNK
    BY <1>1, <2>1
  <2>3. /\ offset' < file.size => received' = offset'
        /\ offset' >= file.size => received' = file.size /\ offset' < file.size + CHUNK
    BY <1>1, <2>1 DEF Min2
  <2>4. TypeOK'
    BY <1>1, <1>3, <2>1 DEF IInv, TypeOK
  <2>5. StageInv'
    BY <1>1, <1>3, <2>1, <2>2, <2>3 DEF IInv, StageInv, Acceptable
  <2> QED
    BY <1>1, <2>1, <2>4, <2>5 DEF IInv, StageInv, MediaIdIsReady, AnswerTellsStage, NoAnswer
<1>5. CASE response \notin {"ok", "garbled"}
  <2>1. pc' = "answered" /\ answer' = 502 /\ UNCHANGED <<offset, segments>>
    BY <1>2, <1>5, Statuses DEF Raise, Answer
  <2> QED
    BY <1>1, <1>3, <2>1 DEF IInv, TypeOK, StageInv, MediaIdIsReady, AnswerTellsStage,
       Acceptable
<1> QED
  BY <1>4, <1>5

LEMMA FinalizeStep == ASSUME IInv, Finalize PROVE IInv'
<1>1. /\ pc = "finalize" /\ UNCHANGED <<file, locals, received, expired>>
      /\ Acceptable /\ media = "open" /\ received = file.size /\ answer = NoAnswer
  BY DEF IInv, StageInv, Finalize
<1>2. PICK response, done :
        /\ response \in Response /\ done \in Done(response)
        /\ media' \in IF done THEN {"ready", "processing"} ELSE {media}
        /\ CASE response = "ok"      -> Finalized(media')
             [] response = "garbled" -> Raise("KeyError") \/ Raise("MediaUploadError")
             [] OTHER                -> Raise("MediaUploadError")
  BY DEF Finalize
<1>3. CASE response = "ok"
  <2>1. /\ media' \in {"ready", "processing"}
        /\ IF media' = "processing" THEN pc' = "status" /\ answer' = answer
                                    ELSE pc' = "answered" /\ answer' = 200
    BY <1>2, <1>3 DEF Finalized, Goto, Answer, Done
  <2> QED
    BY <1>1, <2>1 DEF IInv, TypeOK, StageInv, MediaIdIsReady, AnswerTellsStage,
       Acceptable, locals, NoAnswer
<1>4. CASE response = "garbled"
  <2>1. /\ media' \in {"ready", "processing"}
        /\ pc' = "answered" /\ answer' \in {500, 502}
    BY <1>2, <1>4, Statuses DEF Raise, Answer, Done
  <2> QED
    BY <1>1, <2>1 DEF IInv, TypeOK, StageInv, MediaIdIsReady, AnswerTellsStage,
       Acceptable, locals
<1>5. CASE response \notin {"ok", "garbled"}
  <2>1. /\ media' \in {"ready", "processing", "open"}
        /\ pc' = "answered" /\ answer' = 502
    BY <1>1, <1>2, <1>5, Statuses DEF Raise, Answer
  <2> QED
    BY <1>1, <2>1 DEF IInv, TypeOK, StageInv, MediaIdIsReady, AnswerTellsStage,
       Acceptable, locals
<1> QED
  BY <1>3, <1>4, <1>5

LEMMA PollStatusStep == ASSUME IInv, PollStatus PROVE IInv'
<1>1. /\ pc = "status" /\ UNCHANGED <<file, offset, segments, twitter, expired>>
      /\ Acceptable /\ received = file.size /\ answer = NoAnswer
      /\ polls \in Nat /\ polls < MAX_POLLS /\ MAX_POLLS \in Nat \ {0}
  BY UploadAssumption DEF IInv, TypeOK, StageInv, PollStatus
<1>2. \/ pc' = "answered" /\ answer' = 502 /\ polls' = polls
      \/ pc' = "answered" /\ answer' \in {200, 500} /\ polls' = polls /\ media = "ready"
      \/ pc' = "answered" /\ answer' = 502 /\ polls' = polls + 1
      \/ pc' = "status" /\ answer' = answer /\ polls' = polls + 1 /\ polls' # MAX_POLLS
  BY Statuses DEF PollStatus, KeepPolling, Raise, Answer, Goto
<1>3. TypeOK'
  BY <1>1, <1>2 DEF IInv, TypeOK, twitter
<1>4. StageInv'
  BY <1>1, <1>2 DEF IInv, StageInv, Acceptable, twitter
<1> QED
  BY <1>1, <1>2, <1>3, <1>4 DEF IInv, MediaIdIsReady, AnswerTellsStage, Acceptable,
     twitter, NoAnswer

(* What happens without the request: nothing it has been told is undone.   *)
LEMMA OutsideStep == ASSUME IInv, Process \/ TokenExpires PROVE IInv'
<1>1. /\ UNCHANGED <<file, pc, locals, answer, received>>
      /\ \/ media' = media
         \/ media = "processing" /\ media' \in {"ready", "failed"}
      /\ expired' \in BOOLEAN
  BY DEF Process, TokenExpires, twitter, IInv, TypeOK
<1> QED
  BY <1>1 DEF IInv, TypeOK, StageInv, MediaIdIsReady, AnswerTellsStage, Acceptable, locals

(* The conjunction is inductive.                                           *)
THEOREM Inductive == Spec => []IInv
<1>1. IInv /\ [Next]_vars => IInv'
  <2> SUFFICES ASSUME IInv, [Next]_vars PROVE IInv'
    OBVIOUS
  <2>1. CASE UNCHANGED vars
    BY <2>1 DEF IInv, TypeOK, StageInv, MediaIdIsReady, AnswerTellsStage, Acceptable,
                vars, locals, twitter
  <2>2. CASE Next
    BY <2>2, ValidateStep, InitUploadStep, AppendChunkStep, FinalizeStep,
       PollStatusStep, OutsideStep DEF Next, Step
  <2> QED
    BY <2>1, <2>2
<1> QED
  BY <1>1, InitIInv, PTL DEF Spec

(* The variables keep their types.                                         *)
THEOREM Typing == Spec => []TypeOK
<1>1. IInv => TypeOK
  BY DEF IInv
<1> QED
  BY <1>1, Inductive, PTL

(* A media_id is handed out only for a file Twitter has in full and has    *)
(* finished processing.                                                    *)
THEOREM OnlyReadyMedia == Spec => []MediaIdIsReady
<1>1. IInv => MediaIdIsReady
  BY DEF IInv
<1> QED
  BY <1>1, Inductive, PTL

(* The chunks are as few as cover the file, whatever its length and theirs. *)
THEOREM ChunkArithmetic == Spec => []ChunksCover
<1> QED
  BY ChunksFromStage, Inductive, PTL

(* The HTTP status tells how far the upload got.                           *)
THEOREM StatusTellsStage == Spec => []AnswerTellsStage
<1>1. IInv => AnswerTellsStage
  BY DEF IInv
<1> QED
  BY <1>1, Inductive, PTL

(* A case of Distance, before and after a step.                            *)
LEMMA DistanceAt ==
    /\ pc = "validate" => Distance = file.size + MAX_POLLS + 3
    /\ pc = "init"     => Distance = file.size + MAX_POLLS + 2
    /\ pc = "append"   => Distance = (file.size - offset) + MAX_POLLS + 1
    /\ pc = "finalize" => Distance = MAX_POLLS + 1
    /\ pc = "status"   => Distance = MAX_POLLS - polls
    /\ pc = "answered" => Distance = 0
BY DEF Distance

LEMMA DistanceThen ==
    /\ pc' = "init"     => Distance' = file'.size + MAX_POLLS + 2
    /\ pc' = "append"   => Distance' = (file'.size - offset') + MAX_POLLS + 1
    /\ pc' = "finalize" => Distance' = MAX_POLLS + 1
    /\ pc' = "status"   => Distance' = MAX_POLLS - polls'
    /\ pc' = "answered" => Distance' = 0
BY DEF Distance

LEMMA StepCounts == ASSUME IInv, Step PROVE Distance' \in 0..(Distance - 1)
<1>1. /\ file.size \in Nat /\ CHUNK \in Nat \ {0} /\ MAX_POLLS \in Nat \ {0}
      /\ offset \in Nat /\ polls \in Nat
  BY SizeIsNat, UploadAssumption DEF IInv, TypeOK
<1>2. CASE Validate
  <2>1. pc = "validate" /\ pc' \in {"init", "answered"} /\ file' = file
    BY <1>2 DEF Validate, Goto, Raise, Answer
  <2> QED
    BY <1>1, <2>1, DistanceAt, DistanceThen
<1>3. CASE InitUpload
  <2>1. /\ pc = "init" /\ pc' \in {"append", "answered"}
        /\ file' = file /\ offset' = 0
    BY <1>3 DEF InitUpload, Goto, Raise, Answer, locals, IInv, StageInv
  <2> QED
    BY <1>1, <2>1, DistanceAt, DistanceThen
<1>4. CASE AppendChunk
  <2>1. pc = "append" /\ offset < file.size /\ file' = file
    BY <1>4 DEF AppendChunk, IInv, StageInv
  <2>2. \/ pc' = "answered"
        \/ offset' = offset + CHUNK /\ pc' = "append" /\ offset' < file.size
        \/ pc' = "finalize"
    BY <1>4 DEF AppendChunk, Goto, Raise, Answer, MoreChunks
  <2> QED
    BY <1>1, <2>1, <2>2, DistanceAt, DistanceThen
<1>5. CASE Finalize
  <2>1. pc = "finalize" /\ polls' = polls /\ polls < MAX_POLLS
    BY <1>5 DEF Finalize, locals, IInv, StageInv
  <2>2. pc' \in {"status", "answered"}
    BY <1>5 DEF Finalize, Finalized, Goto, Raise, Answer
  <2> QED
    BY <1>1, <2>1, <2>2, DistanceAt, DistanceThen
<1>6. CASE PollStatus
  <2>1. pc = "status" /\ polls < MAX_POLLS
    BY <1>6 DEF PollStatus, IInv, StageInv
  <2>2. \/ pc' = "answered"
        \/ pc' = "status" /\ polls' = polls + 1 /\ polls' # MAX_POLLS
    BY <1>6 DEF PollStatus, KeepPolling, Goto, Raise, Answer
  <2> QED
    BY <1>1, <2>1, <2>2, DistanceAt, DistanceThen
<1> QED
  BY <1>2, <1>3, <1>4, <1>5, <1>6 DEF Step

LEMMA DistanceIsNat == IInv => Distance \in Nat
<1> SUFFICES ASSUME IInv PROVE Distance \in Nat
  OBVIOUS
<1>1. /\ file.size \in Nat /\ MAX_POLLS \in Nat /\ offset \in Nat /\ polls \in Nat
      /\ pc \in {"validate", "init", "append", "finalize", "status", "answered"}
      /\ pc = "append" => offset < file.size
      /\ pc = "status" => polls < MAX_POLLS
  BY SizeIsNat, UploadAssumption DEF IInv, TypeOK, StageInv
<1> QED
  BY <1>1, DistanceAt

(* Every request brings the upload nearer its answer, whatever comes back: *)
(* the half of UploadEnds that is not a matter of fairness.                *)
THEOREM UploadsAreBounded == Spec => EveryStepCounts
<1>1. ASSUME IInv, [Next]_vars
      PROVE  [Distance' \in 0..Distance /\ (Step => Distance' # Distance)]_vars
  <2>1. Distance \in Nat
    BY <1>1, DistanceIsNat
  <2>2. CASE Step
    BY <1>1, <2>1, <2>2, StepCounts
  <2>3. CASE ~ Step /\ (Process \/ TokenExpires)
    <3>1. Distance' = Distance
      BY <2>3 DEF Process, TokenExpires, Distance, locals
    <3> QED
      BY <2>1, <2>3, <3>1
  <2> QED
    BY <1>1, <2>2, <2>3 DEF Next
<1> QED
  BY <1>1, Inductive, PTL DEF Spec, EveryStepCounts
=============================================================================
