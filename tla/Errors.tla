------------------------------- MODULE Errors -------------------------------
(***************************************************************************)
(* The HTTP status a client gets for an exception: the hierarchy of        *)
(* app/exceptions/twitter_exceptions.py and the handlers of                *)
(* app/middleware/error_handler.py.                                        *)
(***************************************************************************)
EXTENDS Naturals

(* http_status_code of each subclass of TwitterBaseError.                  *)
HttpStatusCode ==
    [TwitterAuthError            |-> 401,
     InvalidOAuthStateError      |-> 400,
     TokenExpiredError           |-> 401,
     TokenRefreshError           |-> 401,
     TwitterAccountNotFoundError |-> 404,
     TwitterRateLimitError       |-> 429,
     TwitterAPIError             |-> 502,
     MediaUploadError            |-> 502,
     ThreadPostingError          |-> 502,
     TwitterValidationError      |-> 422]

TwitterBaseError == DOMAIN HttpStatusCode

(* Faulty: a failed upload is answered as the client's mistake.            *)
HttpAnswerBlamingClient(error) ==
    IF error \in TwitterBaseError /\ HttpStatusCode[error] < 500
    THEN HttpStatusCode[error] ELSE 422

(* The handler of the base class, and the catch-all for everything else.   *)
HttpAnswer(error) ==
    IF error \in TwitterBaseError THEN HttpStatusCode[error] ELSE 500
=============================================================================
