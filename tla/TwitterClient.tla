---------------------------- MODULE TwitterClient ----------------------------
(***************************************************************************)
(* What one call of TwitterAPIClient.request means to its caller           *)
(* (app/services/twitter_client.py): which answers Twitter can give to one *)
(* attempt, what the request method makes of each, and whether the request *)
(* took effect at Twitter, which the caller cannot see.                    *)
(***************************************************************************)
EXTENDS Naturals

CONSTANT
    HTTP_MAX_RETRIES    \* settings.HTTP_MAX_RETRIES, an unvalidated int

ASSUME HttpMaxRetriesAssumption == HTTP_MAX_RETRIES \in Nat

-----------------------------------------------------------------------------
(* The answers to one attempt:                                             *)
(*   ok             below 400, with the "data" object of the v2 API        *)
(*   garbled        below 400 without it: not JSON, or "errors" only       *)
(*   rejected       400 and above, neither 429 nor retryable               *)
(*   rate_limited   429                                                    *)
(*   server_error   500, 502, 503 or 504                                   *)
(*   network_error  httpx.RequestError: no connection, a timeout, a cut    *)
Answer == {"ok", "garbled", "rejected", "rate_limited",
           "server_error", "network_error"}

Retryable == {"server_error", "network_error"}

(* What became of the request at Twitter: "done" when it took effect       *)
(* before the answer, "lost" when it never will, "late" when it is still   *)
(* on its way and takes effect at any later time.                          *)
Fates(answer) ==
    CASE answer = "ok"                          -> {"done"}
      [] answer = "garbled"                     -> {"done", "lost"}
      [] answer \in {"rejected", "rate_limited"} -> {"lost"}
      [] OTHER                                  -> {"done", "lost", "late"}

(* Faulty: every request gets the retry budget of an idempotent one.       *)
MaxAttemptsIgnoringIdempotence(idempotent) == HTTP_MAX_RETRIES

MaxAttempts(idempotent) == IF idempotent THEN HTTP_MAX_RETRIES ELSE 1

(* What request() does with the answer to an attempt: sleeps and tries     *)
(* again, raises, or hands the parsed body to the caller.                  *)
Outcome(answer, attempt, idempotent) ==
    CASE answer \in Retryable /\ attempt < MaxAttempts(idempotent) -> "retry"
      [] answer \in {"ok", "garbled"}                              -> "return"
      [] OTHER                                                     -> "raise"

(* The exception it raises.                                                *)
ErrorOf(answer) ==
    IF answer = "rate_limited" THEN "TwitterRateLimitError" ELSE "TwitterAPIError"
=============================================================================
