----------------------------- MODULE LlmErrors -----------------------------
(***************************************************************************)
(* How the engine reads the failures of an LLM provider                     *)
(* (src/src/engine/processor/llm).  A failure is a record                   *)
(*   class   the exception's class name                                     *)
(*   words   the substrings of its lower-cased message the code looks for   *)
(*   code    its status_code attribute, 0 when it has none                  *)
(* and every classifier below is a question about the three.  The four      *)
(* providers translate a raw SDK failure into one of the engine's typed     *)
(* errors before the retry layer sees it; wrapping keeps the message.       *)
(***************************************************************************)
EXTENDS Naturals, FiniteSets

Typed == {"LLMRateLimitedError", "LLMSafetyFilterError", "LLMTransientError",
          "LLMTruncatedError", "LLMSchemaViolationError",
          "LLMDuplicateSuppressedError"}

Failure(class, words, code) == [class |-> class, words |-> words, code |-> code]
Says(e, words) == e.words \cap words # {}
Named(e, classes) == e.class \in classes
Retyped(e, class) == Failure(class, e.words, 0)

\* Class names that contain "ratelimit", "timeout", "internalserver".
RateLimitNames == {"RateLimitError", "LLMRateLimitedError"}
TimeoutNames == {"TimeoutError", "APITimeoutError"}
ServerNames == {"InternalServerError"}

-----------------------------------------------------------------------------
(* _translate_provider_error, one per provider module *)

TranslateAnthropic(e) ==
  CASE Named(e, RateLimitNames) \/ Says(e, {"429", "rate limit"}) -> Retyped(e, "LLMRateLimitedError")
    [] Says(e, {"safety", "policy", "content_policy", "refus"}) -> Retyped(e, "LLMSafetyFilterError")
    [] \/ Named(e, TimeoutNames)
       \/ Says(e, {"timeout", "connection", "overloaded", "unavailable", "529", "500", "502", "503"})
         -> Retyped(e, "LLMTransientError")
    [] OTHER -> e

TranslateOpenai(e) ==
  CASE Named(e, RateLimitNames) \/ Says(e, {"429", "rate limit"}) -> Retyped(e, "LLMRateLimitedError")
    [] Says(e, {"safety", "content_policy"}) -> Retyped(e, "LLMSafetyFilterError")
    [] \/ Named(e, TimeoutNames \cup ServerNames)
       \/ Says(e, {"timeout", "connection", "unavailable"}) -> Retyped(e, "LLMTransientError")
    [] OTHER -> e

TranslateGemini(e) ==
  CASE Named(e, RateLimitNames) \/ Says(e, {"429", "resource_exhausted"}) -> Retyped(e, "LLMRateLimitedError")
    [] \/ Named(e, TimeoutNames)
       \/ Says(e, {"timeout", "unavailable", "500", "502", "503", "504"}) -> Retyped(e, "LLMTransientError")
    [] OTHER -> e

TranslateSelfHosted(e) ==
  CASE Named(e, RateLimitNames) \/ Says(e, {"429", "rate limit"}) -> Retyped(e, "LLMRateLimitedError")
    [] Named(e, TimeoutNames) \/ Says(e, {"timeout", "connection", "unavailable"})
         -> Retyped(e, "LLMTransientError")
    [] OTHER -> e

Providers == {"anthropic", "openai", "gemini", "self_hosted"}

\* create_llm_client picks the client by config.llm_provider.
Translated(provider, e) ==
  CASE provider = "anthropic" -> TranslateAnthropic(e)
    [] provider = "openai" -> TranslateOpenai(e)
    [] provider = "gemini" -> TranslateGemini(e)
    [] provider = "self_hosted" -> TranslateSelfHosted(e)

-----------------------------------------------------------------------------
(* The retry layer *)

NonRetryableTypes == {"AuthenticationError", "PermissionDeniedError", "BadRequestError",
                      "NotFoundError", "RateLimitError"}

\* _is_retryable; the order of the tests is the order of the returns.
IsRetryable(e) ==
  CASE e.class = "LLMRateLimitedError" -> FALSE
    [] e.class = "LLMTransientError" -> TRUE
    [] e.class = "TimeoutError" -> TRUE
    [] e.class \in NonRetryableTypes -> FALSE
    [] e.code # 0 -> e.code \in {500, 502, 504}
    [] Says(e, {"rate limit", "429", "resource_exhausted", "insufficient_quota",
                "overloaded", "503", "529"}) -> FALSE
    [] Says(e, {"timeout", "connection"}) -> TRUE
    [] OTHER -> e.class \in {"InternalServerError", "APIConnectionError", "APITimeoutError"}

\* What retry_llm_call raises in the end: typed errors as they are, others
\* wrapped in a ProcessorError that quotes them.
Raised(e) == IF e.class \in Typed THEN e ELSE Retyped(e, "ProcessorError")

-----------------------------------------------------------------------------
(* Classification for the user: the BYOK alert and the retry advice *)

IsTransient(e) ==
  \/ Named(e, TimeoutNames \cup RateLimitNames)
  \/ Says(e, {"timeout", "deadline_exceeded", "rate limit", "429", "resource_exhausted",
              "500", "502", "503", "504", "overloaded", "unavailable"})

ClassifyLlmFailure(e) ==
  CASE Says(e, {"quota", "insufficient_quota", "credit balance", "resource_exhausted"}) -> "quota_exceeded"
    [] Named(e, RateLimitNames) \/ Says(e, {"429", "rate limit"}) -> "rate_limited"
    [] Says(e, {"invalid api key", "unauthorized", "authentication", "permission denied"}) -> "auth_invalid"
    [] Says(e, {"model not found"}) -> "model_not_found"
    [] Named(e, TimeoutNames) \/ Says(e, {"timeout"}) -> "timeout"
    [] IsTransient(e) -> "transient"
    [] OTHER -> "unknown"

-----------------------------------------------------------------------------
(* Finish reasons: which the stream reports, which count as complete *)

\* What the stream of a provider ends with: complete, cut off at the output limit
\* or by a filter; "" stands for a stream that reported no reason.
AnthropicStream == {"end_turn", "tool_use", "max_tokens", ""}
GeminiStream == {"STOP", "MAX_TOKENS", "SAFETY", ""}
OpenaiStream == {"stop", "length", "content_filter", ""}
SelfHostedStream == {"stop", "length", ""}
FinishReasons(provider) ==
  CASE provider = "anthropic" -> AnthropicStream
    [] provider = "gemini" -> GeminiStream
    [] provider = "openai" -> OpenaiStream
    [] provider = "self_hosted" -> SelfHostedStream

\* _llm_call defaults a missing reason to STOP; _execute refuses the others.
Truncated(reason) == reason \notin {"STOP", "stop", ""}
=============================================================================
