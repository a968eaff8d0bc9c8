--------------------------- MODULE AnalysisCycle ---------------------------
(***************************************************************************)
(* One analysis from the request to the stored decision                     *)
(* (src/src/engine/routers/analysis.py and internal.py, helpers.py,         *)
(* processor/service.py, processor/idempotency.py, shared/cache,            *)
(* shared/db, ta/storage).  Requests run concurrently; every await is a     *)
(* point where another request, a timeout or a crash may come in between.   *)
(*                                                                          *)
(* A rerun from the dashboard passes the rate limiter and the billing row,  *)
(* analyses the symbol and writes the TA rows, collects macro data and      *)
(* rulebook context, then calls the processor.  A call from the gateway     *)
(* enters at the processor.  The processor answers from the result cache,   *)
(* or takes the lock of its digest and calls the LLM, or waits for the      *)
(* owner of the lock.                                                       *)
(*                                                                          *)
(* Time is a countdown in every timer.  Redis, Postgres and the metering    *)
(* gateway fail at most Faults times in a behaviour.                        *)
(***************************************************************************)
EXTENDS LlmErrors, AnalysisOutput, TaStore

CONSTANTS Requests,
          Casts,         \* what is asked: functions [Requests -> [user, kind]] with kind
                         \* "rerun"  POST /api/analysis/rerun, from the dashboard,
                         \* "call"   POST /internal/processor/process, from the gateway,
                         \* "ta"     POST /internal/ta/analyze, from the gateway
          PairOf,        \* [Requests -> symbol]
          PromptOf,      \* [Requests -> prompt hash], a function of the context
          PlatformUsers, \* users whose processor runs on the platform's key
          Provider,      \* config.llm_provider
          RawFailures,   \* what the provider's SDK may raise
          Answers,       \* what the model may write
          Findings,      \* what the technical analysis may find: [smc, snd]
          Timeframes,
          MaxRetries,    \* config.max_retries
          RateMax, RateWindow,
          AwaitTicks, ResultTicks, TotalTicks, LockTicks,
          Seconds,       \* the wall-clock seconds error ids are made of
          Nobody,        \* no token in a lock key
          Faults         \* bound on failures of Redis, Postgres, metering, engine

Users == UNION {{c[r].user : r \in Requests} : c \in Casts}

ASSUME TimersOrdered ==
  {AwaitTicks, ResultTicks, TotalTicks, LockTicks} \subseteq Nat /\ AwaitTicks < TotalTicks /\ TotalTicks < LockTicks
ASSUME CastsKnown == \A c \in Casts : \A r \in Requests : c[r].kind \in {"rerun", "call", "ta"}
ASSUME ProviderKnown == Provider \in Providers
\* The typed errors are the engine's own: no SDK raises them.
ASSUME FailuresForeign == \A e \in RawFailures : e.class \notin Typed
\* AnalysisOutput's numeric fields; a missing one is None.
ASSUME AnswersNumeric == \A o \in Answers : {o.lo, o.hi, o.sl, o.rr, o.score} \subseteq Int
\* The candidates of an analysis are two lists.
ASSUME FindingsLists == \A f \in Findings : \A s \in {f.smc, f.snd} : Len(s) \in Nat /\ DOMAIN s = 1..Len(s)

VARIABLES cast,     \* the user and the endpoint of every request
          req,      \* [Requests -> the request's own state]
          lock,     \* Redis: digest -> [by, ttl], the SET NX lock
          result,   \* Redis: digest -> [by, out, ttl], the cached outputs
          limiter,  \* Redis: user -> [n, ttl]; the in-process fallback beside it
          usage,    \* Postgres: billing_usage, user -> [analyses, ta, macro]
          ta,       \* Postgres: [rows, snaps] of the technical analysis
          rows,     \* Postgres: analysis_outputs, id -> row
          audits,   \* Postgres: analysis_audit_logs
          faults    \* failures still to come

vars == <<cast, req, lock, result, limiter, usage, ta, rows, audits, faults>>
redis == <<lock, result, limiter>>
tables == <<cast, usage, ta, rows, audits>>

NoAnswer == [form |-> "none"]
NoLock == [by |-> Nobody, ttl |-> 0]
NoResult == [by |-> Nobody, out |-> NoAnswer, ttl |-> 0]
NoFound == [smc |-> <<>>, snd |-> <<>>]

\* A mutated form of Digest: the user is left out of the key.
DigestOfAnyone(r) == <<CHOOSE u \in Users : TRUE, PairOf[r], PromptOf[r]>>

\* compute_digest
UserOf(r) == cast[r].user
Is(r, kind) == cast[r].kind = kind
Digest(r) == <<UserOf(r), PairOf[r], PromptOf[r]>>
Digests == Users \X {PairOf[r] : r \in Requests} \X {PromptOf[r] : r \in Requests}

Fresh == [ pc |-> "idle", left |-> 0, wait |-> 0, handle |-> "none", tries |-> 0, hold |-> "none",
           cut |-> FALSE, told |-> "", got |-> NoAnswer, err |-> "", out |-> "", gave |-> {}, found |-> NoFound,
           tx |-> NoTx, saw |-> {}, some |-> FALSE ]

Init ==
  /\ cast \in Casts
  /\ req = [r \in Requests |-> Fresh]
  /\ lock = [d \in Digests |-> NoLock]
  /\ result = [d \in Digests |-> NoResult]
  /\ \E n \in {0, RateMax} :   \* requests of the user before these
       limiter = [u \in Users |-> [n |-> n, ttl |-> IF n > 0 THEN RateWindow ELSE 0, local |-> 0, window |-> 0]]
  /\ usage = [u \in Users |-> [analyses |-> 0, ta |-> 0, macro |-> 0]]
  /\ ta = [rows |-> {}, snaps |-> {}]
  /\ rows = <<>> /\ audits = {}
  /\ faults = Faults

-----------------------------------------------------------------------------
(* Helpers *)

At(r, pc) == req[r].pc = pc

\* The record x with the given fields.
Patch(x, fields) == [f \in DOMAIN x |-> IF f \in DOMAIN fields THEN fields[f] ELSE x[f]]
Set(r, fields) == req' = [req EXCEPT ![r] = Patch(@, fields)]
Goto(r, pc) == Set(r, [pc |-> pc])
Faulty == faults > 0 /\ faults' = faults - 1
Sound == UNCHANGED faults

\* The end of a request: what the caller got; the rest of its state is gone.
Ended(r, err, out, gave) ==
  req' = [req EXCEPT ![r] = [Fresh EXCEPT !.pc = "done", !.err = err, !.out = out, !.gave = gave,
                                          !.hold = req[r].hold, !.cut = req[r].cut,
                                          !.saw = req[r].saw]]

\* The exception leaves _execute_guarded; the timeout's scope ends.
Escapes(r, err) == Set(r, [pc |-> "fail", err |-> err, left |-> 0, wait |-> 0, handle |-> "none"])

\* internal_processor_process maps the class to a status; _rerun_process_and_return
\* answers 200 in every case.
Status(r, err) ==
  CASE err = "" -> "200"
    [] Is(r, "rerun") -> IF err = "ProcessorInsufficientDataError" THEN "completed" ELSE "error"
    [] err = "QuotaExceededError" -> "429"
    [] err = "MeteringUnavailableError" -> "503"
    [] err = "LLMDuplicateSuppressedError" -> "409"
    [] err = "ProcessorInsufficientDataError" -> "400"
    [] err \in {"LLMTruncatedError", "LLMSchemaViolationError", "LLMSafetyFilterError",
                "LLMRateLimitedError"} -> "422"
    [] OTHER -> "500"
-----------------------------------------------------------------------------
(* A rerun before the processor *)

\* _fallback_allow: the in-process window used while Redis is unreachable.
FallbackCount(u) == IF limiter[u].window = 0 THEN 1 ELSE limiter[u].local + 1
FallbackAllows(u) == limiter[u].window = 0 \/ limiter[u].local < RateMax
Fallback(u, l) ==
  IF FallbackAllows(u)
  THEN [l EXCEPT !.local = FallbackCount(u), !.window = IF @ = 0 THEN RateWindow ELSE @]
  ELSE l

\* _rate_limit: INCR, then EXPIRE on the first request of a window.
RateLimit(r) ==
  LET u == UserOf(r)
      n == limiter[u].n + 1
      counted == [limiter[u] EXCEPT !.n = n]
  IN /\ Is(r, "rerun") /\ At(r, "idle")
     /\ \/ /\ Sound
           /\ limiter' = [limiter EXCEPT ![u] = IF n = 1 THEN [counted EXCEPT !.ttl = RateWindow] ELSE counted]
           /\ IF n > RateMax THEN Ended(r, "HTTPException", "429", {}) ELSE Goto(r, "bill")
        \/ /\ Faulty
           /\ \E after \in {limiter[u]} \cup (IF n = 1 THEN {counted} ELSE {}) :
                limiter' = [limiter EXCEPT ![u] = Fallback(u, after)]
           /\ IF FallbackAllows(u) THEN Goto(r, "bill") ELSE Ended(r, "HTTPException", "429", {})
     /\ UNCHANGED <<lock, result, tables>>

\* rerun_analysis up to the analysis: a missing processor or broker connection
\* answers 4xx; the billing row is read and then written by three statements,
\* each committed by itself.
Billed(b, k) == [analyses |-> IF k >= 1 THEN b.analyses + 1 ELSE b.analyses,
                 ta |-> IF k >= 2 THEN b.ta + 1 ELSE b.ta,
                 macro |-> IF k >= 3 THEN b.macro + 1 ELSE b.macro]
Bill(r) ==
  LET u == UserOf(r)
  IN /\ At(r, "bill")
     /\ \/ Sound /\ UNCHANGED usage /\ Ended(r, "HTTPException", "400", {})
        \/ Sound /\ usage' = [usage EXCEPT ![u] = Billed(@, 3)] /\ Goto(r, "ta")
        \/ /\ Faulty
           /\ \E k \in 0..2 : usage' = [usage EXCEPT ![u] = Billed(@, k)]
           /\ Ended(r, "DatabaseError", "500", {})
     /\ UNCHANGED <<cast, redis, ta, rows, audits>>

Open(q) == req[q].pc \in {"snapshots", "smc", "snd", "commit"}

\* TAOrchestrator.analyze up to its persistence: no data, an error, or findings;
\* the unit of work opens.
Analyze(r) ==
  /\ At(r, "ta") \/ (Is(r, "ta") /\ At(r, "idle"))
  /\ \/ Ended(r, "", "completed", {})
     \/ \E f \in Findings :
          req' = [q \in Requests |->
                    IF q = r THEN [req[r] EXCEPT !.pc = "snapshots", !.found = f,
                                                 !.saw = @ \cup {p \in Requests : Open(p)}]
                    ELSE IF Open(q) THEN [req[q] EXCEPT !.saw = @ \cup {r}] ELSE req[q]]
  /\ Sound /\ UNCHANGED <<redis, tables>>

\* One statement group of _persist_all_results: it works, or it fails and its
\* except swallows the error.
Statement(r, from, to, works) ==
  /\ At(r, from)
  /\ \/ Sound /\ Set(r, [pc |-> to, tx |-> IF req[r].tx.state = "ok" THEN works ELSE req[r].tx])
     \/ /\ Faulty
        /\ \E kind \in {"aborted", "broken"} : Set(r, [pc |-> to, tx |-> Fail(req[r].tx, kind)])
  /\ UNCHANGED <<redis, tables>>

PersistSnapshots(r) ==
  Statement(r, "snapshots", "smc",
            CreateSnapshots(req[r].tx, ta.snaps, UserOf(r), PairOf[r], Timeframes, r))

Stored(r, cands) ==
  BulkCreate(req[r].tx, ExistingKeys(ta.rows, req[r].tx, cands, UserOf(r)), cands, UserOf(r), r)
PersistSmc(r) == Statement(r, "smc", "snd", Stored(r, req[r].found.smc))
PersistSnd(r) == Statement(r, "snd", "commit", Stored(r, req[r].found.snd))

\* The unit of work's exit: COMMIT; analyze() turns an exception into status
\* "error" without candidates, which ends the rerun.
CommitTa(r) ==
  LET tx == req[r].tx
  IN /\ At(r, "commit")
     /\ \/ /\ Sound
           /\ ta' = IF Durable(tx) THEN [rows |-> ta.rows \cup tx.rows, snaps |-> ta.snaps \cup tx.snaps] ELSE ta
           /\ IF CommitRaises(tx) \/ Is(r, "ta") THEN Ended(r, "", "completed", {})
              ELSE Set(r, [pc |-> "context", tx |-> NoTx])
        \/ Faulty /\ UNCHANGED ta /\ Ended(r, "", "completed", {})
     /\ UNCHANGED <<cast, redis, usage, rows, audits>>

\* The macro collectors never fail the request; the retrieval does.
Context(r) ==
  /\ At(r, "context")
  /\ \/ Set(r, [pc |-> "check", left |-> TotalTicks, some |-> req[r].found # NoFound, found |-> NoFound])
     \/ Ended(r, "HTTPException", "500", {})
  /\ Sound /\ UNCHANGED <<redis, tables>>

\* internal_processor_process
Enter(r) ==
  /\ Is(r, "call") /\ At(r, "idle")
  /\ \E some \in BOOLEAN : Set(r, [pc |-> "check", left |-> TotalTicks, some |-> some])
  /\ Sound /\ UNCHANGED <<redis, tables>>
-----------------------------------------------------------------------------
(* The guard: _execute_guarded with ProcessorIdempotency *)

Cached(d) == result[d].ttl > 0
Shared(d) == [by |-> result[d].by, out |-> result[d].out]
Free(d) == lock[d].ttl = 0

\* check_cached answers None when Redis fails.
CheckCached(r) ==
  LET d == Digest(r)
  IN /\ At(r, "check")
     /\ \/ /\ Sound
           /\ IF Cached(d) THEN Ended(r, "", Status(r, ""), {Shared(d)}) ELSE Goto(r, "acquire")
        \/ Faulty /\ Goto(r, "acquire")
     /\ UNCHANGED <<redis, tables>>

Locked(d, r) == [lock EXCEPT ![d] = [by |-> r, ttl |-> LockTicks]]

\* acquire through try_acquire_lock and _execute_with_retry.  A lost connection
\* is a False after the retries; a SET whose reply was lost holds the key when
\* the retry finds it taken, which is a False too; only an error reply of the
\* server reaches acquire's except, which goes on without the lock.
Acquire(r) ==
  LET d == Digest(r)
      free == Free(d)
      waits == Set(r, [pc |-> "await", wait |-> AwaitTicks])
  IN /\ At(r, "acquire")
     /\ \/ Sound /\ free /\ lock' = Locked(d, r) /\ Set(r, [pc |-> "execute", handle |-> "own"])
        \/ Sound /\ ~free /\ UNCHANGED lock /\ waits
        \/ Faulty /\ UNCHANGED lock /\ waits
        \/ Faulty /\ free /\ lock' = Locked(d, r) /\ waits
        \/ Faulty /\ UNCHANGED lock /\ Set(r, [pc |-> "execute", handle |-> "blind"])
     /\ UNCHANGED <<result, limiter, tables>>

\* await_result polls until its deadline; a poll that finds nothing changes nothing.
AwaitResult(r) ==
  LET d == Digest(r)
  IN /\ At(r, "await")
     /\ \/ Cached(d) /\ Ended(r, "", Status(r, ""), {Shared(d)})
        \/ req[r].wait = 0 /\ Escapes(r, "LLMDuplicateSuppressedError")
     /\ Sound /\ UNCHANGED <<redis, tables>>

Output(r) == MapToProcessorOutput(req[r].got, PairOf[r])
Cache(r) == [result EXCEPT ![Digest(r)] = [by |-> r, out |-> Output(r), ttl |-> ResultTicks]]

\* store_result; a failing SET is swallowed.
StoreResult(r) ==
  /\ At(r, "store")
  /\ (Sound /\ result' = Cache(r)) \/ (Faulty /\ UNCHANGED result)
  /\ Goto(r, "release")
  /\ UNCHANGED <<lock, limiter, tables>>

\* A mutated form of Unlocked: DEL without comparing the token.
UnlockedBlindly(r) == [lock EXCEPT ![Digest(r)] = NoLock]

\* release_lock deletes the key only while it holds the caller's token.
Unlocked(r) ==
  LET d == Digest(r)
  IN IF lock[d].by = r /\ req[r].handle = "own" THEN [lock EXCEPT ![d] = NoLock] ELSE lock

\* The finally of _execute_guarded, then the result or the pending exception.
Release(r) ==
  /\ At(r, "release")
  /\ (Sound /\ lock' = Unlocked(r)) \/ (Faulty /\ UNCHANGED lock)
  /\ IF req[r].err = "" THEN Ended(r, "", Status(r, ""), {[by |-> r, out |-> Output(r)]})
     ELSE Escapes(r, req[r].err)
  /\ UNCHANGED <<result, limiter, tables>>
-----------------------------------------------------------------------------
(* _execute: validate, reserve, call, settle, parse, persist *)

Raise(r, err) == Set(r, [pc |-> "release", err |-> err])
Metered(r) == UserOf(r) \in PlatformUsers

\* _validate_context: the context names at least one candidate.
HasContext(r) == req[r].some

\* _validate_context and metering.reserve.  A reply that is lost leaves a
\* reservation at the gateway whose id the engine never learns.
Reserve(r) ==
  /\ At(r, "execute")
  /\ IF ~HasContext(r) THEN Sound /\ Raise(r, "ProcessorInsufficientDataError")
     ELSE IF ~Metered(r) THEN Sound /\ Goto(r, "call")
     ELSE \/ Sound /\ Set(r, [pc |-> "call", hold |-> "held"])
          \/ Sound /\ \E err \in {"QuotaExceededError", "MeteringUnavailableError"} : Raise(r, err)
          \/ Faulty /\ \E hold \in {"none", "held"} :
               Set(r, [pc |-> "release", err |-> "ReadTimeout", hold |-> hold, cut |-> TRUE])
  /\ UNCHANGED <<redis, tables>>

Alert(r, e) ==
  IF ~Metered(r) /\ ClassifyLlmFailure(e) \in {"quota_exceeded", "rate_limited"}
  THEN ClassifyLlmFailure(e) ELSE ""

\* An attempt of retry_llm_call whose stream fails.  The self-hosted client's
\* second request after a refused response_format belongs to the same attempt,
\* which fails or returns as the second request does.
CallFails(r) ==
  /\ At(r, "call")
  /\ \E raw \in RawFailures :
       LET e == Translated(Provider, raw)
       IN IF IsRetryable(e) /\ req[r].tries < MaxRetries
          THEN Set(r, [tries |-> req[r].tries + 1])
          ELSE Set(r, [pc |-> "refund", tries |-> 0, err |-> Raised(e).class, told |-> Alert(r, Raised(e))])
  /\ Sound /\ UNCHANGED <<redis, tables>>

\* An attempt that streams to its end; any finish reason but STOP is a truncation.
CallReturns(r) ==
  /\ At(r, "call")
  /\ \E o \in Answers, reason \in FinishReasons(Provider) :
       IF Truncated(reason) THEN Set(r, [pc |-> "refund", tries |-> 0, err |-> "LLMTruncatedError"])
       ELSE Set(r, [pc |-> "settle", tries |-> 0, got |-> o])
  /\ Sound /\ UNCHANGED <<redis, tables>>

\* A mutated form of Refund: a truncated answer keeps its reservation.
RefundErrorsOnly(r) ==
  /\ At(r, "refund")
  /\ Sound
  /\ Set(r, [pc |-> "release", hold |-> IF req[r].hold = "held" /\ req[r].err # "LLMTruncatedError"
                                        THEN "refunded" ELSE req[r].hold])
  /\ UNCHANGED <<redis, tables>>

\* metering.refund on the failure paths; it swallows its own failure.
Refund(r) ==
  /\ At(r, "refund")
  /\ \/ Sound /\ Set(r, [pc |-> "release", hold |-> IF req[r].hold = "held" THEN "refunded" ELSE req[r].hold])
     \/ Faulty /\ req[r].hold = "held" /\ Set(r, [pc |-> "release", cut |-> TRUE])
  /\ UNCHANGED <<redis, tables>>

\* metering.commit, then the synchronous parse, validation and mapping.
ParseError(r) == ParseLlmResponse(req[r].got, TRUE)
Settle(r) ==
  LET next(hold, cut) ==
        IF ParseError(r) = "" THEN Set(r, [pc |-> "save", hold |-> hold, cut |-> cut])
        ELSE Set(r, [pc |-> "release", err |-> ParseError(r), got |-> NoAnswer, hold |-> hold, cut |-> cut])
  IN /\ At(r, "settle")
     /\ \/ Sound /\ next(IF req[r].hold = "held" THEN "committed" ELSE req[r].hold, req[r].cut)
        \/ Faulty /\ req[r].hold = "held" /\ next("held", TRUE)
     /\ UNCHANGED <<redis, tables>>

\* save_analysis: ON CONFLICT (analysis_id) DO UPDATE of the decision's columns.
Upsert(row) ==
  IF row.id \in DOMAIN rows
  THEN [rows EXCEPT ![row.id] = [@ EXCEPT !.dir = row.dir, !.grade = row.grade, !.status = row.status]]
  ELSE [id \in DOMAIN rows \cup {row.id} |-> IF id = row.id THEN row ELSE rows[id]]

\* _persist_success: both rows in one unit of work, whose failure is swallowed.
PersistSuccess(r) ==
  LET o == req[r].got
  IN /\ At(r, "save")
     /\ \/ /\ Sound
           /\ rows' = Upsert(AnalysisRecord(o, PairOf[r], UserOf(r)))
           /\ audits' = audits \cup {AuditRecord(o, PairOf[r], UserOf(r), Warnings(o, TRUE))}
        \/ Faulty /\ UNCHANGED <<rows, audits>>
     /\ Goto(r, "store")
     /\ UNCHANGED <<cast, redis, usage, ta>>

\* process: the except clauses.  Quota, metering and missing data leave no row.
Unrecorded == {"QuotaExceededError", "MeteringUnavailableError", "ProcessorInsufficientDataError"}
Fails(r) ==
  LET err == req[r].err
      status == IF err = "TimeoutError" THEN "timeout" ELSE "llm_error"
  IN /\ At(r, "fail")
     /\ \/ err \in Unrecorded /\ Sound /\ UNCHANGED rows
        \/ /\ err \notin Unrecorded
           /\ \/ Sound /\ \E s \in Seconds : rows' = Upsert(ErrorRecord(PairOf[r], UserOf(r), status, s))
              \/ Faulty /\ UNCHANGED rows
     /\ Ended(r, err, Status(r, err), {})
     /\ UNCHANGED <<cast, redis, usage, ta, audits>>
-----------------------------------------------------------------------------
(* Time and crashes *)

Guarded == {"check", "acquire", "await"}
Executing == {"execute", "call", "refund", "settle", "save", "store"}
Timed(r) == req[r].pc \in Guarded \cup Executing \cup {"release"} /\ req[r].err # "TimeoutError"

\* asyncio.timeout(total_timeout_seconds) cancels the await in progress, whose
\* effect may already have happened; the finally of the guard still runs unless
\* it was the release itself that was cancelled.
Timeout(r) ==
  LET pc == req[r].pc
      inside == pc \in Executing
  IN /\ Timed(r) /\ req[r].left = 0
     /\ Set(r, [ pc |-> IF inside THEN "release" ELSE "fail", wait |-> 0,
                 handle |-> IF inside THEN req[r].handle ELSE "none",
                 err |-> "TimeoutError", cut |-> TRUE, got |-> NoAnswer, tries |-> 0, told |-> "" ])
     /\ lock' \in {lock} \cup (IF pc = "acquire" /\ Free(Digest(r)) THEN {Locked(Digest(r), r)} ELSE {})
                         \cup (IF pc = "release" THEN {Unlocked(r)} ELSE {})
     /\ result' \in {result} \cup (IF pc = "store" THEN {Cache(r)} ELSE {})
     /\ Sound /\ UNCHANGED <<limiter, tables>>

Down(n) == IF n = 0 THEN 0 ELSE n - 1

\* A mutated form of Aged: keys without an expiry.
AgedNever(f, gone) == f

Aged(f, gone) == [d \in Digests |-> IF f[d].ttl <= 1 THEN gone ELSE [f[d] EXCEPT !.ttl = @ - 1]]
Running(r) == req[r].pc \notin {"idle", "done"}

Tick ==
  /\ \A r \in Requests : /\ Timed(r) => req[r].left > 0
                         /\ At(r, "await") => req[r].wait > 0
  /\ \/ \E r \in Requests : Timed(r)
     \/ \E d \in Digests : ~Free(d) \/ Cached(d)
     \/ \E u \in Users : limiter[u].ttl + limiter[u].window > 0
  /\ req' = [r \in Requests |-> [req[r] EXCEPT !.left = IF Timed(r) THEN Down(@) ELSE @, !.wait = Down(@)]]
  /\ lock' = Aged(lock, NoLock) /\ result' = Aged(result, NoResult)
  /\ limiter' = [u \in Users |->
       [ n |-> IF limiter[u].ttl = 1 THEN 0 ELSE limiter[u].n, ttl |-> Down(limiter[u].ttl),
         local |-> IF limiter[u].window <= 1 THEN 0 ELSE limiter[u].local,
         window |-> Down(limiter[u].window) ]]
  /\ Sound /\ UNCHANGED <<tables>>

\* The engine restarts: its requests are gone, open transactions roll back, what
\* is in Redis, Postgres and the gateway stays.
Crash ==
  /\ \E r \in Requests : Running(r)
  /\ Faulty
  /\ req' = [r \in Requests |->
       IF Running(r) THEN [Fresh EXCEPT !.pc = "done", !.out = "lost", !.hold = req[r].hold,
                                        !.cut = TRUE, !.saw = req[r].saw]
       ELSE req[r]]
  /\ limiter' = [u \in Users |-> [limiter[u] EXCEPT !.local = 0, !.window = 0]]
  /\ UNCHANGED <<lock, result, tables>>

Process(r) ==
  \/ CheckCached(r) \/ Acquire(r) \/ AwaitResult(r) \/ Reserve(r) \/ CallFails(r)
  \/ CallReturns(r) \/ Refund(r) \/ Settle(r) \/ PersistSuccess(r)
  \/ StoreResult(r) \/ Release(r) \/ Fails(r) \/ Timeout(r)

Prepare(r) ==
  \/ Bill(r) \/ Analyze(r) \/ PersistSnapshots(r) \/ PersistSmc(r) \/ PersistSnd(r)
  \/ CommitTa(r) \/ Context(r)

Next ==
  \/ \E r \in Requests : RateLimit(r) \/ Enter(r) \/ Prepare(r) \/ Process(r)
  \/ Tick \/ Crash

\* While a started request can go on or a timer runs, something happens: the event
\* loop resumes a ready task and time passes.  No request is favoured.
Fairness == WF_vars((\E r \in Requests : Prepare(r) \/ Process(r)) \/ Tick)

Spec == Init /\ [][Next]_vars /\ Fairness
-----------------------------------------------------------------------------
(* The guard's promise: the cycle implements SingleFlight *)

StageOf(r) ==
  LET pc == req[r].pc
  IN CASE pc \in Guarded -> "asking"
       [] pc \in Executing -> IF req[r].handle = "own" THEN "flying" ELSE "blind"
       [] pc = "release" -> "closing"
       [] pc \in {"fail", "done"} -> "gone"
       [] OTHER -> "out"
LeftOf(r) == IF req[r].pc \in Guarded \cup Executing THEN req[r].left ELSE 0

SF == INSTANCE SingleFlight
        WITH Callers <- Requests, Keys <- Digests, key <- [r \in Requests |-> Digest(r)],
             stage <- [r \in Requests |-> StageOf(r)], left <- [r \in Requests |-> LeftOf(r)],
             holder <- [d \in Digests |-> lock[d].by], ttl <- [d \in Digests |-> lock[d].ttl]

ASSUME GuardAssumed == SF!GuardConstants

\* Every step of the analysis cycle is a step of the single-flight guard or leaves
\* it alone: the engine's use of its Redis lock keeps the guard's protocol through
\* lost replies, timeouts in any await and restarts.
GuardRefined == SF!SFSpec
-----------------------------------------------------------------------------
(* Properties *)

TypeOK ==
  /\ \A r \in Requests : /\ req[r].left \in 0..TotalTicks /\ req[r].wait \in 0..AwaitTicks
                         /\ req[r].tries \in 0..MaxRetries
                         /\ req[r].hold \in {"none", "held", "committed", "refunded"}
                         /\ req[r].tx.state \in {"ok", "aborted", "broken"}
  /\ \A d \in Digests : lock[d].ttl \in 0..LockTicks /\ result[d].ttl \in 0..ResultTicks
  /\ \A u \in Users : usage[u].macro <= usage[u].ta /\ usage[u].ta <= usage[u].analyses
  /\ faults \in 0..Faults

\* A token reservation is settled by the request that made it: once the request has
\* ended, the hold is committed exactly when a model answer was complete and is
\* refunded otherwise; it stays open only when a metering call, the total timeout
\* or a restart cut the request short (_execute around metering.refund and commit).
HoldSettled ==
  \A r \in Requests : At(r, "done") /\ ~req[r].cut =>
    /\ req[r].hold # "held"
    /\ req[r].hold = "refunded" => req[r].err # "" /\ req[r].err # "LLMSchemaViolationError"
    /\ Metered(r) /\ (\E g \in req[r].gave : g.by = r) => req[r].hold = "committed"

\* An answer that reaches a caller was produced for the same user and symbol, by a
\* call whose answer passed the parser, even when it comes from the shared cache
\* (compute_digest, check_cached, await_result, store_result).
AnswerIsOwn ==
  /\ \A r \in Requests : \A g \in req[r].gave :
       UserOf(g.by) = UserOf(r) /\ PairOf[g.by] = PairOf[r] /\ g.out.symbol = PairOf[r]
  /\ \A d \in Digests : Cached(d) => req[result[d].by].out # "" \/ At(result[d].by, "release")
                                       \/ At(result[d].by, "fail")

\* An approved trade is complete and within the rulebook, whatever text the model
\* wrote: an entry inside a positive zone, a positive stop, a target, the style's
\* reward-to-risk, a score above the rejection threshold and the risk of its grade
\* (validators.py with output_mapper.py).
ApprovedIsComplete ==
  \A r \in Requests : \A g \in req[r].gave : LET o == g.out IN o.valid =>
    /\ 0 < o.lo /\ o.lo <= o.entry /\ o.entry <= o.hi
    /\ Given(o.sl) /\ o.sl > 0
    /\ Given(o.rr) /\ o.rr >= 20 /\ (o.style = "POSITIONAL" => o.rr >= 50)
    /\ o.score >= RejectBelow /\ o.score <= ScoreMax
    /\ o.risk = (IF o.grade = "B" THEN 5 ELSE 10)

\* Two active rows of one user with the same pattern, direction and rounded price
\* come only from analyses whose transactions overlapped: the deduplication reads
\* the committed keys and there is no unique index (_fetch_existing_dedup_keys).
SameSetup(v, w) == v.user = w.user /\ v.sym = w.sym /\ v.pattern = w.pattern /\ v.dir = w.dir
                     /\ Round4(v.price) = Round4(w.price)
DuplicatesOverlapped ==
  \A v, w \in ta.rows : v # w /\ SameSetup(v, w) => v.by # w.by /\ w.by \in req[v.by].saw

\* An analysis' snapshots and candidates are stored together or not at all, even
\* when one of the statements failed and its error was swallowed
\* (_persist_all_results in one unit of work), and every decision in the audit log
\* has its row in analysis_outputs (_persist_success in another).
AnalysisStoredWhole ==
  /\ \A a \in audits : a.id \in DOMAIN rows
  /\ \A r \in Requests :
    LET snaps == {s \in ta.snaps : s.by = r}
        mine == {w \in ta.rows : w.by = r}
    IN /\ mine # {} => {s.tf : s \in snaps} = Timeframes
       /\ snaps # {} /\ At(r, "context") =>
            \A cands \in {req[r].found.smc, req[r].found.snd} : \A i \in DOMAIN cands :
              \E w \in ta.rows : SameSetup(w, RowOf(cands[i], UserOf(r), r))

\* Every request that has started is answered, whatever fails on the way, and no
\* digest stays blocked by a lost reply, an interrupted release or a restart: again
\* and again nothing runs and every lock is free (process's asyncio.timeout,
\* await_result's deadline, the swallowed errors, _LOCK_TTL_SECONDS).
ComesToRest == []<>((\A r \in Requests : ~Running(r)) /\ (\A d \in Digests : Free(d)))

\* "collapses those duplicates into a single LLM call ... Every operation FAILS
\* OPEN ... A cache outage must never break a real user analysis"
\* (idempotency.py): a call refused as a duplicate has another call of its digest.
DuplicateIsReal ==
  \A r \in Requests : At(r, "done") /\ req[r].err = "LLMDuplicateSuppressedError" =>
    \E q \in Requests \ {r} : Digest(q) = Digest(r) /\ ~At(q, "idle")
=============================================================================
