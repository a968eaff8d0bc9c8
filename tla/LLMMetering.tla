---------------------------- MODULE LLMMetering ----------------------------
(***************************************************************************)
(* Quota metering of LLM calls for one user: the engine's metering client  *)
(* (engine/shared/metering_client.py) and its caller in the processor, the *)
(* gateway's metering handlers, the billing_usage row and the table        *)
(* billing_llm_reservations (billing/store/usage.go), the janitor of the   *)
(* billing reconciler, and the window resets.                              *)
(*                                                                         *)
(* Each store operation is one transaction that locks the user's row, or   *)
(* the reservation's row and then the user's, before it reads what it      *)
(* changes: it is one action here.  What interleaves is everything around  *)
(* them: several calls of one user, requests that are lost or arrive after *)
(* their sender has given up, the TTL of a reservation, the janitor's      *)
(* two phases, midnight, and renewals whose events arrive twice or late.   *)
(* The audit columns (blocked, overshoot, lifetime counters) are left out: *)
(* no operation reads them.                                                *)
(***************************************************************************)
EXTENDS Integers, FiniteSets, FiniteSetsExt

CONSTANTS
    Calls,              \* LLM calls of the user; each makes one reservation
    Estimates,          \* token counts the engine estimates for a prompt
    InputSizes,         \* token counts a provider reports, for the prompt
    OutputSizes,        \* and for its answer
    MaxOutput,          \* ProcessorConfig.max_output_tokens
    MaxInputPerCall,    \* the policy row; 0 is unlimited here and below
    DailyCap, MonthlyCap,
    SoftCapPercent,
    ReapLimit,          \* LIMIT of the janitor's query
    MaxDay, MaxPeriod   \* bounds: midnights, and dates a window may start at

Dims == {"input", "output"}

ASSUME MeteringConfig ==
    /\ IsFiniteSet(Calls)
    /\ Estimates \subseteq Nat
    /\ InputSizes \subseteq Nat /\ OutputSizes \subseteq Nat
    /\ MaxOutput \in Nat \ {0} /\ MaxInputPerCall \in Nat
    /\ DailyCap \in [Dims -> Nat] /\ MonthlyCap \in [Dims -> Nat]
    /\ SoftCapPercent \in Nat
    /\ ReapLimit \in Nat \ {0}
    /\ MaxDay \in Nat /\ MaxPeriod \in Nat

VARIABLES
    day,        \* CURRENT_DATE
    usage,      \* the billing_usage row
    res,        \* billing_llm_reservations
    phase,      \* the engine's side of a call, with its request in flight
    reap,       \* ids the janitor has read and not yet refunded
    warnings    \* soft-cap e-mails handed to the mailer, per window

vars == <<day, usage, res, phase, reap, warnings>>

Zero == [d \in Dims |-> 0]

\* A reservation before it is made.  The columns created_at and settled_at are
\* kept as the day and the monthly window that were being counted then.
NoRow == [status |-> "none", estimate |-> 0, actual |-> Zero,
          expired |-> FALSE, made |-> <<0, 0>>, settled |-> <<0, 0>>]

Init ==
    /\ day = 0
    /\ usage = [today |-> Zero, month |-> Zero, stamp |-> 0, window |-> 0,
                notified |-> FALSE]
    /\ res = [c \in Calls |-> NoRow]
    /\ phase = [c \in Calls |-> "idle"]
    /\ reap = {}
    /\ warnings = [w \in 0..MaxPeriod |-> 0]

-----------------------------------------------------------------------------
\* The day and the monthly window that the counters of a row stand for.
Windows(u) == <<u.stamp, u.window>>

\* GREATEST(0, counter + delta)
Adjust(counter, delta) == [d \in Dims |-> Max({0, counter[d] + delta[d]})]

\* The CASE WHEN DATE(last_reset_at) < CURRENT_DATE of the upsert.
DailyReset(u) ==
    IF u.stamp < day THEN [u EXCEPT !.today = Zero, !.stamp = day] ELSE u

MutCheckCap(used, requested, cap) ==
    \A d \in Dims : cap[d] > 0 => used[d] <= cap[d]

CheckCap(used, requested, cap) ==
    \A d \in Dims : cap[d] > 0 => used[d] + requested[d] <= cap[d]

\* What a reservation debits.
Debit(estimate) == [d \in Dims |-> IF d = "input" THEN estimate ELSE MaxOutput]

Negated(amount) == [d \in Dims |-> -amount[d]]

\* What a commit changes: the estimate is replaced by the actual input; the
\* unused output comes back, and output above the maximum is not charged.
Correction(estimate, actual) ==
    [d \in Dims |-> IF d = "input" THEN actual.input - estimate
                    ELSE -Max({0, MaxOutput - actual.output})]

-----------------------------------------------------------------------------
\* POST /internal/metering/reserve, from the engine's call to the answer it
\* acts on.  heard = FALSE: the transaction commits but the engine times out
\* or cannot read the answer, raises, and never learns the id.
Reserve(c, estimate, heard) ==
    LET u == DailyReset(usage)
        debit == Debit(estimate)
    IN  /\ phase[c] = "idle"
        /\ MaxInputPerCall > 0 => estimate <= MaxInputPerCall
        /\ CheckCap(u.today, debit, DailyCap)
        /\ CheckCap(u.month, debit, MonthlyCap)
        /\ usage' = [u EXCEPT !.today = Adjust(u.today, debit),
                              !.month = Adjust(u.month, debit)]
        /\ res' = [res EXCEPT ![c] = [NoRow EXCEPT !.status = "held",
                                                   !.estimate = estimate,
                                                   !.made = Windows(u)]]
        /\ phase' = [phase EXCEPT ![c] = IF heard THEN "calling" ELSE "done"]
        /\ UNCHANGED <<day, reap, warnings>>

\* Over a daily or monthly cap: commitBlocked commits the transaction, and
\* with it the daily reset, and the call is refused.
ReserveBlocked(c, estimate) ==
    LET u == DailyReset(usage)
    IN  /\ phase[c] = "idle"
        /\ MaxInputPerCall > 0 => estimate <= MaxInputPerCall
        /\ ~ (/\ CheckCap(u.today, Debit(estimate), DailyCap)
              /\ CheckCap(u.month, Debit(estimate), MonthlyCap))
        /\ usage' = u
        /\ phase' = [phase EXCEPT ![c] = "done"]
        /\ UNCHANGED <<day, res, reap, warnings>>

\* Nothing was written: a prompt above the per-call cap, a policy or user
\* lookup that failed, a transaction rolled back, an unreachable gateway.
\* The engine fails closed.
ReserveFails(c) ==
    /\ phase[c] = "idle"
    /\ phase' = [phase EXCEPT ![c] = "done"]
    /\ UNCHANGED <<day, usage, res, reap, warnings>>

\* The LLM answers; the engine sends the commit.
LLMAnswers(c) ==
    /\ phase[c] = "calling"
    /\ phase' = [phase EXCEPT ![c] = "commit"]
    /\ UNCHANGED <<day, usage, res, reap, warnings>>

\* The retries are exhausted or the answer is truncated: a refund is sent.
LLMFails(c) ==
    /\ phase[c] = "calling"
    /\ phase' = [phase EXCEPT ![c] = "refund"]
    /\ UNCHANGED <<day, usage, res, reap, warnings>>

\* The engine dies during the call, or a settlement never arrives: commit()
\* and refund() log their transport errors and do not retry.
SettlementLost(c) ==
    /\ phase[c] \in {"calling", "commit", "refund"}
    /\ phase' = [phase EXCEPT ![c] = "done"]
    /\ UNCHANGED <<day, usage, res, reap, warnings>>

-----------------------------------------------------------------------------
\* ceilDiv(limit, softCapPercent); 0 when the dimension has no limit.
SoftCapThreshold(d) == (MonthlyCap[d] * SoftCapPercent + 99) \div 100

SoftCapCrossed(month) ==
    /\ SoftCapPercent \in 1..100
    /\ \E d \in Dims : MonthlyCap[d] > 0 /\ month[d] >= SoftCapThreshold(d)

\* The row after its settlement; expires_at no longer matters.
Settled(row, status, actual) ==
    [row EXCEPT !.status = status, !.actual = actual, !.expired = FALSE,
                !.settled = Windows(usage)]

\* CommitLLMTokens of a reservation that is still held.  known = FALSE: the
\* handler could not resolve the tier's policy, which disables the soft cap.
CommitLLMTokens(c, actual, known) ==
    LET delta == Correction(res[c].estimate, actual)
        month == Adjust(usage.month, delta)
        warn  == known /\ ~usage.notified /\ SoftCapCrossed(month)
    IN  /\ res[c].status = "held"
        /\ usage' = [usage EXCEPT !.today = Adjust(usage.today, delta),
                                  !.month = month,
                                  !.notified = @ \/ warn]
        /\ res' = [res EXCEPT ![c] = Settled(@, "committed", actual)]
        /\ warnings' = IF warn THEN [warnings EXCEPT ![usage.window] = @ + 1]
                               ELSE warnings

MutRefundLLMTokens(c) ==
    LET back == Negated(Debit(res[c].estimate))
    IN  /\ usage' = [usage EXCEPT !.today = Adjust(usage.today, back),
                                  !.month = Adjust(usage.month, back)]
        /\ res' = [res EXCEPT ![c] = Settled(@, "refunded", Zero)]
        /\ UNCHANGED warnings

\* RefundLLMTokens of a reservation that is still held.
RefundLLMTokens(c) ==
    LET back == Negated(Debit(res[c].estimate))
    IN  /\ res[c].status = "held"
        /\ usage' = [usage EXCEPT !.today = Adjust(usage.today, back),
                                  !.month = Adjust(usage.month, back)]
        /\ res' = [res EXCEPT ![c] = Settled(@, "refunded", Zero)]
        /\ UNCHANGED warnings

\* Both are no-ops on a reservation that is already settled.
AlreadySettled(c) ==
    /\ res[c].status # "held"
    /\ UNCHANGED <<usage, res, warnings>>

\* The gateway handles a commit with the real token counts, perhaps long
\* after its sender gave up.
HandleCommit(c, actual, known) ==
    /\ phase[c] = "commit"
    /\ CommitLLMTokens(c, actual, known) \/ AlreadySettled(c)
    /\ phase' = [phase EXCEPT ![c] = "done"]
    /\ UNCHANGED <<day, reap>>

HandleRefund(c) ==
    /\ phase[c] = "refund"
    /\ RefundLLMTokens(c) \/ AlreadySettled(c)
    /\ phase' = [phase EXCEPT ![c] = "done"]
    /\ UNCHANGED <<day, reap>>

\* expires_at passes.  Nothing stops the LLM call that still runs.
Expire(c) ==
    /\ res[c].status = "held" /\ ~res[c].expired
    /\ res' = [res EXCEPT ![c].expired = TRUE]
    /\ UNCHANGED <<day, usage, phase, reap, warnings>>

MutStale == {c \in Calls : res[c].status = "held" /\ ~res[c].expired}

\* status = 'held' AND expires_at <= NOW()
Stale == {c \in Calls : res[c].status = "held" /\ res[c].expired}

\* The janitor reads a batch of ids.  Which of the stale rows are the oldest
\* is left open.
JanitorScan ==
    /\ reap = {} /\ Stale # {}
    /\ reap' \in kSubset(Min({ReapLimit, Cardinality(Stale)}), Stale)
    /\ UNCHANGED <<day, usage, res, phase, warnings>>

\* ... and refunds them one by one, each in its own transaction.
JanitorRefund(c) ==
    /\ c \in reap
    /\ RefundLLMTokens(c) \/ AlreadySettled(c)
    /\ reap' = reap \ {c}
    /\ UNCHANGED <<day, phase>>

\* A refund that fails ends the pass; the next tick reads the ids again.
JanitorFails ==
    /\ reap # {}
    /\ reap' = {}
    /\ UNCHANGED <<day, usage, res, phase, warnings>>

-----------------------------------------------------------------------------
Midnight ==
    /\ day < MaxDay
    /\ day' = day + 1
    /\ UNCHANGED <<usage, res, phase, reap, warnings>>

\* GetOrUpdateUsage, which the execution service runs whenever a watcher of
\* the user is armed or ends: it moves last_reset_at, and of the daily
\* counters it resets only analyses_today.
GetOrUpdateUsage ==
    /\ usage.stamp < day
    /\ usage' = [usage EXCEPT !.stamp = day]
    /\ UNCHANGED <<day, res, phase, reap, warnings>>

MutMonthlyReset(windowStart) ==
    /\ usage' = [usage EXCEPT !.month = Zero, !.window = windowStart,
                              !.notified = FALSE]
    /\ UNCHANGED <<day, res, phase, reap, warnings>>

\* The event of a renewal, or the demotion of an expired subscription, dated
\* windowStart is applied: twice, after a later one, or never.
MonthlyReset(windowStart) ==
    /\ usage' = IF windowStart > usage.window
                THEN [usage EXCEPT !.month = Zero, !.window = windowStart,
                                   !.notified = FALSE]
                ELSE usage
    /\ UNCHANGED <<day, res, phase, reap, warnings>>

Next ==
    \/ \E c \in Calls :
        \/ \E n \in Estimates, heard \in BOOLEAN : Reserve(c, n, heard)
        \/ \E n \in Estimates : ReserveBlocked(c, n)
        \/ ReserveFails(c)
        \/ LLMAnswers(c)
        \/ LLMFails(c)
        \/ SettlementLost(c)
        \/ \E n \in InputSizes, k \in OutputSizes, known \in BOOLEAN :
                HandleCommit(c, [input |-> n, output |-> k], known)
        \/ HandleRefund(c)
        \/ Expire(c)
        \/ JanitorRefund(c)
    \/ JanitorScan
    \/ JanitorFails
    \/ Midnight
    \/ GetOrUpdateUsage
    \/ \E w \in 1..MaxPeriod : MonthlyReset(w)

\* Time passes, so a TTL that is due elapses; the reconciler ticks; and a
\* refund it keeps trying goes through in the end.  Nothing is assumed of
\* the engine, of the LLM or of the delivery of a settlement.
Fairness ==
    /\ \A c \in Calls : WF_vars(Expire(c)) /\ SF_vars(JanitorRefund(c))
    /\ WF_vars(JanitorScan)

Spec == Init /\ [][Next]_vars
FairSpec == Spec /\ Fairness

-----------------------------------------------------------------------------
Rows == [status : {"none", "held", "committed", "refunded"},
         estimate : Nat, actual : [Dims -> Nat], expired : BOOLEAN,
         made : Nat \X Nat, settled : Nat \X Nat]

\* Every variable keeps its type.  For the counters this is the purpose of
\* the GREATEST(0, ...) clamps: no settlement drives one below zero.
TypeOK ==
    /\ day \in 0..MaxDay
    /\ usage \in [today : [Dims -> Nat], month : [Dims -> Nat],
                  stamp : 0..MaxDay, window : 0..MaxPeriod, notified : BOOLEAN]
    /\ res \in [Calls -> Rows]
    /\ phase \in [Calls -> {"idle", "calling", "commit", "refund", "done"}]
    /\ reap \in SUBSET Calls
    /\ warnings \in [0..MaxPeriod -> Nat]

\* What a reservation stands for in the counters of its windows.
Charge(row, d) ==
    CASE row.status = "held" -> Debit(row.estimate)[d]
      [] row.status = "committed" -> IF d = "input" \/ row.actual[d] <= MaxOutput
                                     THEN row.actual[d] ELSE MaxOutput
      [] OTHER -> 0

\* The sum of the charges of the calls in S, as the number of tokens charged.
Total(S, d) == Cardinality(UNION {{c} \X (1..Charge(res[c], d)) : c \in S})

MadeToday == {c \in Calls : res[c].status # "none" /\ res[c].made[1] = usage.stamp}
MadeThisMonth == {c \in Calls : res[c].status # "none"
                                /\ res[c].made[2] = usage.window}

\* A reservation of an earlier day (i = 1) or monthly window (i = 2) was
\* settled against the counters of the current one.
SettledLate(i) ==
    \E c \in Calls : /\ res[c].status \in {"committed", "refunded"}
                     /\ res[c].made[i] < res[c].settled[i]
                     /\ res[c].settled[i] = Windows(usage)[i]

\* A month is never charged for more than the calls that were open or made in
\* it: a reset cannot leave a debit of an earlier window behind.  And as long
\* as no reservation of an earlier window has been settled in this one, the
\* monthly counters are exact: the sum of what the held reservations debit and
\* of what the committed ones really used, whatever the order of reserves,
\* commits, refunds, lost requests and janitor passes.
OpenOrMadeThisMonth ==
    {c \in Calls : \/ c \in MadeThisMonth
                   \/ res[c].status = "held"
                   \/ res[c].settled[2] = usage.window}
MonthIsExact ==
    \A d \in Dims :
        /\ usage.month[d] <= Total(OpenOrMadeThisMonth, d)
        /\ ~SettledLate(2) => usage.month[d] = Total(MadeThisMonth, d)

\* A reservation is admitted only if the calls of the day, and those of the
\* month, together stay within the caps, counting the calls still in flight
\* at their worst case (the check-and-debit of ReserveLLMTokens), as long as
\* nothing from an earlier window was settled in this one.
AdmittedWithinCaps ==
    [][\A c \in Calls :
        res[c].status = "none" /\ res'[c].status = "held" =>
            \A d \in Dims :
                /\ DailyCap[d] > 0 /\ ~SettledLate(1)' =>
                        Total(MadeToday, d)' <= DailyCap[d]
                /\ MonthlyCap[d] > 0 /\ ~SettledLate(2)' =>
                        Total(MadeThisMonth, d)' <= MonthlyCap[d]]_vars

\* The user is warned at most once per monthly window, however commits
\* interleave and however often or late a renewal's event is applied
\* (soft_cap_notified_at, the window guard of MonthlyReset).
SoftCapOncePerWindow == \A w \in 0..MaxPeriod : warnings[w] <= 1

\* Every reservation is settled in the end, also when the engine died, its
\* settlement was lost, or it never learned the reservation's id.
HeldIsSettled ==
    \A c \in Calls : res[c].status = "held" ~> res[c].status # "held"

\* Daily counters start a day empty: they hold no more than the calls that
\* were open or made on the day they stand for.
DayNotOvercharged ==
    \A d \in Dims :
        usage.today[d] <= Total({c \in Calls : \/ c \in MadeToday
                                               \/ res[c].status = "held"
                                               \/ res[c].settled[1] = usage.stamp}, d)

\* Calls of one user that are in flight together, reserved in the current
\* month, fit the monthly cap together.
ParallelCallsWithinCap ==
    \A d \in Dims :
        MonthlyCap[d] > 0 =>
            Total({c \in MadeThisMonth : res[c].status = "held"}, d) <= MonthlyCap[d]
=============================================================================
