------------------------- MODULE LLMMeteringProofs -------------------------
(***************************************************************************)
(* Results about LLMMetering for any number of calls, any token counts,    *)
(* caps and soft-cap percentage, and any number of windows: the types,     *)
(* that is, no counter ever goes below zero; that a window's soft-cap      *)
(* warning is sent at most once; that the monthly counters are exact; and  *)
(* that no reservation is admitted above a cap.  The last two rest on an   *)
(* invariant, LedgerInv, that relates the counters to the sum of what the  *)
(* reservations charge.  A sum is the cardinality of a set of cells, one   *)
(* for each token charged, so that it moves with one row without induction.*)
(***************************************************************************)
EXTENDS LLMMetering, FiniteSetTheorems, TLAPS

\* Most leaves are first-order; those that need arithmetic or records cite SMT.
USE ZenonT(30)

Counters == [Dims -> Nat]
Deltas == [Dims -> Int]
UsageRows == [today : Counters, month : Counters, stamp : 0..MaxDay,
              window : 0..MaxPeriod, notified : BOOLEAN]

\* The clamp GREATEST(0, x) yields a natural number.
LEMMA MaxZero == ASSUME NEW x \in Int PROVE Max({0, x}) \in Nat
<1>1. \E m \in {0, x} : \A y \in {0, x} : m >= y
  BY SMTT(30)
<1>2. /\ Max({0, x}) \in {0, x}
      /\ \A y \in {0, x} : Max({0, x}) >= y
  BY <1>1 DEF Max
<1> QED
  BY SMTT(30), <1>2

\* Adjust, the arithmetic of every counter update, keeps counters natural.
LEMMA AdjustType ==
    ASSUME NEW k \in Counters, NEW delta \in Deltas
    PROVE  Adjust(k, delta) \in Counters
<1>1. \A d \in Dims : Max({0, k[d] + delta[d]}) \in Nat
  <2>1. TAKE d \in Dims
  <2>2. k[d] + delta[d] \in Int
    BY SMTT(30) DEF Counters, Deltas
  <2> QED
    BY <2>2, MaxZero
<1> QED
  BY <1>1 DEF Adjust, Counters

\* What a reservation debits, and what a settlement changes.
LEMMA DeltaTypes ==
    ASSUME NEW n \in Nat,
           NEW a \in [input : Nat, output : Nat]
    PROVE  /\ Debit(n) \in Deltas
           /\ Negated(Debit(n)) \in Deltas
           /\ Correction(n, a) \in Deltas
           /\ [input |-> a.input, output |-> a.output] \in Counters
<1> USE MeteringConfig
<1>1. Debit(n) \in Deltas
  BY SMTT(30) DEF Debit, Deltas
<1>2. Negated(Debit(n)) \in Deltas
  BY SMTT(30), <1>1 DEF Negated, Deltas
<1>3. Max({0, MaxOutput - a.output}) \in Nat
  BY SMTT(30), MaxZero
<1>4. Correction(n, a) \in Deltas
  BY SMTT(30), <1>3 DEF Correction, Deltas
<1> QED
  BY <1>1, <1>2, <1>4 DEF Counters, Dims

-----------------------------------------------------------------------------
\* The effect of a settlement, whoever asks for it.
LEMMA SettlementTypes ==
    ASSUME TypeOK, NEW c \in Calls,
           NEW a \in [input : Nat, output : Nat], NEW known \in BOOLEAN,
           \/ CommitLLMTokens(c, a, known)
           \/ RefundLLMTokens(c)
           \/ AlreadySettled(c)
    PROVE  /\ usage' \in UsageRows
           /\ res' \in [Calls -> Rows]
           /\ warnings' \in [0..MaxPeriod -> Nat]
<1>0. /\ usage \in UsageRows /\ res \in [Calls -> Rows]
      /\ warnings \in [0..MaxPeriod -> Nat]
      /\ res[c] \in Rows /\ res[c].estimate \in Nat
  BY DEF TypeOK, UsageRows, Counters, Rows
<1>1. /\ usage.today \in Counters /\ usage.month \in Counters
      /\ usage.window \in 0..MaxPeriod /\ Windows(usage) \in Nat \X Nat
  BY SMTT(30), <1>0, MeteringConfig DEF UsageRows, Windows
<1>2. Zero \in Counters /\ a \in Counters
  <2>1. a = [input |-> a.input, output |-> a.output]
    OBVIOUS
  <2> QED
    BY <2>1, <1>0, DeltaTypes DEF Zero, Counters
<1>3. \A s \in {"committed", "refunded"}, x \in Counters :
        [res EXCEPT ![c] = Settled(@, s, x)] \in [Calls -> Rows]
  <2>1. ASSUME NEW s \in {"committed", "refunded"}, NEW x \in Counters
        PROVE  Settled(res[c], s, x) \in Rows
    BY <1>0, <1>1 DEF Settled, Rows, Counters
  <2> QED
    BY <2>1, <1>0
<1>4. CASE CommitLLMTokens(c, a, known)
  <2> DEFINE delta == Correction(res[c].estimate, a)
             month == Adjust(usage.month, delta)
             warn == known /\ ~usage.notified /\ SoftCapCrossed(month)
  <2>1. month \in Counters /\ Adjust(usage.today, delta) \in Counters
    BY <1>0, <1>1, AdjustType, DeltaTypes
  <2>2. usage' = [usage EXCEPT !.today = Adjust(usage.today, delta),
                               !.month = month,
                               !.notified = @ \/ warn]
    BY <1>4 DEF CommitLLMTokens
  <2>3. (usage.notified \/ warn) \in BOOLEAN
    OBVIOUS
  <2> HIDE DEF delta, month, warn
  <2>4. usage' \in UsageRows
    BY <2>1, <2>2, <2>3, <1>0 DEF UsageRows
  <2>5. res' \in [Calls -> Rows]
    BY <1>2, <1>3, <1>4 DEF CommitLLMTokens
  <2>6. warnings' = warnings \/ warnings' = [warnings EXCEPT ![usage.window] = @ + 1]
    BY <1>4 DEF CommitLLMTokens
  <2>7. warnings' \in [0..MaxPeriod -> Nat]
    BY SMTT(30), <2>6, <1>0, <1>1
  <2> QED
    BY <2>4, <2>5, <2>7
<1>5. CASE RefundLLMTokens(c)
  <2> DEFINE back == Negated(Debit(res[c].estimate))
  <2>1. Adjust(usage.today, back) \in Counters /\ Adjust(usage.month, back) \in Counters
    BY <1>0, <1>1, AdjustType, DeltaTypes
  <2>2. usage' = [usage EXCEPT !.today = Adjust(usage.today, back),
                               !.month = Adjust(usage.month, back)]
    BY <1>5 DEF RefundLLMTokens
  <2>3. usage' \in UsageRows
    BY <2>1, <2>2, <1>0 DEF UsageRows
  <2>4. res' \in [Calls -> Rows]
    BY <1>2, <1>3, <1>5 DEF RefundLLMTokens
  <2> QED
    BY <2>3, <2>4, <1>0, <1>5 DEF RefundLLMTokens
<1>6. CASE AlreadySettled(c)
  BY <1>0, <1>6 DEF AlreadySettled
<1> QED
  BY <1>4, <1>5, <1>6
-----------------------------------------------------------------------------
\* The types hold initially.
LEMMA TypeInit == Init => TypeOK
<1> SUFFICES ASSUME Init PROVE TypeOK
  OBVIOUS
<1>1. Zero \in [Dims -> Nat]
  BY DEF Zero
<1>2. NoRow \in Rows
  BY <1>1 DEF NoRow, Rows
<1> QED
  BY SMTT(30), <1>1, <1>2, MeteringConfig DEF Init, TypeOK

\* The daily reset of the upsert keeps the row's type.
LEMMA DailyResetType ==
    ASSUME NEW u \in UsageRows, day \in 0..MaxDay
    PROVE  /\ DailyReset(u) \in UsageRows
           /\ Windows(DailyReset(u)) \in Nat \X Nat
<1>1. Zero \in Counters
  BY DEF Zero, Counters
<1>2. [u EXCEPT !.today = Zero, !.stamp = day] \in UsageRows
  BY <1>1 DEF UsageRows
<1>3. DailyReset(u) \in UsageRows
  BY <1>2 DEF DailyReset
<1>4. ASSUME NEW v \in UsageRows PROVE v.stamp \in Nat /\ v.window \in Nat
  BY SMTT(30), MeteringConfig DEF UsageRows
<1> QED
  BY <1>3, <1>4 DEF Windows

\* Every step keeps the types: the counters are only changed by Adjust and
\* by being set to zero.
LEMMA TypeNext == TypeOK /\ [Next]_vars => TypeOK'
<1> DEFINE Phases == {"idle", "calling", "commit", "refund", "done"}
           Typed == /\ day \in 0..MaxDay
                    /\ usage \in UsageRows /\ res \in [Calls -> Rows]
                    /\ phase \in [Calls -> Phases]
                    /\ reap \in SUBSET Calls
                    /\ warnings \in [0..MaxPeriod -> Nat]
<1>t. (TypeOK <=> Typed) /\ (TypeOK' <=> Typed')
  BY DEF TypeOK, UsageRows, Counters
<1> SUFFICES ASSUME TypeOK, Typed, [Next]_vars PROVE Typed'
  BY <1>t
<1>1. ASSUME NEW c \in Calls, NEW n \in Estimates, NEW heard \in BOOLEAN,
             Reserve(c, n, heard)
      PROVE  Typed'
  <2> DEFINE u == DailyReset(usage)
  <2>1. /\ u \in UsageRows /\ u.today \in Counters /\ u.month \in Counters
        /\ Windows(u) \in Nat \X Nat
    <3>1. u \in UsageRows /\ Windows(u) \in Nat \X Nat
      BY DailyResetType
    <3> HIDE DEF u
    <3> QED
      BY <3>1 DEF UsageRows
  <2>2. n \in Nat /\ Debit(n) \in Deltas
    BY SMTT(30), MeteringConfig DEF Debit, Deltas
  <2>3. Adjust(u.today, Debit(n)) \in Counters /\ Adjust(u.month, Debit(n)) \in Counters
    BY <2>1, <2>2, AdjustType
  <2>4. /\ usage' = [u EXCEPT !.today = Adjust(u.today, Debit(n)),
                              !.month = Adjust(u.month, Debit(n))]
        /\ res' = [res EXCEPT ![c] = [NoRow EXCEPT !.status = "held",
                                                   !.estimate = n,
                                                   !.made = Windows(u)]]
    BY <1>1 DEF Reserve
  <2> HIDE DEF u
  <2>5. usage' \in UsageRows
    BY <2>1, <2>3, <2>4 DEF UsageRows
  <2>6. [NoRow EXCEPT !.status = "held", !.estimate = n, !.made = Windows(u)] \in Rows
    <3>1. NoRow \in Rows
      BY DEF NoRow, Rows, Zero
    <3> QED
      BY <3>1, <2>1, <2>2 DEF Rows
  <2>7. res' \in [Calls -> Rows]
    BY <2>4, <2>6
  <2>8. /\ phase' \in [Calls -> Phases]
        /\ day' = day /\ reap' = reap /\ warnings' = warnings
    BY <1>1 DEF Reserve
  <2> QED
    BY <2>5, <2>7, <2>8
<1>2. ASSUME NEW c \in Calls, NEW n \in Estimates, ReserveBlocked(c, n)
      PROVE  Typed'
  <2>1. usage' \in UsageRows
    BY <1>2, DailyResetType DEF ReserveBlocked
  <2> QED
    BY <2>1, <1>2 DEF ReserveBlocked
<1>3. ASSUME NEW c \in Calls,
             \/ ReserveFails(c) \/ LLMAnswers(c) \/ LLMFails(c) \/ SettlementLost(c)
      PROVE  Typed'
  BY <1>3 DEF ReserveFails, LLMAnswers, LLMFails, SettlementLost
<1>4. ASSUME NEW c \in Calls, NEW a \in [input : Nat, output : Nat],
             NEW known \in BOOLEAN,
             HandleCommit(c, a, known) \/ HandleRefund(c) \/ JanitorRefund(c)
      PROVE  Typed'
  <2>1. CommitLLMTokens(c, a, known) \/ RefundLLMTokens(c) \/ AlreadySettled(c)
    BY <1>4 DEF HandleCommit, HandleRefund, JanitorRefund
  <2>2. /\ usage' \in UsageRows /\ res' \in [Calls -> Rows]
        /\ warnings' \in [0..MaxPeriod -> Nat]
    BY SMTT(30), <2>1, SettlementTypes
  <2>3. /\ day' = day
        /\ phase' = phase \/ phase' = [phase EXCEPT ![c] = "done"]
        /\ reap' = reap \/ reap' = reap \ {c}
    BY <1>4 DEF HandleCommit, HandleRefund, JanitorRefund
  <2> QED
    BY <2>2, <2>3
<1>5. ASSUME NEW c \in Calls, Expire(c) PROVE Typed'
  <2>1. res[c] \in Rows
    OBVIOUS
  <2>2. [res[c] EXCEPT !.expired = TRUE] \in Rows
    BY <2>1 DEF Rows
  <2>3. res' = [res EXCEPT ![c] = [res[c] EXCEPT !.expired = TRUE]]
    BY <1>5 DEF Expire
  <2>4. res' \in [Calls -> Rows]
    BY <2>2, <2>3
  <2> QED
    BY <2>4, <1>5 DEF Expire
<1>6. ASSUME JanitorScan \/ JanitorFails PROVE Typed'
  <2>1. reap' \subseteq Calls
    BY <1>6 DEF JanitorScan, JanitorFails, kSubset, Stale
  <2> QED
    BY <2>1, <1>6 DEF JanitorScan, JanitorFails
<1>7. CASE Midnight
  BY SMTT(30), <1>7, MeteringConfig DEF Midnight
<1>8. CASE GetOrUpdateUsage
  <2>1. [usage EXCEPT !.stamp = day] \in UsageRows
    BY DEF UsageRows
  <2> QED
    BY <2>1, <1>8 DEF GetOrUpdateUsage
<1>9. ASSUME NEW w \in 1..MaxPeriod, MonthlyReset(w) PROVE Typed'
  <2>1. w \in 0..MaxPeriod /\ Zero \in Counters
    BY SMTT(30), MeteringConfig DEF Zero, Counters
  <2>2. [usage EXCEPT !.month = Zero, !.window = w, !.notified = FALSE] \in UsageRows
    BY <2>1 DEF UsageRows
  <2> QED
    BY <2>2, <1>9 DEF MonthlyReset
<1>10. CASE UNCHANGED vars
  BY <1>10 DEF vars
<1>11. \A n \in InputSizes, k \in OutputSizes :
        [input |-> n, output |-> k] \in [input : Nat, output : Nat]
  BY MeteringConfig
<1> HIDE DEF Typed
<1>12. ASSUME NEW c \in Calls, HandleRefund(c) \/ JanitorRefund(c) PROVE Typed'
  <2>1. [input |-> 0, output |-> 0] \in [input : Nat, output : Nat] /\ TRUE \in BOOLEAN
    OBVIOUS
  <2> QED
    BY <2>1, <1>4, <1>12
<1> QED
  BY <1>1, <1>2, <1>3, <1>4, <1>5, <1>6, <1>7, <1>8, <1>9, <1>10, <1>11, <1>12 DEF Next
-----------------------------------------------------------------------------
\* SoftCapOncePerWindow is not inductive: it needs that an unwarned row
\* stands for a window without a warning, and that windows the row has not
\* reached have none, which is what the guard of MonthlyReset protects.
WarnedInv ==
    /\ \A w \in 0..MaxPeriod : warnings[w] <= 1
    /\ ~usage.notified => warnings[usage.window] = 0
    /\ \A w \in 0..MaxPeriod : w > usage.window => warnings[w] = 0

\* Every step preserves it.
LEMMA WarnedNext == TypeOK /\ WarnedInv /\ [Next]_vars => WarnedInv'
<1> SUFFICES ASSUME TypeOK, WarnedInv, [Next]_vars PROVE WarnedInv'
  OBVIOUS
<1>0. /\ usage.window \in 0..MaxPeriod /\ usage.notified \in BOOLEAN
      /\ warnings \in [0..MaxPeriod -> Nat]
      /\ usage \in UsageRows
  BY DEF TypeOK, UsageRows, Counters
<1>1. ASSUME /\ usage'.window = usage.window
             /\ usage'.notified = usage.notified
             /\ warnings' = warnings
      PROVE  WarnedInv'
  BY <1>1 DEF WarnedInv
<1>2. \A u \in UsageRows : /\ DailyReset(u).window = u.window
                           /\ DailyReset(u).notified = u.notified
                           /\ DailyReset(u) = [DailyReset(u) EXCEPT !.today = @]
  BY DEF DailyReset, UsageRows
<1>3. ASSUME NEW c \in Calls, NEW n \in Estimates, NEW heard \in BOOLEAN,
             Reserve(c, n, heard)
      PROVE  WarnedInv'
  <2> DEFINE u == DailyReset(usage)
  <2>1. u \in UsageRows
    BY <1>0, DailyResetType DEF TypeOK
  <2>2. u.window = usage.window /\ u.notified = usage.notified
    BY <1>0, <1>2
  <2>3. /\ usage' = [u EXCEPT !.today = Adjust(u.today, Debit(n)),
                              !.month = Adjust(u.month, Debit(n))]
        /\ warnings' = warnings
    BY <1>3 DEF Reserve
  <2> HIDE DEF u
  <2> QED
    BY <1>1, <2>1, <2>2, <2>3 DEF UsageRows
<1>4. ASSUME NEW c \in Calls, NEW n \in Estimates, ReserveBlocked(c, n)
      PROVE  WarnedInv'
  BY <1>0, <1>1, <1>2, <1>4 DEF ReserveBlocked
<1>5. ASSUME NEW c \in Calls,
             \/ ReserveFails(c) \/ LLMAnswers(c) \/ LLMFails(c)
             \/ SettlementLost(c) \/ Expire(c)
      PROVE  WarnedInv'
  BY <1>1, <1>5 DEF ReserveFails, LLMAnswers, LLMFails, SettlementLost, Expire
<1>6. ASSUME JanitorScan \/ JanitorFails \/ Midnight PROVE WarnedInv'
  BY <1>1, <1>6 DEF JanitorScan, JanitorFails, Midnight
<1>7. CASE GetOrUpdateUsage
  BY <1>0, <1>1, <1>7 DEF GetOrUpdateUsage, UsageRows
<1>8. ASSUME NEW c \in Calls, RefundLLMTokens(c) \/ AlreadySettled(c)
      PROVE  WarnedInv'
  BY <1>0, <1>1, <1>8 DEF RefundLLMTokens, AlreadySettled, UsageRows
<1>9. ASSUME NEW c \in Calls, NEW a, NEW known \in BOOLEAN,
             CommitLLMTokens(c, a, known)
      PROVE  WarnedInv'
  <2> DEFINE delta == Correction(res[c].estimate, a)
             month == Adjust(usage.month, delta)
             warn == known /\ ~usage.notified /\ SoftCapCrossed(month)
  <2>1. /\ usage' = [usage EXCEPT !.today = Adjust(usage.today, delta),
                                  !.month = month,
                                  !.notified = @ \/ warn]
        /\ warnings' = IF warn THEN [warnings EXCEPT ![usage.window] = @ + 1]
                               ELSE warnings
    BY <1>9 DEF CommitLLMTokens
  <2>2. warn => ~usage.notified
    OBVIOUS
  <2> HIDE DEF delta, month, warn
  <2>3. usage'.window = usage.window /\ usage'.notified = (usage.notified \/ warn)
    BY <2>1, <1>0 DEF UsageRows
  <2>4. CASE warn
    <3>1. /\ warnings' = [warnings EXCEPT ![usage.window] = @ + 1]
          /\ warnings[usage.window] = 0
          /\ usage'.notified
      BY <2>1, <2>2, <2>3, <2>4 DEF WarnedInv
    <3> QED
      BY SMTT(30), <3>1, <2>3, <1>0 DEF WarnedInv
  <2>5. CASE ~warn
    BY <2>1, <2>3, <2>5, <1>0, <1>1
  <2> QED
    BY <2>4, <2>5
<1>10. ASSUME NEW w \in 1..MaxPeriod, MonthlyReset(w) PROVE WarnedInv'
  <2>1. CASE w > usage.window
    <3>1. usage'.window = w /\ usage'.notified = FALSE /\ warnings' = warnings
      BY <1>0, <1>10, <2>1 DEF MonthlyReset, UsageRows
    <3>2. w \in 0..MaxPeriod
      BY SMTT(30), MeteringConfig
    <3>3. warnings'[usage'.window] = 0
      BY <3>1, <3>2, <2>1 DEF WarnedInv
    <3>4. ASSUME NEW x \in 0..MaxPeriod
          PROVE  warnings'[x] <= 1 /\ (x > usage'.window => warnings'[x] = 0)
      <4>1. x > w => x > usage.window
        BY SMTT(30), <1>0, <2>1, MeteringConfig
      <4> QED
        BY <4>1, <3>1 DEF WarnedInv
    <3> QED
      BY <3>3, <3>4 DEF WarnedInv
  <2>2. CASE ~(w > usage.window)
    BY <1>1, <1>10, <2>2 DEF MonthlyReset
  <2> QED
    BY <2>1, <2>2
<1>11. CASE UNCHANGED vars
  BY <1>1, <1>11 DEF vars
<1> QED
  BY <1>3, <1>4, <1>5, <1>6, <1>7, <1>8, <1>9, <1>10, <1>11
     DEF Next, HandleCommit, HandleRefund, JanitorRefund

-----------------------------------------------------------------------------
\* Every variable keeps its type: in particular no counter of billing_usage
\* goes below zero, whatever is settled in whichever window.
THEOREM TypeCorrect == Spec => []TypeOK
<1> QED
  BY TypeInit, TypeNext, PTL DEF Spec

\* A user is warned at most once per monthly window, for any number of
\* concurrent calls and any order and repetition of the renewal events.
THEOREM SoftCapOnce == Spec => []SoftCapOncePerWindow
<1>1. Init => WarnedInv
  BY SMTT(30), MeteringConfig DEF Init, WarnedInv
<1>2. WarnedInv => SoftCapOncePerWindow
  BY DEF WarnedInv, SoftCapOncePerWindow
<1> QED
  BY TypeInit, TypeNext, WarnedNext, <1>1, <1>2, PTL DEF Spec
-----------------------------------------------------------------------------
(* Sums of charges, of a table of reservations t over a set of calls S *)

Cells(t, S, d) == UNION {{c} \X (1..Charge(t[c], d)) : c \in S}
Sum(t, S, d) == Cardinality(Cells(t, S, d))
Tables == [Calls -> Rows]

\* A clamped sum: GREATEST(0, x) in the store's updates.
LEMMA Clamped == ASSUME NEW x \in Int PROVE Max({0, x}) = IF x >= 0 THEN x ELSE 0
<1>1. \E m \in {0, x} : \A y \in {0, x} : m >= y
  BY SMTT(30)
<1>2. /\ Max({0, x}) \in {0, x}
      /\ \A y \in {0, x} : Max({0, x}) >= y
  BY <1>1 DEF Max
<1> QED
  BY SMTT(30), <1>2

\* A reservation's charge is a number of tokens.
LEMMA ChargeType ==
    ASSUME NEW row \in Rows, NEW d \in Dims
    PROVE  Charge(row, d) \in Nat
BY MeteringConfig DEF Charge, Rows, Debit, Dims

\* The tokens of one reservation.
LEMMA CellSize ==
    ASSUME NEW c, NEW n \in Nat
    PROVE  IsFiniteSet({c} \X (1..n)) /\ Cardinality({c} \X (1..n)) = n
<1> DEFINE A == {c}
           B == 1..n
<1>1. IsFiniteSet(A) /\ Cardinality(A) = 1
  BY FS_Singleton
<1>2. IsFiniteSet(B) /\ Cardinality(B) = n
  BY SMTT(30), FS_Interval
<1> HIDE DEF A, B
<1>3. IsFiniteSet(A \X B) /\ Cardinality(A \X B) = Cardinality(A) * Cardinality(B)
  BY <1>1, <1>2, FS_Product
<1>4. IsFiniteSet(A \X B) /\ Cardinality(A \X B) = n
  BY SMTT(30), <1>1, <1>2, <1>3
<1> QED
  BY <1>4 DEF A, B

\* Finitely many reservations charge finitely many tokens.
LEMMA SumType ==
    ASSUME NEW t \in Tables, NEW S \in SUBSET Calls, NEW d \in Dims
    PROVE  IsFiniteSet(Cells(t, S, d)) /\ Sum(t, S, d) \in Nat
<1> DEFINE f == [c \in S |-> {c} \X (1..Charge(t[c], d))]
           T == {{c} \X (1..Charge(t[c], d)) : c \in S}
<1>1. IsFiniteSet(S)
  BY MeteringConfig, FS_Subset
<1>2. f \in Surjection(S, T)
  BY DEF Surjection
<1>3. IsFiniteSet(T)
  BY <1>1, <1>2, FS_Surjection
<1>4. \A u \in T : IsFiniteSet(u)
  <2> TAKE u \in T
  <2>1. PICK c \in S : u = {c} \X (1..Charge(t[c], d))
    OBVIOUS
  <2>2. Charge(t[c], d) \in Nat
    BY ChargeType DEF Tables
  <2> QED
    BY <2>1, <2>2, CellSize
<1>5. IsFiniteSet(UNION T)
  BY <1>3, <1>4, FS_UNION
<1> QED
  BY <1>5, FS_CardinalityType DEF Cells, Sum

\* No reservation, no tokens.
LEMMA SumEmpty ==
    ASSUME NEW t, NEW d
    PROVE  Sum(t, {}, d) = 0
<1>1. Cells(t, {}, d) = {}
  BY DEF Cells
<1> QED
  BY <1>1, FS_EmptySet DEF Sum

\* The sum over one call more.
LEMMA SumAdd ==
    ASSUME NEW t \in Tables, NEW S \in SUBSET Calls, NEW c \in Calls \ S, NEW d \in Dims
    PROVE  Sum(t, S \cup {c}, d) = Sum(t, S, d) + Charge(t[c], d)
<1> DEFINE n == Charge(t[c], d)
           A == Cells(t, S, d)
           B == {c} \X (1..n)
<1>1. n \in Nat
  BY ChargeType DEF Tables
<1>2. IsFiniteSet(B) /\ Cardinality(B) = n
  BY <1>1, CellSize
<1>3. IsFiniteSet(A) /\ Cardinality(A) \in Nat
  BY SumType DEF Sum
<1>4. Cells(t, S \cup {c}, d) = A \cup B
  BY DEF Cells
<1>5. A \cap B = {}
  BY SMTT(30) DEF Cells
<1> HIDE DEF A, B, n
<1>6. Cardinality(A \cup B) = Cardinality(A) + n - Cardinality({})
  BY <1>2, <1>3, <1>5, FS_Union
<1>7. Cardinality(A \cup B) = Cardinality(A) + n
  BY SMTT(30), <1>1, <1>3, <1>6, FS_EmptySet
<1> QED
  BY <1>4, <1>7 DEF Sum, A, n

\* The share of c in a sum.
Share(t, S, c, d) == IF c \in S THEN Charge(t[c], d) ELSE 0

\* When only c's row changes, a sum moves by its share.
LEMMA SumMoves ==
    ASSUME NEW t \in Tables, NEW u \in Tables, NEW c \in Calls, NEW d \in Dims,
           \A q \in Calls \ {c} : u[q] = t[q],
           NEW S \in SUBSET Calls, NEW U \in SUBSET Calls, S \ {c} = U \ {c}
    PROVE  \E rest \in Nat : /\ Sum(t, S, d) = rest + Share(t, S, c, d)
                             /\ Sum(u, U, d) = rest + Share(u, U, c, d)
<1> DEFINE V == S \ {c}
           rest == Sum(t, V, d)
<1>0. \A q \in V : u[q] = t[q]
  OBVIOUS
<1>1. V \in SUBSET Calls /\ c \in Calls \ V
  OBVIOUS
<1>2. rest \in Nat
  BY <1>1, SumType
<1>3. Sum(u, V, d) = rest
  <2>1. \A q \in V : Charge(u[q], d) = Charge(t[q], d)
    BY <1>0
  <2>2. Cells(u, V, d) = Cells(t, V, d)
    BY <2>1 DEF Cells
  <2> QED
    BY <2>2 DEF Sum
<1>4. ASSUME NEW w \in Tables, NEW W \in SUBSET Calls, W \ {c} = V, Sum(w, V, d) = rest
      PROVE  Sum(w, W, d) = rest + Share(w, W, c, d)
  <2>1. CASE c \in W
    <3>1. W = V \cup {c}
      BY <1>4, <2>1
    <3> HIDE DEF V, rest
    <3> QED
      BY SMTT(30), <1>1, <1>4, <2>1, <3>1, SumAdd DEF Share
  <2>2. CASE c \notin W
    <3>1. W = V
      BY <1>4, <2>2
    <3> HIDE DEF V, rest
    <3> QED
      BY SMTT(30), <1>2, <1>4, <2>2, <3>1 DEF Share
  <2> QED
    BY <2>1, <2>2
<1>5. Sum(t, S, d) = rest + Share(t, S, c, d) /\ Sum(u, U, d) = rest + Share(u, U, c, d)
  <2>1. Sum(t, S, d) = rest + Share(t, S, c, d)
    BY <1>4
  <2>2. U \ {c} = V
    OBVIOUS
  <2> HIDE DEF rest, V
  <2>3. Sum(u, U, d) = rest + Share(u, U, c, d)
    BY <1>0, <1>3, <1>4, <2>2
  <2> QED
    BY <2>1, <2>3
<1> QED
  BY <1>2, <1>5
-----------------------------------------------------------------------------
(* The books: what the counters of a usage row u say of the reservations t *)

Made(t, i, w) == {c \in Calls : t[c].status # "none" /\ t[c].made[i] = w}
Late(t, i, w) == \E c \in Calls : /\ t[c].status \in {"committed", "refunded"}
                                  /\ t[c].made[i] < t[c].settled[i]
                                  /\ t[c].settled[i] = w
Touched(t, w) == {c \in Calls : c \in Made(t, 2, w) \/ t[c].status = "held" \/ t[c].settled[2] = w}

\* No row is ahead of its windows.
Dated(row, u) ==
    /\ row.status # "none" => row.made[1] <= u.stamp /\ row.made[2] <= u.window
    /\ row.settled[1] <= u.stamp /\ row.settled[2] <= u.window

Books(t, u) ==
    /\ \A c \in Calls : Dated(t[c], u)
    /\ \A d \in Dims :
        /\ u.month[d] <= Sum(t, Touched(t, u.window), d)
        /\ ~Late(t, 2, u.window) => u.month[d] = Sum(t, Made(t, 2, u.window), d)
        /\ ~Late(t, 1, u.stamp) => Sum(t, Made(t, 1, u.stamp), d) <= u.today[d]

\* A new day: the counters are reset or, by GetOrUpdateUsage, only moved.
LEMMA BooksDay ==
    ASSUME NEW t \in Tables, NEW u \in UsageRows, NEW v \in UsageRows, Books(t, u),
           v.window = u.window, v.month = u.month,
           (v.stamp = u.stamp /\ v.today = u.today) \/ v.stamp > u.stamp
    PROVE  Books(t, v)
<1>0. /\ u.stamp \in Nat /\ v.stamp \in Nat /\ u.window \in Nat
      /\ v.today \in Counters /\ \A c \in Calls : t[c] \in Rows
  BY SMTT(30), MeteringConfig DEF UsageRows, Tables
<1>1. \A c \in Calls : /\ t[c].made[1] \in Nat /\ t[c].made[2] \in Nat
                       /\ t[c].settled[1] \in Nat /\ t[c].settled[2] \in Nat
  BY <1>0 DEF Rows
<1>2. \A c \in Calls : Dated(t[c], v)
  BY SMTT(30), <1>0, <1>1 DEF Books, Dated
<1>3. ASSUME NEW d \in Dims, ~Late(t, 1, v.stamp)
      PROVE  Sum(t, Made(t, 1, v.stamp), d) <= v.today[d]
  <2>1. CASE v.stamp = u.stamp /\ v.today = u.today
    BY <1>3, <2>1 DEF Books
  <2>2. CASE v.stamp > u.stamp
    <3>1. Made(t, 1, v.stamp) = {}
      BY SMTT(30), <1>0, <1>1, <2>2 DEF Made, Books, Dated
    <3>2. v.today[d] \in Nat
      BY <1>0 DEF Counters
    <3> QED
      BY SMTT(30), <3>1, <3>2, SumEmpty
  <2> QED
    BY <2>1, <2>2
<1> QED
  BY <1>2, <1>3 DEF Books

\* A new monthly window: its counters start at zero, and nothing is of it yet.
LEMMA BooksMonth ==
    ASSUME NEW t \in Tables, NEW u \in UsageRows, NEW v \in UsageRows, Books(t, u),
           v.window > u.window, v.month = Zero, v.stamp = u.stamp, v.today = u.today
    PROVE  Books(t, v)
<1>0. /\ u.stamp \in Nat /\ u.window \in Nat /\ v.window \in Nat
      /\ \A c \in Calls : t[c] \in Rows
  BY SMTT(30), MeteringConfig DEF UsageRows, Tables
<1>1. \A c \in Calls : /\ t[c].made[1] \in Nat /\ t[c].made[2] \in Nat
                       /\ t[c].settled[1] \in Nat /\ t[c].settled[2] \in Nat
  BY <1>0 DEF Rows
<1>2. \A c \in Calls : Dated(t[c], v)
  BY SMTT(30), <1>0, <1>1 DEF Books, Dated
<1>3. Made(t, 2, v.window) = {}
  BY SMTT(30), <1>0, <1>1 DEF Made, Books, Dated
<1>4. ASSUME NEW d \in Dims
      PROVE  /\ v.month[d] = 0
             /\ Sum(t, Made(t, 2, v.window), d) = 0
             /\ Sum(t, Touched(t, v.window), d) \in Nat
  <2>1. Touched(t, v.window) \in SUBSET Calls
    BY DEF Touched
  <2> QED
    BY <1>3, <2>1, SumEmpty, SumType DEF Zero
<1> QED
  BY SMTT(30), <1>2, <1>4 DEF Books

\* A row that changes as an operation of the store may change it: a reservation
\* is made in the current windows, a held one expires, or is settled in them.
Moves(x, y, u) ==
    /\ x.status \in {"none", "held"}
    /\ \/ /\ x.status = "none" /\ y.status = "held"
          /\ y.made = Windows(u) /\ y.settled = x.settled
       \/ /\ x.status = "held" /\ y.status = "held" /\ y.estimate = x.estimate
          /\ y.made = x.made /\ y.settled = x.settled
       \/ /\ x.status = "held" /\ y.status \in {"committed", "refunded"}
          /\ y.made = x.made /\ y.settled = Windows(u)

\* Every counter follows the change of the charge, and is kept above zero.
Follows(u, v, x, y) ==
    \A d \in Dims : LET by == Charge(y, d) - Charge(x, d)
                    IN /\ v.month[d] = Max({0, u.month[d] + by})
                       /\ v.today[d] = Max({0, u.today[d] + by})

\* The calls counted, apart from the one whose row changes, stay the same.
LEMMA CountedApart ==
    ASSUME NEW t, NEW s, NEW c \in Calls, \A q \in Calls \ {c} : s[q] = t[q],
           NEW i \in {1, 2}, NEW w
    PROVE  /\ Made(t, i, w) \in SUBSET Calls /\ Made(s, i, w) \in SUBSET Calls
           /\ Touched(t, w) \in SUBSET Calls /\ Touched(s, w) \in SUBSET Calls
           /\ Made(t, i, w) \ {c} = Made(s, i, w) \ {c}
           /\ Touched(t, w) \ {c} = Touched(s, w) \ {c}
<1>1. Made(t, i, w) \ {c} = Made(s, i, w) \ {c}
  BY DEF Made
<1>2. Touched(t, w) \ {c} = Touched(s, w) \ {c}
  BY DEF Made, Touched
<1> QED
  BY <1>1, <1>2 DEF Made, Touched

\* One row changes and the counters follow: the books stay right.
LEMMA BooksRow ==
    ASSUME NEW t \in Tables, NEW u \in UsageRows, NEW v \in UsageRows, NEW c \in Calls, NEW y \in Rows,
           Books(t, u), Moves(t[c], y, u), Follows(u, v, t[c], y),
           v.stamp = u.stamp, v.window = u.window
    PROVE  Books([t EXCEPT ![c] = y], v)
<1> DEFINE s == [t EXCEPT ![c] = y]
           x == t[c]
           At(i) == Windows(u)[i]
<1>0. s \in Tables /\ s[c] = y /\ (\A q \in Calls \ {c} : s[q] = t[q]) /\ x \in Rows
  BY DEF Tables
<1>1. /\ u.stamp \in Nat /\ u.window \in Nat
      /\ u.month \in Counters /\ u.today \in Counters
      /\ At(1) = u.stamp /\ At(2) = u.window
  BY SMTT(30), MeteringConfig DEF UsageRows, Windows
<1>2. /\ x.made[1] \in Nat /\ x.made[2] \in Nat /\ x.settled[1] \in Nat /\ x.settled[2] \in Nat
      /\ y.made[1] \in Nat /\ y.made[2] \in Nat /\ y.settled[1] \in Nat /\ y.settled[2] \in Nat
  BY <1>0 DEF Rows
<1>3. Dated(x, u) /\ Moves(x, y, u)
  BY DEF Books
<1> HIDE DEF s, x, At
<1>apart. ASSUME NEW i \in {1, 2}, NEW w
          PROVE  /\ Made(t, i, w) \in SUBSET Calls /\ Made(s, i, w) \in SUBSET Calls
                 /\ Touched(t, w) \in SUBSET Calls /\ Touched(s, w) \in SUBSET Calls
                 /\ Made(t, i, w) \ {c} = Made(s, i, w) \ {c}
                 /\ Touched(t, w) \ {c} = Touched(s, w) \ {c}
  BY SMTT(30), <1>0, CountedApart
<1>moves. ASSUME NEW S \in SUBSET Calls, NEW U \in SUBSET Calls, S \ {c} = U \ {c}, NEW d \in Dims
          PROVE  \E rest \in Nat : /\ Sum(t, S, d) = rest + Share(t, S, c, d)
                                   /\ Sum(s, U, d) = rest + Share(s, U, c, d)
  BY SMTT(30), <1>0, <1>moves, SumMoves
<1>4. \A q \in Calls : Dated(s[q], v)
  <2>1. Dated(y, v)
    BY SMTT(30), <1>1, <1>2, <1>3 DEF Dated, Moves, At
  <2>2. \A q \in Calls \ {c} : Dated(s[q], v)
    BY <1>0 DEF Books, Dated
  <2> QED
    BY <1>0, <2>1, <2>2
<1>5. ASSUME NEW i \in {1, 2}, ~Late(s, i, At(i)) PROVE ~Late(t, i, At(i))
  <2>1. x.status \notin {"committed", "refunded"}
    BY <1>3 DEF Moves
  <2> QED
    BY <1>0, <1>5, <2>1 DEF Late, x
<1>6. ASSUME NEW d \in Dims
      PROVE  LET Cx == Charge(x, d)
                 Cy == Charge(y, d)
             IN /\ Cx \in Nat /\ Cy \in Nat
                /\ x.status = "none" => Cx = 0
                /\ x.status = "held" /\ y.status = "held" => Cx = Cy
  <2>1. Charge(x, d) \in Nat /\ Charge(y, d) \in Nat
    BY <1>0, ChargeType
  <2>2. x.status = "none" => Charge(x, d) = 0
    BY DEF Charge
  <2>3. x.status = "held" /\ y.status = "held" => Charge(x, d) = Charge(y, d)
    BY <1>3 DEF Charge, Moves
  <2> QED
    BY <2>1, <2>2, <2>3
<1>7. ASSUME NEW d \in Dims
      PROVE  v.month[d] <= Sum(s, Touched(s, v.window), d)
  <2> DEFINE Cx == Charge(x, d)
             Cy == Charge(y, d)
             S == Touched(t, u.window)
             U == Touched(s, u.window)
  <2>1. Share(t, S, c, d) = Cx /\ Share(s, U, c, d) = Cy
    <3>1. x.status = "held" => c \in S
      BY DEF Touched, x
    <3>2. c \in U
      BY <1>0, <1>1, <1>3 DEF Touched, Moves, At
    <3>3. x.status = "held" \/ Cx = 0
      BY <1>3, <1>6 DEF Moves
    <3> QED
      BY <1>0, <3>1, <3>2, <3>3 DEF Share, x
  <2>2. PICK rest \in Nat : /\ Sum(t, S, d) = rest + Share(t, S, c, d)
                            /\ Sum(s, U, d) = rest + Share(s, U, c, d)
    <3>1. S \in SUBSET Calls /\ U \in SUBSET Calls /\ S \ {c} = U \ {c}
      BY <1>apart
    <3> HIDE DEF S, U
    <3> QED
      BY <1>moves, <3>1
  <2>3. v.month[d] = Max({0, u.month[d] + (Cy - Cx)}) /\ u.month[d] \in Nat
    BY <1>1 DEF Follows, Counters, x
  <2>4. u.month[d] <= Sum(t, S, d)
    BY DEF Books
  <2>5. Cx \in Nat /\ Cy \in Nat
    BY <1>6
  <2> HIDE DEF Cx, Cy, S, U
  <2>6. v.month[d] <= rest + Cy
    <3>1. u.month[d] + (Cy - Cx) \in Int /\ u.month[d] <= rest + Cx
      BY SMTT(30), <2>1, <2>2, <2>3, <2>4, <2>5
    <3>2. v.month[d] = IF u.month[d] + (Cy - Cx) >= 0 THEN u.month[d] + (Cy - Cx) ELSE 0
      BY <2>3, <3>1, Clamped
    <3> QED
      BY SMTT(30), <2>3, <2>5, <3>1, <3>2
  <2> QED
    BY <2>1, <2>2, <2>6 DEF U
<1>8. ASSUME NEW d \in Dims, NEW i \in {1, 2}, ~Late(s, i, At(i))
      PROVE  LET S == Share(t, Made(t, i, At(i)), c, d)
                 U == Share(s, Made(s, i, At(i)), c, d)
             IN S \in Nat /\ U \in Nat /\ U - S = Charge(y, d) - Charge(x, d)
  <2> DEFINE w == At(i)
             Cx == Charge(x, d)
             Cy == Charge(y, d)
             S == Share(t, Made(t, i, w), c, d)
             U == Share(s, Made(s, i, w), c, d)
             InS == x.status # "none" /\ x.made[i] = w
             InU == y.status # "none" /\ y.made[i] = w
  <2>1. w \in Nat /\ x.made[i] \in Nat
    BY <1>1, <1>2
  <2>2. x.status = "held" => x.made[i] <= w
    BY <1>1, <1>3 DEF Dated
  <2>3. S = IF InS THEN Cx ELSE 0
    BY DEF Share, Made, x
  <2>4. U = IF InU THEN Cy ELSE 0
    BY <1>0 DEF Share, Made
  <2>5. /\ Cx \in Nat /\ Cy \in Nat
        /\ x.status = "none" => Cx = 0
        /\ x.status = "held" /\ y.status = "held" => Cx = Cy
    BY <1>6
  <2>6. ~(y.status \in {"committed", "refunded"} /\ y.made[i] < y.settled[i] /\ y.settled[i] = w)
    BY <1>0, <1>8 DEF Late
  <2>7. \/ x.status = "none" /\ y.status = "held" /\ y.made[i] = w
        \/ x.status = "held" /\ y.status = "held" /\ y.made[i] = x.made[i]
        \/ /\ x.status = "held" /\ y.status \in {"committed", "refunded"}
           /\ y.made[i] = x.made[i] /\ y.settled[i] = w
    BY <1>3 DEF Moves, At
  <2> HIDE DEF w, Cx, Cy, S, U
  <2>8. S \in Nat /\ U \in Nat /\ U - S = Cy - Cx
    <3>1. CASE x.status = "none" /\ y.status = "held" /\ y.made[i] = w
      BY <2>3, <2>4, <2>5, <3>1
    <3>2. CASE x.status = "held" /\ y.status = "held" /\ y.made[i] = x.made[i]
      BY SMTT(30), <2>3, <2>4, <2>5, <3>2
    <3>3. CASE /\ x.status = "held" /\ y.status \in {"committed", "refunded"}
               /\ y.made[i] = x.made[i] /\ y.settled[i] = w
      <4>1. x.made[i] = w
        BY SMTT(30), <2>1, <2>2, <2>6, <3>3
      <4> QED
        BY <2>3, <2>4, <2>5, <3>3, <4>1
    <3> QED
      BY <2>7, <3>1, <3>2, <3>3
  <2> QED
    BY <2>8 DEF w, Cx, Cy, S, U
<1>9. ASSUME NEW d \in Dims, NEW i \in {1, 2}
      PROVE  \E rest \in Nat : /\ Sum(t, Made(t, i, At(i)), d) = rest + Share(t, Made(t, i, At(i)), c, d)
                               /\ Sum(s, Made(s, i, At(i)), d) = rest + Share(s, Made(s, i, At(i)), c, d)
  <2> DEFINE S == Made(t, i, At(i))
             U == Made(s, i, At(i))
  <2>1. S \in SUBSET Calls /\ U \in SUBSET Calls /\ S \ {c} = U \ {c}
    BY <1>apart
  <2> HIDE DEF S, U
  <2>2. \E rest \in Nat : /\ Sum(t, S, d) = rest + Share(t, S, c, d)
                          /\ Sum(s, U, d) = rest + Share(s, U, c, d)
    BY <1>moves, <2>1
  <2> QED
    BY <2>2 DEF S, U
<1>10. ASSUME NEW d \in Dims, ~Late(s, 2, At(2))
       PROVE  v.month[d] = Sum(s, Made(s, 2, At(2)), d)
  <2> DEFINE S == Share(t, Made(t, 2, At(2)), c, d)
             U == Share(s, Made(s, 2, At(2)), c, d)
  <2>1. PICK rest \in Nat : /\ Sum(t, Made(t, 2, At(2)), d) = rest + S
                            /\ Sum(s, Made(s, 2, At(2)), d) = rest + U
    BY <1>9
  <2>2. S \in Nat /\ U \in Nat /\ U - S = Charge(y, d) - Charge(x, d)
    BY <1>8, <1>10
  <2>3. u.month[d] = rest + S
    BY <1>1, <1>5, <1>10, <2>1 DEF Books
  <2>4. v.month[d] = Max({0, u.month[d] + (Charge(y, d) - Charge(x, d))})
    BY DEF Follows, x
  <2> HIDE DEF S, U
  <2>5. v.month[d] = Max({0, rest + U})
    <3>1. u.month[d] + (U - S) = rest + U
      BY SMTT(30), <2>2, <2>3
    <3> QED
      BY <2>2, <2>4, <3>1
  <2>6. v.month[d] = rest + U
    BY SMTT(30), <2>2, <2>5, Clamped
  <2> QED
    BY <2>1, <2>6
<1>11. ASSUME NEW d \in Dims, ~Late(s, 1, At(1))
       PROVE  Sum(s, Made(s, 1, At(1)), d) <= v.today[d]
  <2> DEFINE S == Share(t, Made(t, 1, At(1)), c, d)
             U == Share(s, Made(s, 1, At(1)), c, d)
  <2>1. PICK rest \in Nat : /\ Sum(t, Made(t, 1, At(1)), d) = rest + S
                            /\ Sum(s, Made(s, 1, At(1)), d) = rest + U
    BY <1>9
  <2>2. S \in Nat /\ U \in Nat /\ U - S = Charge(y, d) - Charge(x, d)
    BY <1>8, <1>11
  <2>3. rest + S <= u.today[d] /\ u.today[d] \in Nat
    BY <1>1, <1>5, <1>11, <2>1 DEF Books, Counters
  <2>4. v.today[d] = Max({0, u.today[d] + (Charge(y, d) - Charge(x, d))})
    BY DEF Follows, x
  <2> HIDE DEF S, U
  <2>5. v.today[d] = Max({0, u.today[d] + (U - S)})
    BY <2>2, <2>4
  <2>6. rest + U <= v.today[d]
    <3>1. u.today[d] + (U - S) \in Int /\ rest + U <= u.today[d] + (U - S)
      BY SMTT(30), <2>2, <2>3
    <3> QED
      BY SMTT(30), <2>2, <2>5, <3>1, Clamped
  <2> QED
    BY <2>1, <2>6
<1> QED
  BY <1>1, <1>4, <1>7, <1>10, <1>11 DEF Books, s
-----------------------------------------------------------------------------
\* The books are right, and a call that has reserved nothing has no row.
LedgerInv ==
    /\ Books(res, usage)
    /\ \A c \in Calls : phase[c] = "idle" => res[c] = NoRow

\* What the books need of the types.
LEMMA LedgerTypes ==
    ASSUME TypeOK
    PROVE  /\ res \in Tables /\ usage \in UsageRows /\ day \in 0..MaxDay
           /\ \A c \in Calls : res[c] \in Rows /\ res[c].estimate \in Nat
           /\ usage.stamp \in Nat /\ usage.window \in Nat /\ day \in Nat
<1>1. res \in Tables /\ usage \in UsageRows /\ day \in 0..MaxDay
  BY DEF TypeOK, Tables, UsageRows, Counters
<1>2. \A c \in Calls : res[c] \in Rows /\ res[c].estimate \in Nat
  BY <1>1 DEF Tables, Rows
<1>3. usage.stamp \in Nat /\ usage.window \in Nat /\ day \in Nat
  BY SMTT(30), <1>1, MeteringConfig DEF UsageRows
<1> QED
  BY <1>1, <1>2, <1>3

\* The counters are right initially: nothing is reserved and nothing counted.
LEMMA LedgerInit == Init => LedgerInv
<1> SUFFICES ASSUME Init PROVE LedgerInv
  OBVIOUS
<1>1. \A c \in Calls : res[c] = NoRow
  BY DEF Init
<1>2. TypeOK
  BY TypeInit
<1>3. res \in Tables /\ usage.stamp = 0 /\ usage.window = 0
  BY <1>2, LedgerTypes DEF Init
<1>4. \A c \in Calls : Dated(res[c], usage)
  BY SMTT(30), <1>1, <1>3 DEF Dated, NoRow
<1>5. Made(res, 1, usage.stamp) = {} /\ Made(res, 2, usage.window) = {}
  BY SMTT(30), <1>1 DEF Made, NoRow
<1>6. ASSUME NEW d \in Dims
      PROVE  /\ usage.month[d] = 0 /\ usage.today[d] = 0
             /\ Sum(res, {}, d) = 0
             /\ Sum(res, Touched(res, usage.window), d) \in Nat
  <2>1. Touched(res, usage.window) \in SUBSET Calls
    BY DEF Touched
  <2>2. usage.month[d] = 0 /\ usage.today[d] = 0
    BY DEF Init, Zero
  <2> QED
    BY <1>3, <2>1, <2>2, SumEmpty, SumType
<1>7. Books(res, usage)
  BY SMTT(30), <1>4, <1>5, <1>6 DEF Books
<1> QED
  BY <1>1, <1>7 DEF LedgerInv

\* The daily reset of the upsert leaves the books right.
LEMMA BooksReset ==
    ASSUME TypeOK, LedgerInv
    PROVE  /\ DailyReset(usage) \in UsageRows
           /\ DailyReset(usage).window = usage.window
           /\ Books(res, DailyReset(usage))
<1> DEFINE u == DailyReset(usage)
<1>1. u \in UsageRows
  BY LedgerTypes, DailyResetType
<1>2. /\ u.window = usage.window /\ u.month = usage.month
      /\ (u.stamp = usage.stamp /\ u.today = usage.today) \/ u.stamp > usage.stamp
  BY LedgerTypes DEF DailyReset, UsageRows
<1>3. Books(res, usage) /\ res \in Tables /\ usage \in UsageRows
  BY LedgerTypes DEF LedgerInv
<1> HIDE DEF u
<1>4. Books(res, u)
  BY <1>1, <1>2, <1>3, BooksDay
<1> QED
  BY <1>1, <1>2, <1>4 DEF u

\* ReserveLLMTokens: the row that is inserted and the debit of both counters.
LEMMA BooksReserve ==
    ASSUME TypeOK, TypeOK', LedgerInv, NEW c \in Calls, NEW n \in Estimates,
           NEW heard \in BOOLEAN, Reserve(c, n, heard)
    PROVE  LedgerInv'
<1> DEFINE u == DailyReset(usage)
           y == [NoRow EXCEPT !.status = "held", !.estimate = n, !.made = Windows(u)]
<1>1. u \in UsageRows /\ Books(res, u) /\ u.today \in Counters /\ u.month \in Counters
  BY BooksReset DEF UsageRows
<1>2. res[c] = NoRow /\ res \in Tables
  BY LedgerTypes DEF Reserve, LedgerInv
<1>3. res' = [res EXCEPT ![c] = y] /\ res' \in Tables /\ usage' \in UsageRows
  BY LedgerTypes, TypeOK' DEF Reserve, TypeOK, Tables, UsageRows, Counters
<1>4. y \in Rows
  BY <1>2, <1>3 DEF Tables
<1>5. /\ y.status = "held" /\ y.estimate = n /\ y.made = Windows(u)
      /\ y.settled = NoRow.settled /\ NoRow.status = "none"
  BY DEF NoRow
<1>6. /\ usage'.today = Adjust(u.today, Debit(n)) /\ usage'.month = Adjust(u.month, Debit(n))
      /\ usage'.stamp = u.stamp /\ usage'.window = u.window
  BY <1>1 DEF Reserve, UsageRows
<1> HIDE DEF u, y
<1>7. Moves(res[c], y, u)
  BY <1>2, <1>5 DEF Moves
<1>8. Follows(u, usage', res[c], y)
  <2> SUFFICES ASSUME NEW d \in Dims
               PROVE  LET by == Charge(y, d) - Charge(NoRow, d)
                      IN /\ usage'.month[d] = Max({0, u.month[d] + by})
                         /\ usage'.today[d] = Max({0, u.today[d] + by})
    BY <1>2 DEF Follows
  <2>1. Charge(NoRow, d) = 0 /\ Charge(y, d) = Debit(n)[d]
    BY <1>5 DEF Charge
  <2>2. Debit(n)[d] \in Nat
    BY MeteringConfig DEF Debit
  <2>3. Charge(y, d) - Charge(NoRow, d) = Debit(n)[d]
    BY SMTT(30), <2>1, <2>2
  <2> QED
    BY SMTT(30), <1>6, <2>3 DEF Adjust
<1>9. Books(res', usage')
  BY <1>1, <1>2, <1>3, <1>4, <1>6, <1>7, <1>8, BooksRow
<1>10. \A q \in Calls : phase'[q] = "idle" => res'[q] = NoRow
  BY <1>2, <1>3 DEF Reserve, LedgerInv, TypeOK, Tables
<1> QED
  BY <1>9, <1>10 DEF LedgerInv

\* CommitLLMTokens and RefundLLMTokens: the counters move by what the row's
\* charge moves, whichever window they stand for by now.
LEMMA BooksSettle ==
    ASSUME TypeOK, TypeOK', LedgerInv, NEW c \in Calls,
           NEW a \in [input : Nat, output : Nat], NEW known \in BOOLEAN,
           \/ CommitLLMTokens(c, a, known)
           \/ RefundLLMTokens(c)
           \/ AlreadySettled(c)
    PROVE  Books(res', usage')
<1>0. /\ Books(res, usage) /\ res \in Tables /\ usage \in UsageRows
      /\ res[c] \in Rows /\ res[c].estimate \in Nat
  BY LedgerTypes DEF LedgerInv
<1>1. res' \in Tables /\ usage' \in UsageRows
  BY DEF TypeOK, Tables, UsageRows, Counters
<1>2. ASSUME NEW s \in {"committed", "refunded"}, NEW b \in Counters, NEW delta \in Deltas,
             res[c].status = "held", res' = [res EXCEPT ![c] = Settled(res[c], s, b)],
             usage'.today = Adjust(usage.today, delta), usage'.month = Adjust(usage.month, delta),
             usage'.stamp = usage.stamp, usage'.window = usage.window,
             \A d \in Dims : Charge(Settled(res[c], s, b), d) - Charge(res[c], d) = delta[d]
      PROVE  Books(res', usage')
  <2> DEFINE y == Settled(res[c], s, b)
  <2>1. y \in Rows
    BY <1>0, <1>1, <1>2 DEF Tables
  <2>2. y.status = s /\ y.made = res[c].made /\ y.settled = Windows(usage)
    BY <1>0 DEF Settled, Rows
  <2> HIDE DEF y
  <2>3. Moves(res[c], y, usage)
    BY <1>2, <2>2 DEF Moves
  <2>4. Follows(usage, usage', res[c], y)
    <3>1. \A d \in Dims : /\ usage'.month[d] = Max({0, usage.month[d] + delta[d]})
                          /\ usage'.today[d] = Max({0, usage.today[d] + delta[d]})
      <4>1. /\ usage'.today = Adjust(usage.today, delta)
            /\ usage'.month = Adjust(usage.month, delta)
        BY <1>2
      <4> QED
        BY <4>1 DEF Adjust
    <3> QED
      BY <1>2, <3>1 DEF Follows, y
  <2>5. res' = [res EXCEPT ![c] = y] /\ usage'.stamp = usage.stamp /\ usage'.window = usage.window
    BY <1>2 DEF y
  <2> QED
    BY <1>0, <1>1, <2>1, <2>3, <2>4, <2>5, BooksRow
<1>3. CASE CommitLLMTokens(c, a, known)
  <2> DEFINE delta == Correction(res[c].estimate, a)
             y == Settled(res[c], "committed", a)
  <2>1. delta \in Deltas
    BY <1>0, DeltaTypes
  <2>2. a \in Counters
    <3>1. a = [input |-> a.input, output |-> a.output]
      OBVIOUS
    <3> QED
      BY <1>0, <3>1, DeltaTypes
  <2>3. res[c].status = "held" /\ res' = [res EXCEPT ![c] = y]
    BY <1>3 DEF CommitLLMTokens
  <2>4. /\ usage'.today = Adjust(usage.today, delta) /\ usage'.month = Adjust(usage.month, delta)
        /\ usage'.stamp = usage.stamp /\ usage'.window = usage.window
    BY <1>0, <1>3 DEF CommitLLMTokens, UsageRows
  <2>5. y.status = "committed" /\ y.actual = a
    BY <1>0 DEF Settled, Rows
  <2>6. Charge(y, "input") - Charge(res[c], "input") = delta["input"]
    BY <2>3, <2>5 DEF Charge, Debit, Correction, Dims
  <2>7. Charge(y, "output") - Charge(res[c], "output") = delta["output"]
    <3>1. Charge(res[c], "output") = MaxOutput
      BY <2>3 DEF Charge, Debit, Dims
    <3>2. Charge(y, "output") = IF a.output <= MaxOutput THEN a.output ELSE MaxOutput
      BY <2>5 DEF Charge
    <3>3. delta["output"] = -Max({0, MaxOutput - a.output})
      BY DEF Correction, Dims
    <3>4. a.output \in Nat /\ MaxOutput \in Nat
      BY MeteringConfig
    <3>5. Max({0, MaxOutput - a.output})
              = IF MaxOutput - a.output >= 0 THEN MaxOutput - a.output ELSE 0
      BY SMTT(30), <3>4, Clamped
    <3> HIDE DEF delta, y
    <3> QED
      BY SMTT(30), <3>1, <3>2, <3>3, <3>4, <3>5
  <2> HIDE DEF delta
  <2>8. \A d \in Dims : Charge(y, d) - Charge(res[c], d) = delta[d]
    BY <2>6, <2>7 DEF Dims
  <2> QED
    BY <1>2, <2>1, <2>2, <2>3, <2>4, <2>8
<1>4. CASE RefundLLMTokens(c)
  <2> DEFINE delta == Negated(Debit(res[c].estimate))
             y == Settled(res[c], "refunded", Zero)
  <2>1. delta \in Deltas /\ Zero \in Counters
    BY <1>0, DeltaTypes DEF Zero, Counters
  <2>2. res[c].status = "held" /\ res' = [res EXCEPT ![c] = y]
    BY <1>4 DEF RefundLLMTokens
  <2>3. /\ usage'.today = Adjust(usage.today, delta) /\ usage'.month = Adjust(usage.month, delta)
        /\ usage'.stamp = usage.stamp /\ usage'.window = usage.window
    BY <1>0, <1>4 DEF RefundLLMTokens, UsageRows
  <2>4. \A d \in Dims : Charge(y, d) - Charge(res[c], d) = delta[d]
    <3>1. y.status = "refunded"
      BY <1>0 DEF Settled, Rows
    <3>2. \A d \in Dims : Debit(res[c].estimate)[d] \in Nat
      BY <1>0, MeteringConfig DEF Debit
    <3>3. \A d \in Dims : Charge(y, d) = 0 /\ Charge(res[c], d) = Debit(res[c].estimate)[d]
      BY <2>2, <3>1 DEF Charge
    <3> QED
      BY SMTT(30), <3>2, <3>3 DEF Negated
  <2> HIDE DEF delta
  <2> QED
    BY <1>2, <2>1, <2>2, <2>3, <2>4
<1>5. CASE AlreadySettled(c)
  BY <1>0, <1>5 DEF AlreadySettled
<1> QED
  BY <1>3, <1>4, <1>5

\* A TTL elapses: expires_at is no charge, and no counter moves.
LEMMA BooksExpire ==
    ASSUME TypeOK, TypeOK', LedgerInv, NEW c \in Calls, Expire(c)
    PROVE  Books(res', usage')
<1> DEFINE y == [res[c] EXCEPT !.expired = TRUE]
<1>0. /\ Books(res, usage) /\ res \in Tables /\ usage \in UsageRows
      /\ res[c] \in Rows /\ usage' = usage
  BY LedgerTypes DEF LedgerInv, Expire
<1>1. res[c].status = "held" /\ res' = [res EXCEPT ![c] = y] /\ y \in Rows
  BY <1>0 DEF Expire, Rows
<1>2. /\ y.status = "held" /\ y.estimate = res[c].estimate
      /\ y.made = res[c].made /\ y.settled = res[c].settled
  BY <1>0, <1>1 DEF Rows
<1> HIDE DEF y
<1>3. Moves(res[c], y, usage)
  BY <1>1, <1>2 DEF Moves
<1>4. Follows(usage, usage, res[c], y)
  <2> SUFFICES ASSUME NEW d \in Dims
               PROVE  LET by == Charge(y, d) - Charge(res[c], d)
                      IN /\ usage.month[d] = Max({0, usage.month[d] + by})
                         /\ usage.today[d] = Max({0, usage.today[d] + by})
    BY DEF Follows
  <2>1. Charge(y, d) = Charge(res[c], d)
    BY <1>1, <1>2 DEF Charge
  <2>2. Charge(res[c], d) \in Nat
    BY <1>0, ChargeType
  <2>3. usage.month[d] \in Nat /\ usage.today[d] \in Nat
    BY <1>0 DEF UsageRows, Counters
  <2>4. Charge(y, d) - Charge(res[c], d) = 0
    BY SMTT(30), <2>1, <2>2
  <2>5. \A k \in Nat : k + 0 = k /\ Max({0, k}) = k
    BY SMTT(30), Clamped
  <2> QED
    BY <2>3, <2>4, <2>5
<1>5. Books([res EXCEPT ![c] = y], usage)
  BY <1>0, <1>1, <1>3, <1>4, BooksRow
<1> QED
  BY <1>0, <1>1, <1>5

\* The midnight that GetOrUpdateUsage notices, and the renewal of a window.
LEMMA BooksWindows ==
    ASSUME TypeOK, TypeOK', LedgerInv,
           GetOrUpdateUsage \/ \E w \in 1..MaxPeriod : MonthlyReset(w)
    PROVE  Books(res', usage')
<1>0. /\ Books(res, usage) /\ res \in Tables /\ usage \in UsageRows
      /\ usage.stamp \in Nat /\ usage.window \in Nat /\ day \in Nat
  BY LedgerTypes DEF LedgerInv
<1>1. usage' \in UsageRows
  BY DEF TypeOK, UsageRows, Counters
<1>2. CASE GetOrUpdateUsage
  <2>1. /\ usage'.window = usage.window /\ usage'.month = usage.month
        /\ usage'.stamp > usage.stamp /\ res' = res
    BY <1>0, <1>2 DEF GetOrUpdateUsage, UsageRows
  <2> QED
    BY <1>0, <1>1, <2>1, BooksDay
<1>3. ASSUME NEW w \in 1..MaxPeriod, MonthlyReset(w) PROVE Books(res', usage')
  <2>1. res' = res
    BY <1>3 DEF MonthlyReset
  <2>2. CASE w > usage.window
    <3>1. /\ usage'.window > usage.window /\ usage'.month = Zero
          /\ usage'.stamp = usage.stamp /\ usage'.today = usage.today
      BY <1>0, <1>3, <2>2 DEF MonthlyReset, UsageRows
    <3> QED
      BY <1>0, <1>1, <2>1, <3>1, BooksMonth
  <2>3. CASE ~(w > usage.window)
    BY <1>0, <1>3, <2>1, <2>3 DEF MonthlyReset
  <2> QED
    BY <2>2, <2>3
<1> QED
  BY <1>2, <1>3

\* Every step keeps the books right.
LEMMA LedgerNext == TypeOK /\ LedgerInv /\ [Next]_vars => LedgerInv'
<1> SUFFICES ASSUME TypeOK, LedgerInv, [Next]_vars PROVE LedgerInv'
  OBVIOUS
<1>0. /\ TypeOK' /\ Books(res, usage)
      /\ \A c \in Calls : phase[c] = "idle" => res[c] = NoRow
      /\ phase \in [Calls -> {"idle", "calling", "commit", "refund", "done"}]
      /\ res \in [Calls -> Rows]
  BY TypeNext DEF LedgerInv, TypeOK
<1>1. CASE UNCHANGED <<usage, res, phase>>
  BY <1>0, <1>1 DEF LedgerInv
<1>2. ASSUME NEW c \in Calls, NEW n \in Estimates, NEW heard \in BOOLEAN, Reserve(c, n, heard)
      PROVE  LedgerInv'
  BY <1>0, <1>2, BooksReserve
<1>3. ASSUME NEW c \in Calls, NEW n \in Estimates, ReserveBlocked(c, n)
      PROVE  LedgerInv'
  <2>1. Books(res', usage')
    BY <1>3, BooksReset DEF ReserveBlocked
  <2>2. \A q \in Calls : phase'[q] = "idle" => res'[q] = NoRow
    BY <1>0, <1>3 DEF ReserveBlocked
  <2> QED
    BY <2>1, <2>2 DEF LedgerInv
<1>4. ASSUME NEW c \in Calls,
             ReserveFails(c) \/ LLMAnswers(c) \/ LLMFails(c) \/ SettlementLost(c)
      PROVE  LedgerInv'
  <2>1. res' = res /\ usage' = usage
    BY <1>4 DEF ReserveFails, LLMAnswers, LLMFails, SettlementLost
  <2>2. \A q \in Calls : phase'[q] = "idle" => phase[q] = "idle"
    BY <1>0, <1>4 DEF ReserveFails, LLMAnswers, LLMFails, SettlementLost
  <2> QED
    BY <1>0, <2>1, <2>2 DEF LedgerInv
<1>5. ASSUME NEW c \in Calls, NEW a \in [input : Nat, output : Nat], NEW known \in BOOLEAN,
             HandleCommit(c, a, known) \/ HandleRefund(c) \/ JanitorRefund(c)
      PROVE  LedgerInv'
  <2>1. CommitLLMTokens(c, a, known) \/ RefundLLMTokens(c) \/ AlreadySettled(c)
    BY <1>5 DEF HandleCommit, HandleRefund, JanitorRefund
  <2>2. Books(res', usage')
    BY <1>0, <2>1, BooksSettle
  <2>3. \A q \in Calls : phase'[q] = "idle" => phase[q] = "idle"
    BY <1>0, <1>5 DEF HandleCommit, HandleRefund, JanitorRefund
  <2>4. \A q \in Calls : res'[q] = res[q] \/ res[q].status = "held"
    BY <1>0, <2>1 DEF CommitLLMTokens, RefundLLMTokens, AlreadySettled
  <2>5. NoRow.status # "held"
    BY DEF NoRow
  <2> QED
    BY <1>0, <2>2, <2>3, <2>4, <2>5 DEF LedgerInv
<1>6. ASSUME NEW c \in Calls, Expire(c) PROVE LedgerInv'
  <2>1. Books(res', usage')
    BY <1>0, <1>6, BooksExpire
  <2>2. \A q \in Calls : res'[q] = res[q] \/ res[q].status = "held"
    BY <1>0, <1>6 DEF Expire
  <2>3. NoRow.status # "held" /\ phase' = phase
    BY <1>6 DEF NoRow, Expire
  <2> QED
    BY <1>0, <2>1, <2>2, <2>3 DEF LedgerInv
<1>7. CASE GetOrUpdateUsage \/ \E w \in 1..MaxPeriod : MonthlyReset(w)
  <2>1. Books(res', usage')
    BY <1>0, <1>7, BooksWindows
  <2>2. res' = res /\ phase' = phase
    BY <1>7 DEF GetOrUpdateUsage, MonthlyReset
  <2> QED
    BY <1>0, <2>1, <2>2 DEF LedgerInv
<1>8. CASE JanitorScan \/ JanitorFails \/ Midnight \/ UNCHANGED vars
  <2>1. UNCHANGED <<usage, res, phase>>
    BY <1>8 DEF JanitorScan, JanitorFails, Midnight, vars
  <2> QED
    BY <1>1, <2>1
<1>9. ASSUME NEW c \in Calls, NEW n \in InputSizes, NEW k \in OutputSizes, NEW known \in BOOLEAN,
             HandleCommit(c, [input |-> n, output |-> k], known)
      PROVE  LedgerInv'
  <2>1. [input |-> n, output |-> k] \in [input : Nat, output : Nat]
    BY MeteringConfig
  <2> QED
    BY <1>5, <1>9, <2>1
<1>10. ASSUME NEW c \in Calls, HandleRefund(c) \/ JanitorRefund(c) PROVE LedgerInv'
  <2>1. [input |-> 0, output |-> 0] \in [input : Nat, output : Nat] /\ TRUE \in BOOLEAN
    OBVIOUS
  <2> QED
    BY <1>5, <1>10, <2>1
<1> QED
  BY <1>2, <1>3, <1>4, <1>6, <1>7, <1>8, <1>9, <1>10 DEF Next

\* The sums of the model are those of the books.
LEMMA TotalsAreSums ==
    /\ \A S, d : Total(S, d) = Sum(res, S, d)
    /\ MadeToday = Made(res, 1, usage.stamp) /\ MadeThisMonth = Made(res, 2, usage.window)
    /\ OpenOrMadeThisMonth = Touched(res, usage.window)
    /\ SettledLate(1) <=> Late(res, 1, usage.stamp)
    /\ SettledLate(2) <=> Late(res, 2, usage.window)
<1>1. \A S, d : Total(S, d) = Sum(res, S, d)
  BY DEF Total, Sum, Cells
<1>2. MadeToday = Made(res, 1, usage.stamp) /\ MadeThisMonth = Made(res, 2, usage.window)
  BY DEF MadeToday, MadeThisMonth, Made
<1>3. OpenOrMadeThisMonth = Touched(res, usage.window)
  BY <1>2 DEF OpenOrMadeThisMonth, Touched
<1>4. Windows(usage)[1] = usage.stamp /\ Windows(usage)[2] = usage.window
  BY DEF Windows
<1>5. /\ SettledLate(1) <=> Late(res, 1, usage.stamp)
      /\ SettledLate(2) <=> Late(res, 2, usage.window)
  BY <1>4 DEF SettledLate, Late
<1> QED
  BY <1>1, <1>2, <1>3, <1>5

\* The monthly counters are exact, for any number of calls and any token
\* counts, until a reservation of an earlier window is settled in the current
\* one; and they never hold more than the calls open or made in the window.
THEOREM MonthExact == Spec => []MonthIsExact
<1>1. LedgerInv => MonthIsExact
  BY TotalsAreSums DEF LedgerInv, Books, MonthIsExact
<1> QED
  BY TypeInit, TypeNext, LedgerInit, LedgerNext, <1>1, PTL DEF Spec

\* The counters cover what the calls of their windows charge.
CountersCover ==
    \A d \in Dims :
        /\ ~SettledLate(1) => Total(MadeToday, d) \in Nat /\ Total(MadeToday, d) <= usage.today[d]
        /\ ~SettledLate(2) => Total(MadeThisMonth, d) = usage.month[d]

\* ... which is what the invariant says of them.
LEMMA BooksCover == TypeOK /\ LedgerInv => CountersCover
<1> SUFFICES ASSUME TypeOK, LedgerInv PROVE CountersCover
  OBVIOUS
<1>1. Made(res, 1, usage.stamp) \in SUBSET Calls /\ res \in Tables
  BY LedgerTypes DEF Made
<1>2. \A d \in Dims : Sum(res, Made(res, 1, usage.stamp), d) \in Nat
  BY <1>1, SumType
<1>3. \A d \in Dims :
        /\ ~Late(res, 1, usage.stamp) => Sum(res, Made(res, 1, usage.stamp), d) <= usage.today[d]
        /\ ~Late(res, 2, usage.window) => Sum(res, Made(res, 2, usage.window), d) = usage.month[d]
  BY DEF LedgerInv, Books
<1> QED
  BY <1>2, <1>3, TotalsAreSums DEF CountersCover

\* What ReserveLLMTokens checks and debits, of one of the two counters.
LEMMA AdjustedWithinCap ==
    ASSUME NEW k \in Counters, NEW n \in Nat, NEW cap \in [Dims -> Nat],
           CheckCap(k, Debit(n), cap), NEW d \in Dims, cap[d] > 0
    PROVE  Adjust(k, Debit(n))[d] \in Nat /\ Adjust(k, Debit(n))[d] <= cap[d]
<1>1. Debit(n)[d] \in Nat /\ k[d] \in Nat
  BY MeteringConfig DEF Debit, Counters
<1>2. k[d] + Debit(n)[d] <= cap[d]
  BY DEF CheckCap
<1>3. Adjust(k, Debit(n))[d] = Max({0, k[d] + Debit(n)[d]})
  BY DEF Adjust
<1> QED
  BY SMTT(30), <1>1, <1>2, <1>3, Clamped

\* A reservation is admitted only within the caps, counted with every call in
\* flight at its worst case: the check and the debit are one transaction, and
\* the counters it reads are no less than what the calls of the windows charge.
THEOREM AdmittedCapped == Spec => AdmittedWithinCaps
<1> DEFINE Admits ==
        \A c \in Calls :
            res[c].status = "none" /\ res'[c].status = "held" =>
                \A d \in Dims :
                    /\ DailyCap[d] > 0 /\ ~SettledLate(1)' =>
                            Total(MadeToday, d)' <= DailyCap[d]
                    /\ MonthlyCap[d] > 0 /\ ~SettledLate(2)' =>
                            Total(MadeThisMonth, d)' <= MonthlyCap[d]
<1>1. ASSUME TypeOK, LedgerInv, CountersCover', [Next]_vars PROVE [Admits]_vars
  <2> SUFFICES ASSUME NEW c \in Calls, res[c].status = "none", res'[c].status = "held",
                      NEW d \in Dims
               PROVE  /\ DailyCap[d] > 0 /\ ~SettledLate(1)' =>
                            Total(MadeToday, d)' <= DailyCap[d]
                      /\ MonthlyCap[d] > 0 /\ ~SettledLate(2)' =>
                            Total(MadeThisMonth, d)' <= MonthlyCap[d]
    OBVIOUS
  <2>1. PICK n \in Estimates, heard \in BOOLEAN : Reserve(c, n, heard)
    <3>0. res \in [Calls -> Rows]
      BY <1>1 DEF TypeOK
    <3>1. ASSUME UNCHANGED res PROVE FALSE
      BY <3>1
    <3>2. ASSUME NEW q \in Calls, NEW y, res[q].status = "held", res' = [res EXCEPT ![q] = y]
          PROVE  FALSE
      BY <3>0, <3>2
    <3>3. ASSUME NEW q \in Calls, NEW a, NEW known \in BOOLEAN,
                 HandleCommit(q, a, known) \/ HandleRefund(q) \/ JanitorRefund(q)
          PROVE  FALSE
      BY <3>1, <3>2, <3>3
         DEF HandleCommit, HandleRefund, JanitorRefund, CommitLLMTokens, RefundLLMTokens, AlreadySettled
    <3>4. ASSUME NEW q \in Calls, Expire(q) PROVE FALSE
      BY <3>2, <3>4 DEF Expire
    <3>5. ASSUME NEW q \in Calls, NEW n \in Estimates, NEW heard \in BOOLEAN, Reserve(q, n, heard)
          PROVE  q = c
      BY <3>0, <3>5 DEF Reserve
    <3>6. ASSUME NEW q \in Calls, NEW n \in Estimates, ReserveBlocked(q, n) PROVE FALSE
      BY <3>1, <3>6 DEF ReserveBlocked
    <3>7. ASSUME NEW q \in Calls,
                 ReserveFails(q) \/ LLMAnswers(q) \/ LLMFails(q) \/ SettlementLost(q)
          PROVE  FALSE
      BY <3>1, <3>7 DEF ReserveFails, LLMAnswers, LLMFails, SettlementLost
    <3>8. ~(\/ JanitorScan \/ JanitorFails \/ Midnight \/ GetOrUpdateUsage \/ UNCHANGED vars
            \/ \E w \in 1..MaxPeriod : MonthlyReset(w))
      BY <3>1 DEF JanitorScan, JanitorFails, Midnight, GetOrUpdateUsage, MonthlyReset, vars
    <3> QED
      BY <1>1, <3>3, <3>4, <3>5, <3>6, <3>7, <3>8 DEF Next
  <2> DEFINE u == DailyReset(usage)
  <2>2. n \in Nat /\ u.today \in Counters /\ u.month \in Counters /\ u \in UsageRows
    BY <1>1, BooksReset, MeteringConfig DEF UsageRows
  <2>3. usage'.today = Adjust(u.today, Debit(n)) /\ usage'.month = Adjust(u.month, Debit(n))
    BY <2>1, <2>2 DEF Reserve, UsageRows
  <2>4. CheckCap(u.today, Debit(n), DailyCap) /\ CheckCap(u.month, Debit(n), MonthlyCap)
    BY <2>1 DEF Reserve
  <2>5. /\ DailyCap[d] > 0 => usage'.today[d] \in Nat /\ usage'.today[d] <= DailyCap[d]
        /\ MonthlyCap[d] > 0 => usage'.month[d] \in Nat /\ usage'.month[d] <= MonthlyCap[d]
    BY <2>2, <2>3, <2>4, AdjustedWithinCap, MeteringConfig
  <2>6. /\ ~SettledLate(1)' => Total(MadeToday, d)' \in Nat /\ Total(MadeToday, d)' <= usage'.today[d]
        /\ ~SettledLate(2)' => Total(MadeThisMonth, d)' = usage'.month[d]
    BY <1>1 DEF CountersCover
  <2>7. DailyCap[d] \in Nat /\ MonthlyCap[d] \in Nat
    BY MeteringConfig
  <2> QED
    BY SMTT(30), <2>5, <2>6, <2>7
<1> QED
  BY TypeInit, TypeNext, LedgerInit, LedgerNext, BooksCover, <1>1, PTL DEF Spec, AdmittedWithinCaps
=============================================================================
