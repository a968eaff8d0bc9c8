------------------------------ MODULE Candles ------------------------------
(***************************************************************************)
(* The candle arithmetic every detector of the technical analysis engine   *)
(* is built from: candles and candle sequences (ta/models/candle.py), pip  *)
(* arithmetic (ta/common/utils/price), the swing, marubozu, compression,   *)
(* session, Fibonacci, liquidity and sweep analyzers (ta/common/analyzers).*)
(*                                                                         *)
(* Prices are integers, Pip units to the pip, chosen even so that the      *)
(* midpoint of a zone is an integer; a percentage or a Fibonacci level is  *)
(* compared after multiplying out its denominator.  The two halves of a    *)
(* detector (bullish and bearish) are mirror images in the source: both    *)
(* are written here once, for a side d, where Up = 1 looks at highs and    *)
(* closes above a level and Down = -1 at lows and closes below it.         *)
(* Candles are indexed from 1 (from 0 in the source).                      *)
(***************************************************************************)
EXTENDS TradeLevels, Sequences, FiniteSets, SequencesExt

CONSTANTS
  LeftBars,       \* SwingAnalyzer.left_bars  (5 in the engine)
  RightBars,      \* SwingAnalyzer.right_bars (5 in the engine)
  DominanceSteps  \* candles dominated before the strength grows: <<14, 20, 30, 40, 50>>

ASSUME CandleConstants ==
  /\ LeftBars \in Nat \ {0} /\ RightBars \in Nat \ {0}
  /\ Len(DominanceSteps) = 5

Up == 1

Down == -1

None == [none |-> TRUE]

Abs(x) == IF x < 0 THEN -x ELSE x

\* A set of positive numbers as an increasing sequence.
Ascending(S) == SelectSeq([i \in 1..Max(S \cup {0}) |-> i], LAMBDA i : i \in S)

\* The list of f(x) for the x of seq, in order (\o makes it a tuple, evaluated once).
MapSeq(f(_), seq) == <<>> \o [n \in DOMAIN seq |-> f(seq[n])]

TimeframeMinutes ==
  [M1 |-> 1, M5 |-> 5, M15 |-> 15, M30 |-> 30, H1 |-> 60, H4 |-> 240,
   D1 |-> 1440, W1 |-> 10080, MN1 |-> 43200]

----------------------------------------------------------------------------
(* Candles *)

CandleOK(k) ==
  /\ k.l > 0 /\ k.h >= k.l
  /\ k.h >= k.o /\ k.h >= k.c
  /\ k.l <= k.o /\ k.l <= k.c

\* validate_candles: no timestamp twice, sorted by time.
SequenceOK(s) ==
  /\ s # <<>>
  /\ \A i \in DOMAIN s : CandleOK(s[i])
  /\ \A i, j \in DOMAIN s : i < j => s[i].t < s[j].t

\* is_bullish (d = Up), is_bearish (d = Down).
Is(d, k) == d * k.c > d * k.o

Body(k) == Abs(k.c - k.o)

Extent(k) == k.h - k.l

\* The wick on side d: upper_wick, lower_wick.
Wick(d, k) == IF d = Up THEN k.h - Max({k.o, k.c}) ELSE Min({k.o, k.c}) - k.l

\* The extreme of the candle on side d.
Extreme(d, k) == IF d = Up THEN k.h ELSE k.l

\* "x% of the range or more", false for a candle without range when x > 0.
AtLeastPct(part, k, x) == IF Extent(k) = 0 THEN x <= 0 ELSE 100 * part >= x * Extent(k)

\* calculate_pips(a, b) >= x, and is_within_tolerance.
PipsAtLeast(a, b, x) == Abs(a - b) >= x * Pip

WithinTolerance(a, b, x) == Abs(a - b) <= x * Pip

\* detect_imbalance: the gap between the first and the third candle.
Imbalance(k1, k3) ==
  IF k3.l > k1.h THEN [lo |-> k1.h, hi |-> k3.l]
  ELSE IF k1.l > k3.h THEN [lo |-> k3.h, hi |-> k1.l]
  ELSE None

----------------------------------------------------------------------------
(* SwingAnalyzer *)

\* _get_effective_bars: higher timeframes use narrower windows.
EffectiveBars(tf) ==
  CASE tf = "D1"  -> [left |-> 3, right |-> 3]
    [] tf = "W1"  -> [left |-> 2, right |-> 2]
    [] tf = "MN1" -> [left |-> 2, right |-> 1]
    [] OTHER      -> [left |-> LeftBars, right |-> RightBars]

\* How many candles in a row, before and after candle i, stay inside its extreme.
Dominated(s, i, d) ==
  LET beyond == {j \in DOMAIN s : d * Extreme(d, s[j]) > d * Extreme(d, s[i])}
  IN  Min({j \in beyond : j > i} \cup {Len(s) + 1}) - Max({j \in beyond : j < i} \cup {0}) - 2

\* _calculate_strength
Strength(s, i, d) ==
  LET dominated == Dominated(s, i, d)
      grades == <<3, 5, 7, 8, 9>>
      below == {n \in 1..5 : dominated < DominanceSteps[n]}
  IN  IF below = {} THEN 10 ELSE grades[Min(below)]

IsSwing(s, i, d, bars) ==
  \A j \in ((i - bars.left)..(i - 1)) \cup ((i + 1)..(i + bars.right)) :
    d * Extreme(d, s[j]) < d * Extreme(d, s[i])

\* detect_swing_highs (d = Up) and detect_swing_lows (d = Down).
SwingsWith(s, d, bars) ==
  LET at == Ascending({i \in (1 + bars.left)..(Len(s) - bars.right) : IsSwing(s, i, d, bars)})
  IN  MapSeq(LAMBDA i : [i |-> i, p |-> Extreme(d, s[i]), t |-> s[i].t, str |-> Strength(s, i, d)], at)

Swings(s, tf, d) == SwingsWith(s, d, EffectiveBars(tf))

\* get_latest_swing_high, get_latest_swing_low.
LatestSwing(sw) == IF sw = <<>> THEN None ELSE Last(sw)

\* Mutant: the last close beyond instead of the first.
LastCloseBeyond(s, i, d, level) ==
  SelectLastInSubSeq(s, i + 1, Len(s), LAMBDA k : d * k.c > d * level)

\* The first candle after i that closes beyond a level on side d; 0 if none does.
FirstCloseBeyond(s, i, d, level) ==
  SelectInSubSeq(s, i + 1, Len(s), LAMBDA k : d * k.c > d * level)

\* `required' closes in a row beyond the level, starting at candle j.
Confirmed(s, j, d, level, required) ==
  /\ j + required - 1 <= Len(s)
  /\ \A k \in j..(j + required - 1) : d * s[k].c > d * level

\* _get_required_confirmations of the CHOCH and QM detectors.
RequiredConfirmations(tf) ==
  CASE tf \in {"M1", "M5"} -> 1 [] tf \in {"M15", "M30"} -> 2 [] OTHER -> 3

----------------------------------------------------------------------------
(* MarubozuAnalyzer: a full body of at least 15 pips, scaled (x100) by timeframe *)

MarubozuScale ==
  [M1 |-> 15, M5 |-> 25, M15 |-> 40, M30 |-> 55, H1 |-> 100, H4 |-> 200,
   D1 |-> 500, W1 |-> 1200, MN1 |-> 2500]

FullBody(k) ==
  /\ AtLeastPct(Body(k), k, 80)
  /\ \A d \in {Up, Down} : 100 * Wick(d, k) <= 10 * Extent(k)

IsMarubozu(k) == FullBody(k) /\ PipsAtLeast(k.o, k.c, 15)

IsMarubozuFor(k, tf) == FullBody(k) /\ 100 * Body(k) >= 15 * MarubozuScale[tf] * Pip

\* is_bullish_marubozu_for_timeframe, is_bearish_marubozu_for_timeframe.
MarubozuOn(d, k, tf) == Is(d, k) /\ IsMarubozuFor(k, tf)

----------------------------------------------------------------------------
(* CompressionAnalyzer: at least 3 candles in a range of 5 to 15 pips *)

MinCompression == 3

MinRangePips == 5

MaxRangePips == 15

HighOf(s, i, j) == Max({s[n].h : n \in i..j})

LowOf(s, i, j) == Min({s[n].l : n \in i..j})

RangeOf(s, i, j) == HighOf(s, i, j) - LowOf(s, i, j)

\* is_compression
IsCompression(s) ==
  /\ Len(s) >= MinCompression
  /\ RangeOf(s, 1, Len(s)) >= MinRangePips * Pip
  /\ RangeOf(s, 1, Len(s)) <= MaxRangePips * Pip

----------------------------------------------------------------------------
(* Sessions, by the UTC hour of a timestamp in minutes *)

SessionHours ==
  [ASIA |-> 0..8, LONDON |-> 7..15, NEW_YORK |-> 12..20]

HourOf(t) == (t \div 60) % 24

DayOf(t) == t \div 1440

InSession(t, session) == HourOf(t) \in SessionHours[session]

\* identify_session, identify_active_session
ActiveSession(t) ==
  LET active == {x \in DOMAIN SessionHours : InSession(t, x)}
  IN  IF {"LONDON", "NEW_YORK"} \subseteq active THEN "OVERLAP_LONDON_NY"
      ELSE IF active = {} \/ "ASIA" \in active THEN "ASIA"
      ELSE IF "LONDON" \in active THEN "LONDON" ELSE "NEW_YORK"

\* extract_most_recent_session_range: the last contiguous block of the session.
RecentSessionRange(s, session) ==
  LET last == SelectLastInSeq(s, LAMBDA k : InSession(k.t, session))
      outside == {0} \cup {i \in 1..(last - 1) : ~InSession(s[i].t, session)}
      first == Max(outside) + 1
  IN  IF last = 0 THEN None
      ELSE [high |-> HighOf(s, first, last), low |-> LowOf(s, first, last),
            start |-> s[first].t, end |-> s[last].t, first |-> first, last |-> last]

\* get_session_candles
SessionCandles(s, session) == SelectSeq(s, LAMBDA k : InSession(k.t, session))

\* DealingRangeAnalyzer.create_from_session: at least 20 pips wide.
DealingRange(r) == IF r = None \/ ~PipsAtLeast(r.low, r.high, 20) THEN None ELSE r

----------------------------------------------------------------------------
(* Fibonacci retracements: a leg is [high, low, d]; levels are thousandths *)

\* FibonacciRetracement: built only for high > low.
Leg(high, low, d) == IF high > low THEN [high |-> high, low |-> low, d |-> d] ELSE None

\* get_level_price, calculate_level_price (x 1000).
LevelPrice(leg, f) ==
  IF leg.d = Up THEN 1000 * leg.high - (leg.high - leg.low) * f
  ELSE 1000 * leg.low + (leg.high - leg.low) * f

\* FibonacciAnalyzer.is_at_ote: between the 0.618 and 0.786 levels, give or take x pips.
AtOTE(price, leg, x) ==
  LET a == LevelPrice(leg, 618)  b == LevelPrice(leg, 786)
  IN  /\ 1000 * price >= Min({a, b}) - 1000 * x * Pip
      /\ 1000 * price <= Max({a, b}) + 1000 * x * Pip

\* get_zone_for_price: premium, discount, or within 2% of the middle of the leg.
PriceZone(price, leg) ==
  LET mid2 == leg.high + leg.low
      premiumAbove == leg.d = Up
  IN  IF price >= leg.low /\ price <= leg.high /\ 50 * Abs(2 * price - mid2) <= 2 * (leg.high - leg.low)
      THEN "EQUILIBRIUM"
      ELSE IF (2 * price > mid2) = premiumAbove THEN "PREMIUM" ELSE "DISCOUNT"

----------------------------------------------------------------------------
(* LiquidityAnalyzer: swings of one side within 2 pips of an earlier one *)

EqualTolerance == 2

\* detect_equal_highs, detect_equal_lows: groups around their first member; a swing
\* joins the first group whose anchor is close enough and is used once.
EqualGroups(sw) ==
  LET step(groups, i) ==
        LET used == UNION {ToSet(groups[g]) : g \in DOMAIN groups}
            mates == Ascending({j \in (i + 1)..Len(sw) : j \notin used
                                     /\ WithinTolerance(sw[i].p, sw[j].p, EqualTolerance)})
        IN  IF i \in used \/ mates = <<>> THEN groups ELSE Append(groups, <<i>> \o mates)
  IN  FoldLeft(step, <<>>, [i \in DOMAIN sw |-> i])

----------------------------------------------------------------------------
(* SweepAnalyzer: a wick through a level that closes back *)

MinSweepPips == 2

Sweep(k, i, d, level, levelTime, kind, back, major) ==
  [i |-> i, t |-> k.t, side |-> d, level |-> level, lt |-> levelTime, kind |-> kind,
   high |-> k.h, low |-> k.l, size |-> Abs(Extreme(d, k) - level), back |-> back, major |-> major]

\* detect_bsl_sweep, detect_ssl_sweep
LevelSweep(k, i, d, swing, minPips) ==
  IF d * Extreme(d, k) <= d * swing.p \/ ~PipsAtLeast(Extreme(d, k), swing.p, minPips) THEN None
  ELSE Sweep(k, i, d, swing.p, swing.t, "SWING", d * k.c < d * swing.p, swing.str >= 5)

\* The previous day's high (d = Up) or low: the latest earlier day of the sequence.
PreviousDayLevel(s, i, d) ==
  LET earlier == {j \in DOMAIN s : DayOf(s[j].t) < DayOf(s[i].t)}
      prev == {j \in earlier : \A m \in earlier : DayOf(s[m].t) <= DayOf(s[j].t)}
  IN  IF earlier = {} THEN None
      ELSE [p |-> IF d = Up THEN Max({s[j].h : j \in prev}) ELSE Min({s[j].l : j \in prev})]

\* The level p of side d is in force at candle i: the previous day's, or an earlier swing's.
InForce(s, i, d, sw, p) ==
  (\E n \in DOMAIN sw : sw[n].i < i /\ sw[n].p = p) \/ PreviousDayLevel(s, i, d) = [p |-> p]

\* A wick through the level retires it, by a close beyond it or as a sweep of 2 pips.
Retires(k, d, p) ==
  /\ d * Extreme(d, k) > d * p
  /\ d * k.c > d * p \/ PipsAtLeast(Extreme(d, k), p, MinSweepPips)

\* Candle i is the first to retire the level, and closes back.
SweptAt(s, i, d, sw, p) ==
  /\ Retires(s[i], d, p) /\ d * s[i].c <= d * p
  /\ \A j \in 1..(i - 1) : ~(Retires(s[j], d, p) /\ InForce(s, j, d, sw, p))

\* detect_sweeps_in_sequence: per candle the previous day's high and low, then every
\* earlier swing high, then every earlier swing low; a level is known by its price.
SweepsInSequence(s, highs, lows) ==
  LET sw == [d \in {Up, Down} |-> IF d = Up THEN highs ELSE lows]
      day(i, d) ==
        LET pd == PreviousDayLevel(s, i, d)
        IN  IF pd = None THEN <<>>
            ELSE IF ~SweptAt(s, i, d, sw[d], pd.p) THEN <<>>
            ELSE <<Sweep(s[i], i, d, pd.p, s[i].t, "DAY", TRUE, TRUE)>>
      first(d, n) == \A m \in 1..(n - 1) : sw[d][m].p # sw[d][n].p
      swings(i, d) ==
        LET at == Ascending({n \in DOMAIN sw[d] :
                     /\ sw[d][n].i < i /\ first(d, n)
                     /\ SweptAt(s, i, d, sw[d], sw[d][n].p)
                     /\ PreviousDayLevel(s, i, d) # [p |-> sw[d][n].p]})
        IN  MapSeq(LAMBDA n : LET w == sw[d][n]
                              IN  Sweep(s[i], i, d, w.p, w.t, "SWING", d * s[i].c < d * w.p, w.str >= 5), at)
  IN  FlattenSeq([i \in DOMAIN s |-> day(i, Up) \o day(i, Down) \o swings(i, Up) \o swings(i, Down)])
=============================================================================
