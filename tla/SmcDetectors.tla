---------------------------- MODULE SmcDetectors ----------------------------
(***************************************************************************)
(* The Smart Money Concepts detectors (ta/smc/detectors) and zones         *)
(* (ta/smc/zones): break, change and shift of structure, inducement,       *)
(* turtle soup, the AMD session cycle, order blocks, fair value gaps and   *)
(* breaker blocks, each a function of a candle sequence and its swings.    *)
(*                                                                         *)
(* An event is a record: i the index of the candle it is found at, t the   *)
(* time of the candle that confirms it, d its direction.  Lists keep the   *)
(* source's order, which the builders' first-match rules depend on.        *)
(***************************************************************************)
EXTENDS Candles

\* SMCConfig, its defaults (pips, percent, candles; fractions in tenths).
SMCConfig ==
  [min_displacement_pips |-> 20, bms_strong_displacement_pips |-> 50,
   bms_moderate_displacement_pips |-> 30, bms_weak_confirm_candles |-> 5,
   turtle_soup_min_pips |-> 5, ob_body_percentage_threshold |-> 50, fvg_min_gap_pips |-> 2,
   fib_tolerance_pips |-> 5, fvg_max_candle_distance |-> 5, sweep_max_candle_distance |-> 10,
   sms_max_ob_candle_distance |-> 20, inducement_min_break_pips |-> 1]

\* _TF_SCALE of the BMS detector, in hundredths.
BmsScale ==
  [M1 |-> 10, M5 |-> 20, M15 |-> 35, M30 |-> 50, H1 |-> 100, H4 |-> 200,
   D1 |-> 500, W1 |-> 1200, MN1 |-> 2500]

\* max(events, key=timestamp): the first of the latest events.
LatestEvent(events) ==
  IF events = <<>> THEN None
  ELSE events[SelectInSeq(events, LAMBDA e : \A n \in DOMAIN events : events[n].t <= e.t)]

----------------------------------------------------------------------------
(* Structure *)

\* displacement >= x pips scaled to the timeframe.
Displaced(tf, level, close, x) == 100 * Abs(close - level) >= x * BmsScale[tf] * Pip

\* _required_confirmation_candles
BmsRequired(tf, level, close) ==
  IF Displaced(tf, level, close, SMCConfig.bms_strong_displacement_pips) THEN 2
  ELSE IF Displaced(tf, level, close, SMCConfig.bms_moderate_displacement_pips) THEN 3
  ELSE SMCConfig.bms_weak_confirm_candles

\* A confirmed break: enough displacement at the first close beyond the swing, and
\* enough closes in a row from there.
IsBms(s, tf, d, w) ==
  LET j == FirstCloseBeyond(s, w.i, d, w.p)
  IN  /\ j # 0
      /\ Displaced(tf, w.p, s[j].c, SMCConfig.min_displacement_pips)
      /\ Confirmed(s, j, d, w.p, BmsRequired(tf, w.p, s[j].c))

Bms(s, tf, d, sw) ==
  LET event(w) == LET j == FirstCloseBeyond(s, w.i, d, w.p)
                  IN  [i |-> j, t |-> s[j + BmsRequired(tf, w.p, s[j].c) - 1].t, d |-> d,
                       level |-> w.p, lt |-> w.t, close |-> s[j].c]
  IN  MapSeq(event, SelectSeq(sw, LAMBDA w : IsBms(s, tf, d, w)))

detect_bullish_bms(s, tf, highs) == Bms(s, tf, Up, highs)

detect_bearish_bms(s, tf, lows) == Bms(s, tf, Down, lows)

\* CHOCH: any close beyond a swing of strength 8 or less, confirmed by 1, 2 or 3 closes.
IsChoch(s, tf, d, w) ==
  LET j == FirstCloseBeyond(s, w.i, d, w.p)
  IN  w.str <= 8 /\ j # 0 /\ Confirmed(s, j, d, w.p, RequiredConfirmations(tf))

Choch(s, tf, d, sw) ==
  LET event(w) == LET j == FirstCloseBeyond(s, w.i, d, w.p)
                  IN  [i |-> j, t |-> s[j + RequiredConfirmations(tf) - 1].t, d |-> d,
                       level |-> w.p, lt |-> w.t, close |-> s[j].c, minor |-> w.str <= 5]
  IN  MapSeq(event, SelectSeq(sw, LAMBDA w : IsChoch(s, tf, d, w)))

detect_bullish_choch(s, tf, highs) == Choch(s, tf, Up, highs)

detect_bearish_choch(s, tf, lows) == Choch(s, tf, Down, lows)

\* SMS: of three swings in a row, the second goes further and the third fails to.
Sms(s, d, sw) ==
  LET at == Ascending({n \in 1..(Len(sw) - 2) : /\ d * sw[n + 1].p < d * sw[n].p
                                                  /\ d * sw[n + 2].p >= d * sw[n + 1].p})
      event(n) == [i |-> sw[n + 2].i, t |-> s[sw[n + 2].i].t, d |-> d, level |-> sw[n + 1].p,
                   lt |-> sw[n + 1].t, close |-> s[sw[n + 2].i].c]
  IN  MapSeq(event, at)

detect_bullish_sms(s, lows) == Sms(s, Up, lows)

detect_bearish_sms(s, highs) == Sms(s, Down, highs)

\* Inducement: a swing of strength below 5, cleared when a later wick passes it by more
\* than a pip.  The liquidity of a bullish inducement rests below its swing low.
Inducement(s, d, sw) ==
  LET clears(w) == {j \in (w.i + 1)..Len(s) :
                      d * Extreme(-d, s[j]) < d * w.p - SMCConfig.inducement_min_break_pips * Pip}
      event(w) == [i |-> w.i, t |-> w.t, d |-> d, level |-> w.p, cleared |-> clears(w) # {},
                   ct |-> IF clears(w) = {} THEN 0 ELSE s[Min(clears(w))].t]
  IN  MapSeq(event, SelectSeq(sw, LAMBDA w : w.str < 5 /\ w.i < Len(s)))

detect_bullish_inducement(s, lows) == Inducement(s, Up, lows)

detect_bearish_inducement(s, highs) == Inducement(s, Down, highs)

\* Turtle soup: every candle that sweeps an earlier swing by 5 pips and closes back.
TurtleSoup(s, side, sw) ==
  LET ofCandle(i) ==
        SelectSeq(MapSeq(LAMBDA w : LevelSweep(s[i], i, side, w, MinSweepPips),
                         SelectSeq(sw, LAMBDA w : w.i < i)),
                  LAMBDA x : /\ x # None /\ x.back
                             /\ x.size >= SMCConfig.turtle_soup_min_pips * Pip)
  IN  FlattenSeq([i \in DOMAIN s |-> ofCandle(i)])

detect_turtle_soup_short(s, highs) == TurtleSoup(s, Up, highs)

detect_turtle_soup_long(s, lows) == TurtleSoup(s, Down, lows)

----------------------------------------------------------------------------
(* The AMD cycle: Asian range, false move, distribution *)

extract_asian_range(s) == DealingRange(RecentSessionRange(s, "ASIA"))

ActiveCandles(s) == SessionCandles(s, "LONDON") \o SessionCandles(s, "NEW_YORK")

\* _detect_manipulation: the first London, then New York, candle outside the range.
Manipulation(s, r) ==
  LET ks == ActiveCandles(s)
      n  == SelectInSeq(ks, LAMBDA k : k.h > r.high \/ k.l < r.low)
  IN  IF n = 0 THEN 0 ELSE IF ks[n].h > r.high THEN Up ELSE Down

\* _detect_distribution: a close on the other side of the middle of the range.
Distribution(s, r, m) ==
  IF \E k \in ToSet(ActiveCandles(s)) : m * 2 * k.c < m * (r.high + r.low) THEN -m ELSE 0

detect_amd_context(s) ==
  LET r == extract_asian_range(s)
      m == Manipulation(s, r)
  IN  IF r = None THEN None
      ELSE [range |-> r, manip |-> m, t |-> Last(s).t, dist |-> IF m = 0 THEN 0 ELSE Distribution(s, r, m)]

----------------------------------------------------------------------------
(* Zones: [lo, hi, i, t, d] *)

Zone(k, i, tf, d) == [lo |-> k.l, hi |-> k.h, i |-> i, t |-> k.t, d |-> d, tf |-> tf, disp |-> 0]

Midpoint(z) == (z.lo + z.hi) \div 2

\* The edge of a zone a trade in its direction is protected by.
FarEdge(d, z) == IF d = Up THEN z.lo ELSE z.hi

\* detect_bullish_ob, detect_bearish_ob: back from the break, the first opposite candle
\* with half a body from whose far end the breakout travelled at least 20 pips.
OrderBlock(s, tf, d, bms) ==
  LET ok == {i \in 1..(bms.i - 1) :
               /\ Is(-d, s[i])
               /\ AtLeastPct(Body(s[i]), s[i], SMCConfig.ob_body_percentage_threshold)
               /\ PipsAtLeast(Extreme(-d, s[i]), bms.close, SMCConfig.min_displacement_pips)}
  IN  IF bms.d # d \/ ok = {} THEN None
      ELSE LET i == Max(ok)
           IN  [Zone(s[i], i, tf, d) EXCEPT !.disp = Abs(Extreme(-d, s[i]) - bms.close)]

detect_bullish_ob(s, tf, bms) == OrderBlock(s, tf, Up, bms)

detect_bearish_ob(s, tf, bms) == OrderBlock(s, tf, Down, bms)

\* detect_ob_from_choch: the last opposite candle, whatever its body and displacement.
detect_ob_from_choch(s, tf, choch) ==
  LET ok == {i \in 1..(choch.i - 1) : Is(-choch.d, s[i])}
  IN  IF ok = {} THEN None ELSE Zone(s[Max(ok)], Max(ok), tf, choch.d)

\* detect_fvgs: three candles leaving a gap of 2 pips; the middle one gives the direction.
detect_fvgs(s) ==
  LET gap(i) == Imbalance(s[i], s[i + 2])
      at == Ascending({i \in 1..(Len(s) - 2) :
                            gap(i) # None /\ PipsAtLeast(gap(i).lo, gap(i).hi, SMCConfig.fvg_min_gap_pips)})
  IN  MapSeq(LAMBDA i : [lo |-> gap(i).lo, hi |-> gap(i).hi, i |-> i + 1, t |-> s[i + 1].t,
                         d |-> IF Is(Up, s[i + 1]) THEN Up ELSE Down], at)

\* detect_breaker_from_ob: an order block closed through becomes a zone the other way.
detect_breaker_from_ob(s, ob) ==
  LET broken == {i \in (ob.i + 1)..Len(s) : ob.d * s[i].c < ob.d * FarEdge(ob.d, ob)}
  IN  IF broken = {} THEN None
      ELSE [lo |-> ob.lo, hi |-> ob.hi, i |-> ob.i, t |-> ob.t, d |-> -ob.d, bt |-> s[Min(broken)].t]
=============================================================================
