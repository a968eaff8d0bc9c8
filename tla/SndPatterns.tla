----------------------------- MODULE SndPatterns -----------------------------
(***************************************************************************)
(* The Supply and Demand framework: the detectors of ta/snd/detectors, the *)
(* confirmations of ta/snd/validators, the candidate builders of           *)
(* ta/snd/builders and SnDDetector.detect_patterns (ta/snd/detector.py).   *)
(*                                                                         *)
(* As in the SMC modules the bullish and the bearish halves of the source  *)
(* are one definition with a direction d: d = Down is the quasimodo level  *)
(* (QML), the support that became resistance and the short; d = Up the     *)
(* QMH, the resistance that became support and the long.                   *)
(***************************************************************************)
EXTENDS SmcBuilders

\* SnDConfig, its defaults.
SnDConfig ==
  [min_previous_touches |-> 2, previous_level_tolerance_pips |-> 3, min_fakeout_tests |-> 1,
   compression_min_candles |-> 3, fibonacci_tolerance_pips |-> 5]

----------------------------------------------------------------------------
(* Detectors *)

\* Quasimodo: two swings in a row, the second further out, the most extreme opposite
\* swing strictly between them as the neckline, and a confirmed break of the neckline.
Quasimodo(s, tf, d, heads, necks) ==
  LET neck(n) == FirstLeast(SelectSeq(necks, LAMBDA w : heads[n].t < w.t /\ w.t < heads[n + 1].t),
                            LAMBDA w : -d * w.p)
      break(n) == FirstCloseBeyond(s, heads[n + 1].i, d, neck(n).p)
      shape == {n \in 1..(Len(heads) - 1) : -d * heads[n + 1].p > -d * heads[n].p /\ neck(n) # None}
      at == Ascending({n \in shape : break(n) # 0
                            /\ Confirmed(s, break(n), d, neck(n).p, RequiredConfirmations(tf))})
      level(n) == [level |-> heads[n].p, t |-> heads[n].t, d |-> d, i |-> break(n),
                   head |-> heads[n + 1].p, hi |-> heads[n + 1].i, neck |-> neck(n).p,
                   bt |-> s[break(n) + RequiredConfirmations(tf) - 1].t]
  IN  MapSeq(level, at)

detect_qml(s, tf, highs, lows) == Quasimodo(s, tf, Down, highs, lows)

detect_qmh(s, tf, lows, highs) == Quasimodo(s, tf, Up, lows, highs)

\* A flip: the first marubozu of the timeframe that closes beyond a swing.
Flips(s, tf, d, sw) ==
  LET break(w) == SelectInSubSeq(s, w.i + 1, Len(s), LAMBDA k : MarubozuOn(d, k, tf) /\ d * k.c > d * w.p)
  IN  MapSeq(LAMBDA w : [level |-> w.p, lt |-> w.t, i |-> break(w), t |-> s[break(w)].t, d |-> d],
             SelectSeq(sw, LAMBDA w : w.i < Len(s) /\ break(w) # 0))

detect_sr_flips(s, tf, lows) == Flips(s, tf, Down, lows)

detect_rs_flips(s, tf, highs) == Flips(s, tf, Up, highs)

\* _check_diamond_fakeout: the extreme of three candles, closing past the previous close.
Diamond(s, i, d) ==
  /\ i >= 3 /\ i < Len(s)
  /\ d * Extreme(-d, s[i]) < d * Extreme(-d, s[i - 1])
  /\ d * Extreme(-d, s[i]) < d * Extreme(-d, s[i + 1])
  /\ d * s[i].c > d * s[i - 1].c

\* Fakeouts of a flipped level: every candle after the flip that reaches it and closes
\* back on the trade's side, until a candle closes through it.
Fakeouts(s, d, flip) ==
  LET through == FirstCloseBeyond(s, flip.i, -d, flip.level)
      until == IF through = 0 THEN Len(s) ELSE through
      tests == Ascending({i \in (flip.i + 1)..until :
                               d * Extreme(-d, s[i]) <= d * flip.level /\ d * s[i].c > d * flip.level})
  IN  MapSeq(LAMBDA i : [i |-> i, t |-> s[i].t, level |-> flip.level, diamond |-> Diamond(s, i, d)], tests)

detect_resistance_fakeouts(s, flip) == Fakeouts(s, Down, flip)

detect_support_fakeouts(s, flip) == Fakeouts(s, Up, flip)

\* check_fakeout_broken_by_marubozu: the first one after the last test; 0 if none.
broken_by_marubozu(s, d, level, last) ==
  SelectInSubSeq(s, last + 1, Len(s), LAMBDA k : Is(d, k) /\ IsMarubozu(k) /\ d * k.c > d * level)

\* _check_internal_engulfing
internal_engulfing(prev, k, next) ==
  LET d == IF Is(Up, k) THEN Up ELSE Down
  IN  d * prev.c < d * k.o /\ d * next.o > d * k.c /\ d * next.c < d * k.o

\* Mini price levels: the candles against the trade among the ten before the head.
MiniLevels(s, d, head) ==
  LET at == Ascending({i \in Max({2, head - 10})..Min({head - 1, Len(s) - 1}) : Is(-d, s[i])})
  IN  IF head < 3 THEN <<>>
      ELSE MapSeq(LAMBDA i : [level |-> Extreme(-d, s[i]),
                              type1 |-> internal_engulfing(s[i - 1], s[i], s[i + 1])], at)

detect_bearish_mpl(s, head) == MiniLevels(s, Down, head)

detect_bullish_mpl(s, head) == MiniLevels(s, Up, head)

\* _cluster_levels: the swings within 3 pips of the first unused one; the level is their
\* average, kept as sum and count.
cluster_levels(sw) ==
  LET step(st, i) ==
        LET mates == {j \in DOMAIN sw : j \notin st.used /\ j # i
                        /\ WithinTolerance(sw[i].p, sw[j].p, SnDConfig.previous_level_tolerance_pips)}
            touches == {i} \cup mates
        IN  IF i \in st.used THEN st
            ELSE [used |-> st.used \cup touches,
                  out |-> IF Cardinality(touches) < SnDConfig.min_previous_touches THEN st.out
                          ELSE Append(st.out, [sum |-> MapThenSumSet(LAMBDA j : sw[j].p, touches),
                                               n |-> Cardinality(touches)])]
  IN  FoldLeft(step, [used |-> {}, out |-> <<>>], [i \in DOMAIN sw |-> i]).out

detect_previous_highs(highs) == IF Len(highs) < SnDConfig.min_previous_touches THEN <<>> ELSE cluster_levels(highs)

detect_previous_lows(lows) == IF Len(lows) < SnDConfig.min_previous_touches THEN <<>> ELSE cluster_levels(lows)

\* find_previous_highs_at_qml, find_previous_lows_at_qmh
LevelsAt(clusters, level) ==
  SelectSeq(clusters, LAMBDA x : Abs(x.sum - x.n * level) <= x.n * SnDConfig.previous_level_tolerance_pips * Pip)

----------------------------------------------------------------------------
(* Confirmations *)

FIBONACCI_VALUES == {0, 236, 382, 500, 618, 705, 786, 790, 1000}

OTE_LEVELS == <<618, 705, 786>>

\* check_fibonacci_alignment: the nearest level is within 5 pips exactly if one is.
check_fibonacci_alignment(price, leg) ==
  IF leg = None THEN FALSE
  ELSE \E f \in FIBONACCI_VALUES :
         Abs(1000 * price - LevelPrice(leg, f)) <= 1000 * SnDConfig.fibonacci_tolerance_pips * Pip

\* _get_fib_level: the nearest OTE level within tolerance; 0 if there is none.
get_fib_level(price, leg) ==
  LET near(f) == Abs(1000 * price - LevelPrice(leg, f))
      best == FirstLeast(OTE_LEVELS, near)
  IN  IF leg = None THEN 0
      ELSE IF near(best) <= 1000 * SnDConfig.fibonacci_tolerance_pips * Pip THEN best ELSE 0

\* validate_compression_at_zone: the four candles that end at the last test.
validate_compression_at_zone(s, tests) ==
  LET i == Last(tests).i
  IN  /\ tests # <<>>
      /\ i > SnDConfig.compression_min_candles
      /\ IsCompression(SubSeq(s, i - SnDConfig.compression_min_candles, i))

\* validate_decision_point
validate_decision_point(s, d, tests) ==
  /\ tests # <<>>
  /\ d * Extreme(-d, s[Last(tests).i]) <= d * Last(tests).level
  /\ d * s[Last(tests).i].c > d * Last(tests).level

\* validate_all_ltf_confirmations; Fibonacci is not required by default.
validate_all_snd_confirmations(s, d, tests, breakout) ==
  /\ validate_compression_at_zone(s, tests)
  /\ breakout # 0
  /\ validate_decision_point(s, d, tests)

\* validate_bullish_marubozu, validate_bearish_marubozu on the breakout candle.
validate_marubozu(s, d, breakout) == IF breakout = 0 THEN FALSE ELSE Is(d, s[breakout]) /\ FullBody(s[breakout])

----------------------------------------------------------------------------
(* Builders.  x is [qm, flip, tests, breakout, leg]: what one loop body of *)
(* detect_patterns has in hand.                                            *)

Touches(prev) == IF prev = None THEN 0 ELSE prev.n

AlignmentPoints(price, leg) == IF check_fibonacci_alignment(price, leg) THEN 2 ELSE 0

\* _count_qml_confluences, _count_qmh_confluences
count_qm_confluences(x, prev, mpl) ==
  1 + Len(x.tests) + Touches(prev) + (IF mpl = None THEN 0 ELSE IF mpl.type1 THEN 2 ELSE 1)
  + AlignmentPoints(x.qm.level, x.leg)

count_continuation_confluences(x, prev) ==
  1 + Len(x.tests) + Touches(prev) + AlignmentPoints(x.qm.level, x.leg)

count_fakeout_confluences(x, prev) ==
  Len(x.tests) + Touches(prev) + AlignmentPoints(x.flip.level, x.leg)
  + B2N(\E n \in DOMAIN x.tests : x.tests[n].diamond)

\* The candidate of a builder: none when compute_trade_levels rejects its geometry.
SndCandidate(pattern, s, d, x, entry, extreme, prev, mpl, conf) ==
  LET levels == compute_trade_levels(LtfTF, d, entry, extreme, SnDConfig.previous_level_tolerance_pips)
  IN  IF levels = NoLevels THEN None
      ELSE [pattern |-> pattern, d |-> d, t |-> Last(s).t, entry |-> levels.entry, sl |-> levels.sl,
            tp10 |-> levels.tp10, tf |-> LtfTF, qm |-> x.qm, flip |-> x.flip, fakeout |-> Last(x.tests),
            confirmed |-> validate_all_snd_confirmations(s, d, x.tests, x.breakout),
            compressed |-> validate_compression_at_zone(s, x.tests),
            marubozu |-> validate_marubozu(s, d, x.breakout), touches |-> Touches(prev), mpl |-> mpl,
            fib |-> get_fib_level(levels.entry, x.leg), conf |-> conf]

QmBaseline(s, d, x) ==
  IF Len(x.tests) < SnDConfig.min_fakeout_tests THEN None
  ELSE SndCandidate("QM_BASELINE", s, d, x, x.qm.level, x.qm.head, None, None, count_qm_confluences(x, None, None))

build_qml_baseline_short(s, x) == QmBaseline(s, Down, x)

build_qmh_baseline_long(s, x) == QmBaseline(s, Up, x)

QmKiller(s, d, x, prev, mpl) ==
  LET type1 == IF mpl = None THEN FALSE ELSE mpl.type1
  IN  IF prev.n < SnDConfig.min_previous_touches \/ Len(x.tests) < SnDConfig.min_fakeout_tests THEN None
      ELSE SndCandidate(IF type1 THEN "QM_KILLER_TYPE1" ELSE "QM_KILLER_TYPE2", s, d, x,
                        x.qm.level, x.qm.head, prev, mpl, count_qm_confluences(x, prev, mpl))

build_qml_killer_setup_short(s, x, prev, mpl) == QmKiller(s, Down, x, prev, mpl)

build_qmh_killer_setup_long(s, x, prev, mpl) == QmKiller(s, Up, x, prev, mpl)

FakeoutKing(s, d, x, prev) ==
  IF Len(x.tests) < SnDConfig.min_fakeout_tests THEN None
  ELSE SndCandidate(IF Len(x.tests) >= 3 THEN "FAKEOUT_KING" ELSE "SOP", s, d, x,
                    x.flip.level, NoLevel, prev, None, count_fakeout_confluences(x, prev))

build_fakeout_king_short(s, x, prev) == FakeoutKing(s, Down, x, prev)

build_fakeout_king_long(s, x, prev) == FakeoutKing(s, Up, x, prev)

SndContinuation(s, d, x, prev) ==
  IF Len(x.tests) < 2 \/ Touches(prev) < 2 THEN None
  ELSE SndCandidate("SND_CONTINUATION", s, d, x, x.flip.level, NoLevel, prev, None,
                    count_continuation_confluences(x, prev))

build_continuation_short(s, x, prev) == SndContinuation(s, Down, x, prev)

build_continuation_long(s, x, prev) == SndContinuation(s, Up, x, prev)

----------------------------------------------------------------------------
(* SnDDetector *)

\* _create_fibonacci_retracement: between the latest swings, in the direction of the last.
create_fibonacci_retracement(highs, lows) ==
  LET high == LatestSwing(highs)  low == LatestSwing(lows)
  IN  IF high = None \/ low = None THEN None
      ELSE Leg(high.p, low.p, IF low.t > high.t THEN Up ELSE Down)

\* The QML half of detect_patterns: what one level and one flip yield.
ShortSetups(htf, ltf, x, prevs) ==
  LET mpls == detect_bearish_mpl(htf, x.qm.hi)
      mpl == IF mpls = <<>> THEN None ELSE mpls[1]
  IN  Present(<<build_qml_baseline_short(ltf, x)>>
              \o MapSeq(LAMBDA p : build_qml_killer_setup_short(ltf, x, p, mpl), prevs)
              \o MapSeq(LAMBDA p : build_fakeout_king_short(ltf, x, p), prevs)
              \o MapSeq(LAMBDA p : build_continuation_short(ltf, x, p), prevs))

\* The QMH half.
LongSetups(htf, ltf, x, prevs) ==
  LET mpls == detect_bullish_mpl(htf, x.qm.hi)
      mpl == IF mpls = <<>> THEN None ELSE mpls[1]
  IN  Present(<<build_qmh_baseline_long(ltf, x)>>
              \o MapSeq(LAMBDA p : build_qmh_killer_setup_long(ltf, x, p, mpl), prevs)
              \o MapSeq(LAMBDA p : build_fakeout_king_long(ltf, x, p), prevs)
              \o MapSeq(LAMBDA p : build_continuation_long(ltf, x, p), prevs))

\* Every level with every flip that has been tested.
SetupsFor(htf, ltf, d, qms, flips, clusters, leg) ==
  LET pair(q, f) ==
        LET tests == IF d = Down THEN detect_resistance_fakeouts(ltf, f) ELSE detect_support_fakeouts(ltf, f)
            x == [qm |-> q, flip |-> f, tests |-> tests, leg |-> leg,
                  breakout |-> broken_by_marubozu(ltf, d, f.level, Last(tests).i)]
            prevs == LevelsAt(clusters, q.level)
        IN  IF tests = <<>> THEN <<>>
            ELSE IF d = Down THEN ShortSetups(htf, ltf, x, prevs) ELSE LongSetups(htf, ltf, x, prevs)
  IN  FlattenSeq(MapSeq(LAMBDA q : FlattenSeq(MapSeq(LAMBDA f : pair(q, f), flips)), qms))

\* _select_best_per_direction: most confluences, then most recent, then first.
select_best_per_direction(cands) ==
  LET better(a, b) == a.conf > b.conf \/ (a.conf = b.conf /\ a.t > b.t)
      step(best, c) ==
        LET n == SelectInSeq(best, LAMBDA b : b.d = c.d)
        IN  IF n = 0 THEN Append(best, c)
            ELSE IF better(c, best[n]) THEN [best EXCEPT ![n] = c] ELSE best
  IN  FoldLeft(step, <<>>, cands)

\* Every candidate built, before the best is selected.
SndCandidates(htf, ltf) ==
  LET hh == Swings(htf, HtfTF, Up)  hl == Swings(htf, HtfTF, Down)
      lh == Swings(ltf, LtfTF, Up)  ll == Swings(ltf, LtfTF, Down)
      leg == create_fibonacci_retracement(hh, hl)
  IN  SetupsFor(htf, ltf, Down, detect_qml(htf, HtfTF, hh, hl), detect_sr_flips(ltf, LtfTF, ll),
                detect_previous_highs(hh), leg)
      \o SetupsFor(htf, ltf, Up, detect_qmh(htf, HtfTF, hl, hh), detect_rs_flips(ltf, LtfTF, lh),
                   detect_previous_lows(hl), leg)

detect_snd_patterns(htf, ltf) == select_best_per_direction(SndCandidates(htf, ltf))
=============================================================================
