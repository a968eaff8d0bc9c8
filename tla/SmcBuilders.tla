----------------------------- MODULE SmcBuilders -----------------------------
(***************************************************************************)
(* From structure to trade candidates: the zone and confirmation           *)
(* validators (ta/smc/validators), the candidate builders (ta/smc/builders)*)
(* and SMCDetector.detect_patterns (ta/smc/detector.py), which runs every  *)
(* detector on a higher and a lower timeframe and combines what they find. *)
(*                                                                         *)
(* A candidate keeps the events it was built from; the text put together   *)
(* for the language model and the logging are left out.                    *)
(***************************************************************************)
EXTENDS SmcDetectors

CONSTANTS
  HtfTF, LtfTF,  \* the timeframes of the two sequences
  InversePip     \* 1 / get_pip_value(symbol): 10000 for a currency pair

ASSUME TimeframeAssumption ==
  /\ HtfTF \in DOMAIN BmsScale /\ LtfTF \in DOMAIN BmsScale
  /\ InversePip \in Nat \ {0}

B2N(b) == IF b THEN 1 ELSE 0

\* The members of a list that are not None.
Present(seq) == SelectSeq(seq, LAMBDA x : x # None)

\* min(xs, key): the first element with the smallest key.
FirstLeast(seq, key(_)) ==
  IF seq = <<>> THEN None
  ELSE seq[SelectInSeq(seq, LAMBDA x : \A n \in DOMAIN seq : key(x) <= key(seq[n]))]

----------------------------------------------------------------------------
(* ZoneValidator *)

ranges_overlap(a, b) == a.lo <= b.hi /\ b.lo <= a.hi

\* get_associated_fvg: the first gap of the zone's direction, within 5 candles of it by
\* index, that overlaps it or lies on its side of it.
get_associated_fvg(ob, fvgs) ==
  LET n == SelectInSeq(fvgs, LAMBDA g :
             /\ g.d = ob.d
             /\ Abs(g.i - ob.i) <= SMCConfig.fvg_max_candle_distance
             /\ \/ ranges_overlap(ob, g)
                \/ ob.d = Up /\ g.lo >= ob.lo
                \/ ob.d = Down /\ g.hi <= ob.hi)
  IN  IF n = 0 THEN None ELSE fvgs[n]

\* score_ob_fib_confluence: 3 in the OTE pocket, 2 on the right half, 1 in the middle.
score_ob_fib_confluence(ob, leg) ==
  IF leg = None THEN 0
  ELSE IF AtOTE(Midpoint(ob), leg, SMCConfig.fib_tolerance_pips) THEN 3
  ELSE LET zone == PriceZone(Midpoint(ob), leg)
       IN  IF zone = (IF ob.d = Up THEN "DISCOUNT" ELSE "PREMIUM") THEN 2
           ELSE B2N(zone = "EQUILIBRIUM")

\* select_relevant_inducement: of the cleared ones between the zone and the breakout,
\* the one cleared last.
select_relevant_inducement(ob, d, idms, breakout) ==
  FirstLeast(SelectSeq(idms, LAMBDA x : /\ x.cleared /\ x.d = d
                                        /\ d * x.level >= d * FarEdge(d, ob)
                                        /\ d * x.level <= d * breakout),
             LAMBDA x : -x.ct)

\* build_fib_context: where in the leg the entry lies, if it lies in it.
build_fib_context(price, leg) ==
  IF leg = None THEN None
  ELSE IF price < leg.low \/ price > leg.high THEN None
  ELSE [zone |-> PriceZone(price, leg), ote |-> AtOTE(price, leg, SMCConfig.fib_tolerance_pips)]

build_sweep_context(sweep) ==
  IF sweep = None THEN None ELSE [kind |-> sweep.kind, back |-> sweep.back, major |-> sweep.major]

\* validate_zone_freshness: no close beyond the far edge after the zone formed.
validate_zone_freshness(ob, s) ==
  \A i \in (ob.i + 1)..Len(s) : ob.d * s[i].c >= ob.d * FarEdge(ob.d, ob)

\* validate_all_ob_rules: liquidity and premium/discount never reject (both return True).
validate_all_ob_rules(ob, fvgs, s) ==
  get_associated_fvg(ob, fvgs) # None /\ validate_zone_freshness(ob, s)

----------------------------------------------------------------------------
(* LTFConfirmationValidator: the seven confirmations *)

validate_liquidity_taken(sweep) == IF sweep = None THEN FALSE ELSE sweep.back

validate_choch_present(choch, sweep) ==
  IF choch = None THEN FALSE ELSE IF sweep = None THEN TRUE ELSE choch.i >= sweep.i

validate_bms_confirmed(bms, choch) ==
  IF choch = None THEN FALSE ELSE bms.i >= choch.i /\ bms.d = choch.d

\* validate_rto_to_ob: the last close is back in a zone that is newer than the break.
validate_rto_to_ob(ob, bms, price) == ob.t > bms.t /\ ob.lo <= price /\ price <= ob.hi

validate_session_timing(s) == ActiveSession(Last(s).t) # "ASIA"

validate_inducement_cleared(idms, ob) ==
  \A n \in DOMAIN idms : idms[n].t < ob.t /\ idms[n].d = ob.d => idms[n].cleared

validate_ltf_fvg_present(fvgs, ob) == \E n \in DOMAIN fvgs : fvgs[n].d = ob.d

validate_all_ltf_confirmations(sweep, choch, bms, ob, idms, s, fvgs) ==
  /\ validate_liquidity_taken(sweep)
  /\ validate_choch_present(choch, sweep)
  /\ validate_bms_confirmed(bms, choch)
  /\ validate_rto_to_ob(ob, bms, Last(s).c)
  /\ validate_session_timing(s)
  /\ validate_inducement_cleared(idms, ob)
  /\ validate_ltf_fvg_present(fvgs, ob)

----------------------------------------------------------------------------
(* Fibonacci legs (builders/fib_leg.py): from the origin of the impulse to its end *)

ImpulseLeg(d, origin, end) == IF d = Up THEN Leg(end, origin, d) ELSE Leg(origin, end, d)

select_leg_for_sh_bms_rto(d, bms, sweep) ==
  IF sweep = None THEN None ELSE ImpulseLeg(d, sweep.level, bms.close)

select_leg_for_sms_bms_rto(d, sms, bms) == ImpulseLeg(d, sms.level, bms.close)

select_leg_for_choch_bms_rto(d, choch) == ImpulseLeg(d, choch.level, choch.close)

select_leg_for_amd(d, range, bms) == ImpulseLeg(d, IF d = Up THEN range.low ELSE range.high, bms.close)

----------------------------------------------------------------------------
(* Confluences: metadata for the language model, never a gate *)

FibPoints(ob, leg) == LET score == score_ob_fib_confluence(ob, leg) IN B2N(score >= 2) + B2N(score >= 3)

SharedConfluences(sweep, choch, ob, leg, st) ==
  B2N(validate_liquidity_taken(sweep)) + B2N(choch # None) + B2N(validate_ltf_fvg_present(st.fvgs, ob))
  + FibPoints(ob, leg) + B2N(\E n \in DOMAIN st.idms : st.idms[n].cleared)

\* The builders divide displacement_pips, which is in pips, by the pip value again.
StrongDisplacement(ob) ==
  ob.disp > 0 /\ ob.disp * InversePip >= SMCConfig.bms_strong_displacement_pips * Pip

\* Breaks are always confirmed and no order block of the detectors is a breaker.
count_confluences(sweep, choch, ob, leg, st) ==
  3 + SharedConfluences(sweep, choch, ob, leg, st) + B2N(StrongDisplacement(ob))

count_sms_confluences(choch, ob, leg, st) ==
  3 + SharedConfluences(None, choch, ob, leg, st) + B2N(StrongDisplacement(ob))

count_amd_confluences(sweep, choch, ob, leg, st) == 2 + SharedConfluences(sweep, choch, ob, leg, st)

count_choch_confluences(htfChoch, sweep, choch, ob, leg, st) ==
  3 + B2N(~htfChoch.minor) + SharedConfluences(sweep, choch, ob, leg, st) + B2N(StrongDisplacement(ob))

----------------------------------------------------------------------------
(* Builders: entry at the middle of the zone, stop beyond what invalidates it, *)
(* target at the nearest opposite swing that pays.  st is the structure found. *)

Prices(sw) == {sw[n].p : n \in DOMAIN sw}

\* _get_swing_highs_from_sequence, _get_swing_lows_from_sequence: three-bar pivots.
PivotPrices(s, d) ==
  {Extreme(d, s[i]) : i \in {j \in 2..(Len(s) - 1) :
     /\ d * Extreme(d, s[j]) > d * Extreme(d, s[j - 1])
     /\ d * Extreme(d, s[j]) > d * Extreme(d, s[j + 1])}}

\* What every builder on a zone does, for the direction its gates require.
ZoneCandidate(pattern, st, d, bms, choch, sweep, ob, leg, tf, sl, levels, conf) ==
  IF bms.d # d \/ ob.d # d \/ ~validate_all_ob_rules(ob, st.fvgs, st.ltf) THEN None
  ELSE [pattern |-> pattern, d |-> d, t |-> Last(st.ltf).t, entry |-> Midpoint(ob), sl |-> sl,
        tp |-> nearest_target(d, Midpoint(ob), sl, resolve_min_tp_rr(tf, ""), levels),
        tf |-> tf, bms |-> bms, choch |-> choch, sweep |-> sweep, ob |-> ob,
        swept |-> build_sweep_context(sweep), fvg |-> get_associated_fvg(ob, st.fvgs),
        idm |-> select_relevant_inducement(ob, d, st.idms, bms.close),
        confirmed |-> validate_all_ltf_confirmations(sweep, choch, bms, ob, st.idms, st.ltf, st.fvgs),
        fib |-> build_fib_context(Midpoint(ob), leg), conf |-> conf]

Continuation(st, d, htfBms, sweep, choch, bms, ob) ==
  LET leg == select_leg_for_sh_bms_rto(d, bms, sweep)
      extreme == IF sweep = None THEN NoLevel ELSE IF d = Up THEN sweep.low ELSE sweep.high
  IN  IF htfBms.d # d THEN None
      ELSE ZoneCandidate("SH_BMS_RTO", st, d, bms, choch, sweep, ob, leg, ob.tf,
                         zone_stop_loss(ob.tf, d, FarEdge(d, ob), extreme), PivotPrices(st.htf, d),
                         count_confluences(sweep, choch, ob, leg, st))

build_bullish_continuation(st, htfBms, sweep, choch, bms, ob) ==
  Continuation(st, Up, htfBms, sweep, choch, bms, ob)

build_bearish_continuation(st, htfBms, sweep, choch, bms, ob) ==
  Continuation(st, Down, htfBms, sweep, choch, bms, ob)

\* The reversal passes no sweep to the confirmations.
SmsReversal(st, d, sms, bms, choch, ob) ==
  LET leg == select_leg_for_sms_bms_rto(d, sms, bms)
  IN  IF sms.d # d THEN None
      ELSE ZoneCandidate("SMS_BMS_RTO", st, d, bms, choch, None, ob, leg, ob.tf,
                         zone_stop_loss(ob.tf, d, FarEdge(d, ob), sms.level), Prices(st.swings[d]),
                         count_sms_confluences(choch, ob, leg, st))

build_bullish_sms_reversal(st, sms, bms, choch, ob) == SmsReversal(st, Up, sms, bms, choch, ob)

build_bearish_sms_reversal(st, sms, bms, choch, ob) == SmsReversal(st, Down, sms, bms, choch, ob)

AmdCandidate(st, d, sweep, bms, choch, ob) ==
  LET leg == select_leg_for_amd(d, st.amd.range, bms)
      bound == IF d = Up THEN st.amd.range.low ELSE st.amd.range.high
  IN  IF st.amd.dist # d THEN None
      ELSE ZoneCandidate("AMD", st, d, bms, choch, sweep, ob, leg, ob.tf,
                         zone_stop_loss(ob.tf, d, FarEdge(d, ob), bound), Prices(st.swings[d]),
                         count_amd_confluences(sweep, choch, ob, leg, st))

build_bullish_amd(st, sweep, bms, choch, ob) == AmdCandidate(st, Up, sweep, bms, choch, ob)

build_bearish_amd(st, sweep, bms, choch, ob) == AmdCandidate(st, Down, sweep, bms, choch, ob)

\* build_choch_candidate: the stop and the target use the lower timeframe's floors.
build_choch_candidate(st, d, htfChoch, bms, choch, sweep, ob) ==
  LET leg == select_leg_for_choch_bms_rto(d, htfChoch)
  IN  ZoneCandidate("CHOCH_BMS_RTO", st, d, bms, choch, sweep, ob, leg, LtfTF,
                    compute_structural_stop_loss(LtfTF, d, htfChoch.level, FarEdge(d, ob)),
                    Prices(st.swings[d]), count_choch_confluences(htfChoch, sweep, choch, ob, leg, st))

\* build_turtle_soup_long (d = Up), build_turtle_soup_short: entry at the swept level.
TurtleCandidate(st, d, sweep) ==
  LET sl == turtle_stop_loss(LtfTF, d, IF d = Up THEN sweep.low ELSE sweep.high)
  IN  IF ~sweep.back \/ sweep.size < SMCConfig.turtle_soup_min_pips * Pip
         \/ ~validate_session_timing(st.ltf)
      THEN None
      ELSE [pattern |-> "TURTLE_SOUP", d |-> d, t |-> sweep.t, entry |-> sweep.level, sl |-> sl,
            tp |-> nearest_target(d, sweep.level, sl, resolve_min_tp_rr(LtfTF, ""), Prices(st.swings[d])),
            tf |-> LtfTF, bms |-> None, choch |-> None, sweep |-> sweep, ob |-> None,
            swept |-> build_sweep_context(sweep), fvg |-> None, idm |-> None, confirmed |-> TRUE, fib |-> None, conf |-> 0]

build_turtle_soup_long(st, sweep) == TurtleCandidate(st, Up, sweep)

build_turtle_soup_short(st, sweep) == TurtleCandidate(st, Down, sweep)

----------------------------------------------------------------------------
(* SMCDetector.detect_patterns: the structure of both sequences, then the candidates *)

\* The bullish (Up) and bearish (Down) list of a detector.
BothWays(bullish, bearish) == [d \in {Up, Down} |-> IF d = Up THEN bullish ELSE bearish]

\* Every structural element detect_patterns collects before it builds anything.
DetectStructure(htf, ltf) ==
  LET hh == Swings(htf, HtfTF, Up)  hl == Swings(htf, HtfTF, Down)
      lh == Swings(ltf, LtfTF, Up)  ll == Swings(ltf, LtfTF, Down)
      soup == BothWays(detect_turtle_soup_long(ltf, ll), detect_turtle_soup_short(ltf, lh))
  IN  [htf |-> htf, ltf |-> ltf, swings |-> BothWays(lh, ll),
       hbms |-> BothWays(detect_bullish_bms(htf, HtfTF, hh), detect_bearish_bms(htf, HtfTF, hl)),
       hsms |-> BothWays(detect_bullish_sms(htf, hl), detect_bearish_sms(htf, hh)),
       hchoch |-> BothWays(detect_bullish_choch(htf, HtfTF, hh), detect_bearish_choch(htf, HtfTF, hl)),
       lbms |-> BothWays(detect_bullish_bms(ltf, LtfTF, lh), detect_bearish_bms(ltf, LtfTF, ll)),
       lchoch |-> BothWays(detect_bullish_choch(ltf, LtfTF, lh), detect_bearish_choch(ltf, LtfTF, ll)),
       fvgs |-> detect_fvgs(ltf) \o detect_fvgs(htf),
       idms |-> detect_bullish_inducement(ltf, ll) \o detect_bearish_inducement(ltf, lh),
       soup |-> soup, amd |-> detect_amd_context(ltf),
       sweeps |-> SweepsInSequence(ltf, lh, ll) \o soup[Up] \o soup[Down]]

\* _find_relevant_sweep: of the sweeps of the side the move came from, the one nearest
\* to the break by index, no further than 10 candles; the first on a tie.
find_relevant_sweep(sweeps, d, bms) ==
  FirstLeast(SelectSeq(sweeps, LAMBDA x : /\ x.side = -d
                                          /\ Abs(x.i - bms.i) <= SMCConfig.sweep_max_candle_distance),
             LAMBDA x : Abs(x.i - bms.i))

\* The order block of a break of the higher or the lower sequence.
HtfBlock(st, d, bms) == IF d = Up THEN detect_bullish_ob(st.htf, HtfTF, bms) ELSE detect_bearish_ob(st.htf, HtfTF, bms)

LtfBlock(st, d, bms) == IF d = Up THEN detect_bullish_ob(st.ltf, LtfTF, bms) ELSE detect_bearish_ob(st.ltf, LtfTF, bms)

\* One direction of _build_continuation_candidates: blocks of every higher break, of
\* every lower break, and of every lower change of character.
ContinuationsFor(st, d) ==
  LET latest == LatestEvent(st.hbms[d])
      choch  == LatestEvent(st.lchoch[d])
      build(c, b, x) == IF x = None THEN None
                        ELSE LET sweep == find_relevant_sweep(st.sweeps, d, b)
                             IN  IF d = Up THEN build_bullish_continuation(st, latest, sweep, c, b, x)
                                 ELSE build_bearish_continuation(st, latest, sweep, c, b, x)
  IN  IF latest = None THEN <<>>
      ELSE Present( MapSeq(LAMBDA b : build(choch, b, HtfBlock(st, d, b)), st.hbms[d])
                 \o MapSeq(LAMBDA b : build(choch, b, LtfBlock(st, d, b)), st.lbms[d])
                 \o MapSeq(LAMBDA c : build(c, latest, detect_ob_from_choch(st.ltf, LtfTF, c)), st.lchoch[d]))

build_continuation_candidates(st) == ContinuationsFor(st, Up) \o ContinuationsFor(st, Down)

\* One direction of _build_reversal_candidates: lower blocks near the latest shift in
\* time; without a lower break the higher block, once for every shift in the list.
ReversalsFor(st, d) ==
  LET sms == LatestEvent(st.hsms[d])
      window == TimeframeMinutes[HtfTF] * SMCConfig.sms_max_ob_candle_distance
      build(choch, b, x) == IF x = None THEN None
                            ELSE IF Abs(x.t - sms.t) > window THEN None
                            ELSE IF d = Up THEN build_bullish_sms_reversal(st, sms, b, choch, x)
                            ELSE build_bearish_sms_reversal(st, sms, b, choch, x)
      hbms == LatestEvent(st.hbms[d])
  IN  IF sms = None THEN <<>>
      ELSE IF st.lbms[d] # <<>>
      THEN Present(MapSeq(LAMBDA b : build(LatestEvent(st.lchoch[d]), b, LtfBlock(st, d, b)), st.lbms[d]))
      ELSE IF hbms = None THEN <<>>
      ELSE Present(MapSeq(LAMBDA x : build(None, hbms, HtfBlock(st, d, hbms)), st.hsms[d]))

build_reversal_candidates(st) == ReversalsFor(st, Up) \o ReversalsFor(st, Down)

\* One direction of _build_choch_reversal_candidates.
ChochReversalsFor(st, d) ==
  LET origin == LatestEvent(st.hchoch[d])
      hbms == LatestEvent(st.hbms[d])
      build(choch, sweep, b, x) ==
        IF x = None THEN None ELSE build_choch_candidate(st, d, origin, b, choch, sweep, x)
  IN  IF origin = None THEN <<>>
      ELSE IF st.lbms[d] # <<>>
      THEN Present(MapSeq(LAMBDA b : build(LatestEvent(st.lchoch[d]), find_relevant_sweep(st.sweeps, d, b),
                                           b, LtfBlock(st, d, b)), st.lbms[d]))
      ELSE IF hbms = None THEN <<>>
      ELSE Present(<<build(None, None, hbms, HtfBlock(st, d, hbms))>>)

build_choch_reversal_candidates(st) == ChochReversalsFor(st, Up) \o ChochReversalsFor(st, Down)

\* _build_turtle_soup_candidates: only the latest sweep of each direction.
build_turtle_soup_candidates(st) ==
  LET latest(d) == LatestEvent(st.soup[d])
      long  == IF latest(Up) = None THEN None ELSE build_turtle_soup_long(st, latest(Up))
      short == IF latest(Down) = None THEN None ELSE build_turtle_soup_short(st, latest(Down))
  IN  Present(<<long, short>>)

\* _build_amd_candidates: blocks of the lower breaks in the distribution's direction.
build_amd_candidates(st) ==
  IF st.amd = None THEN <<>>
  ELSE IF st.amd.dist = 0 THEN <<>>
  ELSE LET d == st.amd.dist
           build(b, x) == IF x = None THEN None
                          ELSE LET sweep == find_relevant_sweep(st.sweeps, d, b)
                                   choch == LatestEvent(st.lchoch[d])
                               IN  IF d = Up THEN build_bullish_amd(st, sweep, b, choch, x)
                                   ELSE build_bearish_amd(st, sweep, b, choch, x)
       IN  Present(MapSeq(LAMBDA b : build(b, LtfBlock(st, d, b)), st.lbms[d]))

SmcCandidates(st) ==
  build_continuation_candidates(st) \o build_reversal_candidates(st)
  \o build_choch_reversal_candidates(st) \o build_turtle_soup_candidates(st) \o build_amd_candidates(st)

detect_smc_patterns(htf, ltf) == SmcCandidates(DetectStructure(htf, ltf))
=============================================================================
