------------------------------ MODULE TaSnapshot ------------------------------
(***************************************************************************)
(* What the orchestrator makes of one timeframe and of the candidates:     *)
(* _build_enriched_snapshot with SnapshotBuilder, the alignment of two     *)
(* timeframes, the deduplication and liveness filters of                   *)
(* TAOrchestrator._build_result, and the LTF confirmation service that     *)
(* the execution watcher polls for an approved setup.                      *)
(*                                                                         *)
(* A snapshot that cannot be built is None: the source catches every       *)
(* exception and returns None.  What is filled, tested or broken is a      *)
(* field nothing in the source ever sets, so it is left out.               *)
(***************************************************************************)
EXTENDS SndPatterns

CONSTANTS
  RoundUnit,     \* 0.0001 in price units, at least 1: what round(price, 4) keeps
  HTF_LOOKBACK,  \* candles the invalidation layer fetches (50 in the engine)
  LTF_LOOKBACK   \* candles the confirmation layer fetches (150 in the engine)

ASSUME SnapshotConstants ==
  RoundUnit \in Nat \ {0} /\ HTF_LOOKBACK \in Nat \ {0} /\ LTF_LOOKBACK \in Nat \ {0}

LastN(seq, n) == SubSeq(seq, Max({1, Len(seq) - n + 1}), Len(seq))

----------------------------------------------------------------------------
(* _build_enriched_snapshot *)

\* create_supply_zone, create_demand_zone: from the quasimodo level to the flip.
SupplyDemandZone(d, qm, flip) ==
  [lo |-> Min({qm.level, flip.level}), hi |-> Max({qm.level, flip.level}), t |-> flip.t, d |-> d]

SupplyDemandZones(d, qms, flips) ==
  FlattenSeq(MapSeq(LAMBDA q : MapSeq(LAMBDA f : SupplyDemandZone(d, q, f), flips), qms))

\* extract_session_range: every candle of the session's hours, whatever the day.
SessionRange(s, session) ==
  LET ks == SessionCandles(s, session)
  IN  IF ks = <<>> THEN None
      ELSE [high |-> HighOf(ks, 1, Len(ks)), low |-> LowOf(ks, 1, Len(ks)),
            start |-> ks[1].t, end |-> Last(ks).t]

session_dealing_ranges(s) ==
  Present(MapSeq(LAMBDA x : DealingRange(SessionRange(s, x)), <<"ASIA", "LONDON", "NEW_YORK">>))

\* The order block of each break, marked mitigated when it is no longer fresh.
order_blocks(s, tf, bms) ==
  MapSeq(LAMBDA ob : [lo |-> ob.lo, hi |-> ob.hi, i |-> ob.i, t |-> ob.t, d |-> ob.d,
                      mitigated |-> ~validate_zone_freshness(ob, s)],
         Present(MapSeq(LAMBDA b : OrderBlock(s, tf, b.d, b), bms)))

\* Strictly increasing (d = Up) or decreasing prices of the last three swings.
Monotone(sw, d) ==
  LET recent == LastN(sw, 3)
  IN  Len(recent) >= 2 /\ \A n \in 2..Len(recent) : d * recent[n].p > d * recent[n - 1].p

\* _determine_trend_direction: the later of the last break and the last major change of
\* character (the change on a tie), then price beyond every swing, then the run of the
\* last highs, of the last lows, and at last the half of the range price is in.
determine_trend_direction(s, highs, lows, bms, choch) ==
  LET b == LatestEvent(bms)
      c == LatestEvent(SelectSeq(choch, LAMBDA x : ~x.minor))
      top == Max(Prices(highs))  bottom == Min(Prices(lows))  close == Last(s).c
  IN  IF highs = <<>> \/ lows = <<>> THEN 0
      ELSE IF b # None /\ (IF c = None THEN TRUE ELSE b.t > c.t) THEN b.d
      ELSE IF c # None THEN c.d
      ELSE IF close > top THEN Up
      ELSE IF close < bottom THEN Down
      ELSE IF Monotone(highs, Up) THEN Up
      ELSE IF Monotone(lows, Down) THEN Down
      ELSE IF 2 * close >= top + bottom THEN Up ELSE Down

\* The zones and the retracement whose constructor raises: nothing is kept then.
RaisesOn(zones, highs, lows) ==
  \/ \E n \in DOMAIN zones : zones[n].lo = zones[n].hi
  \/ highs # <<>> /\ lows # <<>> /\ create_fibonacci_retracement(highs, lows) = None

build_enriched_snapshot(s, tf) ==
  LET highs == Swings(s, tf, Up)  lows == Swings(s, tf, Down)
      bms == detect_bullish_bms(s, tf, highs) \o detect_bearish_bms(s, tf, lows)
      choch == detect_bullish_choch(s, tf, highs) \o detect_bearish_choch(s, tf, lows)
      obs == order_blocks(s, tf, bms)
      qml == detect_qml(s, tf, highs, lows)  qmh == detect_qmh(s, tf, lows, highs)
      sr == detect_sr_flips(s, tf, lows)  rs == detect_rs_flips(s, tf, highs)
      supply == SupplyDemandZones(Down, qml, sr)  demand == SupplyDemandZones(Up, qmh, rs)
      leg == create_fibonacci_retracement(highs, lows)
  IN  IF RaisesOn(supply \o demand, highs, lows) THEN None
      ELSE [tf |-> tf, t |-> Last(s).t, highs |-> highs, lows |-> lows, bms |-> bms, choch |-> choch,
            trend |-> determine_trend_direction(s, highs, lows, bms, choch),
            sms |-> detect_bullish_sms(s, lows) \o detect_bearish_sms(s, highs),
            obs |-> obs, fvgs |-> detect_fvgs(s),
            breakers |-> Present(MapSeq(LAMBDA ob : detect_breaker_from_ob(s, ob), obs)),
            idms |-> detect_bullish_inducement(s, lows) \o detect_bearish_inducement(s, highs),
            sweeps |-> SweepsInSequence(s, highs, lows),
            equals |-> EqualGroups(highs) \o EqualGroups(lows),
            flips |-> sr \o rs, qms |-> qml \o qmh, supply |-> supply, demand |-> demand,
            fibs |-> IF leg = None THEN <<>> ELSE <<leg>>, ranges |-> session_dealing_ranges(s),
            session |-> ActiveSession(Last(s).t)]

----------------------------------------------------------------------------
(* _serialize_snapshot: what the language model is given *)

swing_cap_for(tf) == IF tf \in {"M30", "M15", "M5", "M1"} THEN 5 ELSE 8

array_cap_for(tf) == IF tf \in {"M1", "M5"} THEN 3 ELSE 5

\* Mitigated blocks go first, then the oldest elements of every list.
serialize_snapshot(x) ==
  LET cap(list) == LastN(list, array_cap_for(x.tf))
      noisy == x.tf \in {"M1", "M5"}
  IN  [tf |-> x.tf, trend |-> x.trend, highs |-> LastN(x.highs, swing_cap_for(x.tf)),
       lows |-> LastN(x.lows, swing_cap_for(x.tf)),
       bms |-> cap(x.bms), choch |-> cap(x.choch), sms |-> cap(x.sms),
       obs |-> cap(SelectSeq(x.obs, LAMBDA ob : ~ob.mitigated)), fvgs |-> cap(x.fvgs),
       breakers |-> cap(x.breakers), sweeps |-> cap(x.sweeps), idms |-> cap(x.idms),
       qms |-> cap(x.qms), flips |-> cap(x.flips), supply |-> cap(x.supply), demand |-> cap(x.demand),
       equals |-> IF noisy THEN <<>> ELSE cap(x.equals),
       fibs |-> IF noisy THEN <<>> ELSE LastN(x.fibs, 1),
       ranges |-> IF noisy THEN <<>> ELSE LastN(x.ranges, 1)]

----------------------------------------------------------------------------
(* AlignmentService *)

check_trend_alignment(htf, ltf) == htf # 0 /\ ltf # 0 /\ htf = ltf

get_all_zones(x) ==
  MapSeq(LAMBDA z : [lo |-> z.lo, hi |-> z.hi, d |-> z.d], x.obs \o x.fvgs \o x.breakers \o x.supply \o x.demand)

is_zone_nested(small, big) == small.d = big.d /\ small.lo >= big.lo /\ small.hi <= big.hi

\* At least half of the lower timeframe's zones lie in one of the higher timeframe's.
check_zone_nesting(h, l) ==
  LET hz == get_all_zones(h)  lz == get_all_zones(l)
      nested == {n \in DOMAIN lz : \E m \in DOMAIN hz : is_zone_nested(lz[n], hz[m])}
  IN  hz # <<>> /\ lz # <<>> /\ 2 * Cardinality(nested) >= Len(lz)

\* check_alignment; nesting is reported and not required.
check_alignment(h, l) ==
  [aligned |-> check_trend_alignment(h.trend, l.trend), nested |-> check_zone_nesting(h, l)]

\* _determine_overall_trend: of the highest timeframe that has one.
determine_overall_trend(snaps) ==
  LET n == SelectInSeq(snaps, LAMBDA x : x.trend # 0)
  IN  IF n = 0 THEN 0 ELSE snaps[n].trend

----------------------------------------------------------------------------
(* Candidates: deduplication, liveness, one per zone *)

\* round(price, 4)
round4(p) == (2 * p + RoundUnit) \div (2 * RoundUnit)

\* _deduplicate_smc_candidates, _deduplicate_snd_candidates: the first of each key.
deduplicate(cands) ==
  LET key(c) == <<c.pattern, c.d, round4(c.entry)>>
      firsts == Ascending({n \in DOMAIN cands : \A m \in 1..(n - 1) : key(cands[m]) # key(cands[n])})
  IN  MapSeq(LAMBDA n : cands[n], firsts)

\* _smc_is_live: no mitigated block with the candidate's block time on the lower timeframe.
smc_is_live(c, snaps) ==
  IF c.ob = None THEN TRUE
  ELSE ~\E n \in DOMAIN snaps : /\ snaps[n].tf = LtfTF
                                /\ \E m \in DOMAIN snaps[n].obs : /\ snaps[n].obs[m].mitigated
                                                                  /\ snaps[n].obs[m].t = c.ob.t

\* _candidate_rank_key: confluences, the number of flags that are set, the entry.
candidate_rank_key(c) ==
  <<c.conf,
    B2N(c.bms # None) + B2N(c.choch # None \/ (c.pattern = "SMS_BMS_RTO" /\ c.d = Down) \/ c.pattern = "CHOCH_BMS_RTO")
    + B2N(c.pattern = "SMS_BMS_RTO") + B2N(c.sweep # None) + B2N(c.idm # None) + B2N(c.confirmed),
    c.entry>>

RankAbove(x, y) ==
  \/ x[1] > y[1]
  \/ x[1] = y[1] /\ x[2] > y[2]
  \/ x[1] = y[1] /\ x[2] = y[2] /\ x[3] > y[3]

ZONE_PIP_TOLERANCE(tf) == IF tf \in {"M1", "M5"} THEN 5 ELSE IF tf \in {"M15", "M30"} THEN 15 ELSE 30

\* _zone_bucket: the middle of the zone, in steps of twice the tolerance.
zone_bucket(c) == Midpoint(c.ob) \div (2 * ZONE_PIP_TOLERANCE(c.tf) * Pip)

\* _dedupe_smc_candidates_by_zone: the best of each bucket, where the bucket was first
\* met; candidates without a zone come last and all stay.
dedupe_smc_candidates_by_zone(cands) ==
  LET zoned == SelectSeq(cands, LAMBDA c : c.ob # None)
      key(n) == <<zoned[n].tf, zoned[n].d, zone_bucket(zoned[n])>>
      same(n) == {m \in DOMAIN zoned : key(m) = key(n)}
      rank(n) == candidate_rank_key(zoned[n])
      best(n) == CHOOSE m \in same(n) : \A k \in same(n) : RankAbove(rank(m), rank(k)) \/ (rank(m) = rank(k) /\ m <= k)
      firsts == Ascending({n \in DOMAIN zoned : \A m \in same(n) : n <= m})
  IN  MapSeq(LAMBDA n : zoned[best(n)], firsts) \o SelectSeq(cands, LAMBDA c : c.ob = None)

----------------------------------------------------------------------------
(* TAOrchestrator.analyze for one higher and one lower timeframe *)

\* _fetch_candles: nothing stores candles, so they come from the broker or its fallback;
\* an exception of both counts as no candles.
fetch_candles(s, answers) == IF answers THEN s ELSE <<>>

\* A stop that is not positive is refused by the candidate's model, and the exception
\* leaves analyze.
Modelled(found) == [raised |-> \E n \in DOMAIN found : found[n].sl <= 0, found |-> found]

run_smc_detection(htf, ltf) == Modelled(detect_smc_patterns(htf, ltf))

run_snd_detection(htf, ltf) == Modelled(detect_snd_patterns(htf, ltf))

\* _build_result: live candidates, one per zone; the snapshots shortest timeframe first.
\* No builder sets the zone of an SnD candidate, so that filter keeps them all.
build_result(status, snaps, smc, snd, alignments) ==
  [status |-> status, snaps |-> snaps, snd |-> snd,
   smc |-> dedupe_smc_candidates_by_zone(SelectSeq(smc, LAMBDA c : smc_is_live(c, snaps))),
   trend |-> determine_overall_trend(snaps), alignments |-> alignments,
   prompt |-> Reverse(MapSeq(serialize_snapshot, snaps))]

\* The end of analyze: from the snapshots and what the two detectors found.
conclude(snaps, smc, snd) ==
  CASE snaps = <<>> -> build_result("insufficient_data", <<>>, <<>>, <<>>, <<>>)
    [] snaps # <<>> /\ (smc.raised \/ snd.raised) -> build_result("error", <<>>, <<>>, <<>>, <<>>)
    [] OTHER -> build_result("success", snaps, deduplicate(smc.found), deduplicate(snd.found),
                             IF Len(snaps) < 2 THEN <<>> ELSE <<check_alignment(snaps[1], snaps[2])>>)

\* From the fetched sequences to the result.  Without one of them there is no pair to
\* look for patterns in.
analyze_pair(htf, ltf) ==
  LET fetched == SelectSeq(<<[s |-> htf, tf |-> HtfTF], [s |-> ltf, tf |-> LtfTF]>>, LAMBDA x : x.s # <<>>)
      nothing == [raised |-> FALSE, found |-> <<>>]
      pair == Len(fetched) = 2
  IN  conclude(Present(MapSeq(LAMBDA x : build_enriched_snapshot(x.s, x.tf), fetched)),
               IF pair THEN run_smc_detection(htf, ltf) ELSE nothing,
               IF pair THEN run_snd_detection(htf, ltf) ELSE nothing)

----------------------------------------------------------------------------
(* LTFConfirmationService: is an approved setup [d, lo, hi, sl] still good, and has *)
(* the lower timeframe confirmed it                                                 *)

\* Mutant: only the forming candle is looked at.
check_ob_fresh_now(s, x) == x.d * Last(s).c >= x.d * FarEdge(x.d, x)

\* _check_ob_still_fresh: every candle fetched, whenever the block formed.
check_ob_still_fresh(s, x) ==
  x.hi - x.lo <= 0 \/ \A i \in DOMAIN s : x.d * s[i].c >= x.d * FarEdge(x.d, x)

\* _check_no_opposing_bms: none confirmed within the last 20 candles.
check_no_opposing_bms(s, x) ==
  LET opposing == Bms(s, HtfTF, -x.d, Swings(s, HtfTF, -x.d))
      recent == LastN(s, 20)
  IN  ~\E n \in DOMAIN opposing : opposing[n].t >= recent[1].t

\* _check_sl_not_blown: no close beyond the stop in the last 10 candles.
check_sl_not_blown(s, x) ==
  x.sl <= 0 \/ \A i \in DOMAIN LastN(s, 10) : x.d * LastN(s, 10)[i].c >= x.d * x.sl

\* _run_invalidation_layer: the first check that fails; fails open below five candles.
run_invalidation_layer(s, x) ==
  IF Len(s) < 5 THEN "none"
  ELSE IF ~check_ob_still_fresh(s, x) THEN "ob_mitigated"
  ELSE IF ~check_no_opposing_bms(s, x) THEN "opposing_bms"
  ELSE IF ~check_sl_not_blown(s, x) THEN "sl_blown" ELSE "none"

\* _run_ltf_checks: the seven confirmations on the lower timeframe.
run_ltf_checks(s, x) ==
  LET highs == Swings(s, LtfTF, Up)  lows == Swings(s, LtfTF, Down)
      broken == IF x.d = Up THEN highs ELSE lows
      idms == Inducement(s, x.d, IF x.d = Up THEN lows ELSE highs)
      sweeps == SweepsInSequence(s, highs, lows)
      fvgs == detect_fvgs(s)
  IN  /\ \E n \in DOMAIN sweeps : sweeps[n].back
      /\ Choch(s, LtfTF, x.d, broken) # <<>>
      /\ Bms(s, LtfTF, x.d, broken) # <<>>
      /\ x.lo <= Last(s).c /\ Last(s).c <= x.hi
      /\ ActiveSession(Last(s).t) # "ASIA"
      /\ \A n \in DOMAIN idms : idms[n].cleared
      /\ \E n \in DOMAIN fvgs : fvgs[n].d = x.d

\* confirm: htf and ltf are what the broker returned, <<>> for a failed fetch.
confirm(htf, ltf, x) ==
  LET reason == run_invalidation_layer(LastN(htf, HTF_LOOKBACK), x)
  IN  IF reason # "none" THEN [confirmed |-> FALSE, reason |-> reason]
      ELSE IF Len(ltf) < 10 THEN [confirmed |-> FALSE, reason |-> "error"]
      ELSE [confirmed |-> run_ltf_checks(LastN(ltf, LTF_LOOKBACK), x), reason |-> "none"]
=============================================================================
