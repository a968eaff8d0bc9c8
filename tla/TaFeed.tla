-------------------------------- MODULE TaFeed --------------------------------
(***************************************************************************)
(* The technical analysis engine on a live market.  Candles of the lower   *)
(* timeframe arrive one by one, the last one still forming; the broker     *)
(* aggregates them into the higher timeframe.  TAOrchestrator.analyze      *)
(* looks at what there is, one of its setups is approved, and the          *)
(* execution watcher polls LTFConfirmationService.confirm for it.          *)
(***************************************************************************)
EXTENDS TaSnapshot

CONSTANTS
  Histories,  \* where the market may start: records [past, ltf] of candles
  Moves,      \* what a candle may do from its open: <<up, down, close>> in pips
  Growth,     \* how many candles may arrive
  Memory      \* how many candles back ClosedStructureKept looks

VARIABLES
  past,     \* higher timeframe candles older than the first of ltf
  ltf,      \* lower timeframe candles, the last one forming
  room,     \* candles that may still arrive
  report,   \* what the last analysis returned, or None
  setup,    \* the approved setup the watcher follows, or None
  verdict   \* the last answer of confirm, until the market moves, or None

vars == <<past, ltf, room, report, setup, verdict>>

Ratio == TimeframeMinutes[HtfTF] \div TimeframeMinutes[LtfTF]

CandleFrom(open, t, m) ==
  [o |-> open, h |-> open + m[1] * Pip, l |-> open - m[2] * Pip, c |-> open + m[3] * Pip, t |-> t]

\* The broker's higher timeframe: Ratio candles to one, the last one forming too.
Aggregated(s) ==
  MapSeq(LAMBDA g : LET a == Ratio * (g - 1) + 1  b == Min({Ratio * g, Len(s)})
                    IN  [o |-> s[a].o, h |-> HighOf(s, a, b), l |-> LowOf(s, a, b), c |-> s[b].c, t |-> s[a].t],
         [g \in 1..((Len(s) + Ratio - 1) \div Ratio) |-> g])

HtfOf(p, s) == p \o Aggregated(s)

htf == HtfOf(past, ltf)

----------------------------------------------------------------------------

Init ==
  /\ \E x \in Histories : past = x.past /\ ltf = x.ltf
  /\ room = Growth
  /\ report = None /\ setup = None /\ verdict = None

\* The market: a new candle opens where the last one closed.
NewCandle(m) ==
  /\ room > 0
  /\ ltf' = Append(ltf, CandleFrom(Last(ltf).c, Last(ltf).t + TimeframeMinutes[LtfTF], m))
  /\ room' = room - 1
  /\ verdict' = None
  /\ UNCHANGED <<past, report, setup>>

\* The market: the forming candle moves on, its high and low only widen.
Tick(m) ==
  LET k == CandleFrom(Last(ltf).o, Last(ltf).t, m)
  IN  /\ room < Growth
      /\ k # Last(ltf) /\ k.h >= Last(ltf).h /\ k.l <= Last(ltf).l
      /\ ltf' = [ltf EXCEPT ![Len(ltf)] = k]
      /\ verdict' = None
      /\ UNCHANGED <<past, room, report, setup>>

\* The gateway has the symbol analysed; either fetch from the broker may fail.
Analyze(gotHtf, gotLtf) ==
  /\ report = None
  /\ report' = [last |-> Last(ltf)] @@ analyze_pair(fetch_candles(htf, gotHtf), fetch_candles(ltf, gotLtf))
  /\ UNCHANGED <<past, ltf, room, setup, verdict>>

\* Some time later one of the setups with a zone is approved, and watched.
Approve ==
  /\ report # None /\ setup = None
  /\ \E c \in ToSet(report.smc) :
       /\ c.ob # None
       /\ setup' = [d |-> c.d, lo |-> c.ob.lo, hi |-> c.ob.hi, sl |-> c.sl]
  /\ UNCHANGED <<past, ltf, room, report, verdict>>

\* The watcher asks; again either fetch may fail.
Confirm(gotHtf, gotLtf) ==
  /\ setup # None /\ verdict = None
  /\ LET answer == confirm(IF gotHtf THEN htf ELSE <<>>, IF gotLtf THEN ltf ELSE <<>>, setup)
     IN  verdict' = [confirmed |-> answer.confirmed, reason |-> answer.reason, checked |-> gotHtf]
  /\ UNCHANGED <<past, ltf, room, report, setup>>

Next ==
  \/ \E m \in Moves : NewCandle(m)
  \/ \E m \in Moves : Tick(m)
  \/ \E gotHtf, gotLtf \in BOOLEAN : Analyze(gotHtf, gotLtf)
  \/ Approve
  \/ \E gotHtf, gotLtf \in BOOLEAN : Confirm(gotHtf, gotLtf)

Spec == Init /\ [][Next]_vars

----------------------------------------------------------------------------
(* Properties *)

\* The feed is what CandleSequence accepts, and the watcher's state is well formed.
TypeOK ==
  /\ SequenceOK(ltf) /\ SequenceOK(htf)
  /\ room \in 0..Growth
  /\ setup # None => setup.d \in Sides /\ setup.lo < setup.hi
  /\ verdict # None => /\ verdict.confirmed \in BOOLEAN
                       /\ verdict.reason \in {"none", "ob_mitigated", "opposing_bms", "sl_blown", "error"}

\* What the detectors have found on closed candles of a sequence: the last candle of each
\* event's evidence is not the forming one.
ClosedStructure(s, tf) ==
  LET highs == Swings(s, tf, Up)  lows == Swings(s, tf, Down)
      before(events) == {e \in ToSet(events) : e.t < Last(s).t}
  IN  [breaks  |-> before(Bms(s, tf, Up, highs) \o Bms(s, tf, Down, lows)),
       changes |-> before(Choch(s, tf, Up, highs) \o Choch(s, tf, Down, lows)),
       shifts  |-> {e \in ToSet(Sms(s, Up, lows) \o Sms(s, Down, highs)) : e.i + EffectiveBars(tf).right < Len(s)},
       sweeps  |-> before(SweepsInSequence(s, highs, lows)),
       gaps    |-> {g \in ToSet(detect_fvgs(s)) : g.i + 1 < Len(s)},
       cleared |-> {e \in ToSet(Inducement(s, Up, lows) \o Inducement(s, Down, highs)) : e.cleared /\ e.ct < Last(s).t},
       flips   |-> before(Flips(s, tf, Down, lows) \o Flips(s, tf, Up, highs)),
       levels  |-> {q \in ToSet(detect_qml(s, tf, highs, lows) \o detect_qmh(s, tf, lows, highs)) : q.bt < Last(s).t}]

\* What an analysis would have seen while one of the last candles was still forming.
Glimpses ==
  {Append(SubSeq(ltf, 1, n - 1), CandleFrom(ltf[n].o, ltf[n].t, m)) : n \in (Len(ltf) - Memory)..Len(ltf), m \in Moves}

\* NO REPAINTING.  Structure established on closed candles (breaks, changes and shifts of
\* structure, sweeps, gaps, cleared inducements, flips and quasimodo levels, on both
\* timeframes) at a time when a later candle was forming, whatever that candle looked
\* like then, is found again, unchanged, now: the detectors read the whole sequence
\* anew on every analysis and never take back what they reported.
ClosedStructureKept ==
  report = None =>
    LET kept(x, y) == \A f \in DOMAIN x : x[f] \subseteq y[f]
        nowLtf == ClosedStructure(ltf, LtfTF)
        nowHtf == ClosedStructure(htf, HtfTF)
    IN  \A g \in Glimpses : /\ kept(ClosedStructure(g, LtfTF), nowLtf)
                            /\ kept(ClosedStructure(HtfOf(past, g), HtfTF), nowHtf)

\* A stop at least the timeframe's floor beyond a price that protects the trade.
Seated(d, sl, edge, tf) == d * (edge - sl) >= timeframe_floor_pips(tf) * Pip

\* The setups of the last analysis.
Reported == IF report = None THEN {} ELSE ToSet(report.smc)

\* An analysis has just been made: the market has not moved since.
Fresh == report # None /\ report.last = Last(ltf)

\* TRADE GEOMETRY.  Every setup analyze returns risks at least the floor of its timeframe
\* beyond its zone or swept extreme, on the losing side of its entry, and aims at nothing
\* or at a price that pays the timeframe's minimum reward for that risk.
TradeGeometry ==
  /\ \A c \in Reported :
       /\ c.d * c.sl < c.d * c.entry
       /\ c.ob # None => Seated(c.d, c.sl, FarEdge(c.d, c.ob), c.tf)
       /\ c.ob = None => Seated(c.d, c.sl, IF c.d = Up THEN c.sweep.low ELSE c.sweep.high, c.tf)
       /\ \/ c.tp = NoLevel
          \/ /\ c.d * c.tp > c.d * c.entry
             /\ 10 * Distance(c.tp, c.entry) >= timeframe_min_tp_rr(c.tf) * Distance(c.entry, c.sl)
  /\ report # None =>
       \A c \in ToSet(report.snd) : validate_geometry(c.d, c) /\ Seated(c.d, c.sl, c.entry, c.tf)

\* CONFIRMATION IS SOUND.  When the service confirms a setup and could read the higher
\* timeframe, no candle of it has closed beyond the zone or the stop since the analysis
\* that proposed the setup, however the price came back, and price is in the zone.
ConfirmedIsSound ==
  verdict # None =>
    (verdict.confirmed /\ verdict.checked =>
       /\ setup.lo <= Last(ltf).c /\ Last(ltf).c <= setup.hi
       /\ \A i \in DOMAIN htf : htf[i].t + TimeframeMinutes[HtfTF] > report.last.t =>
            /\ setup.d * htf[i].c >= setup.d * FarEdge(setup.d, setup)
            /\ setup.d * htf[i].c >= setup.d * setup.sl)

\* orchestrator.py: a candidate whose anchor POI is mitigated cannot be a live setup.
LiveCandidates ==
  Fresh => \A c \in Reported :
    c.ob # None => validate_zone_freshness(c.ob, IF c.ob.tf = HtfTF THEN htf ELSE ltf)

\* orchestrator.py, _array_cap_for: the most recent structure events are retained.
RecentKept ==
  report # None =>
    \A x \in ToSet(report.snaps), y \in ToSet(report.prompt) :
      x.tf = y.tf /\ x.bms # <<>> => LatestEvent(x.bms) \in ToSet(y.bms)

\* orchestrator.py: a fully populated snapshot per timeframe.
SnapshotsComplete == report # None => Len(report.snaps) = 2

\* service.py, _check_ob_still_fresh: identical to ZoneValidator.validate_zone_freshness.
SameFreshness ==
  Fresh => \A x \in ToSet(report.snaps) : x.tf = HtfTF =>
    \A ob \in ToSet(x.obs) : check_ob_still_fresh(htf, ob) = ~ob.mitigated
=============================================================================
