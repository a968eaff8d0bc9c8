---------------------------- MODULE TradeLevels ----------------------------
(***************************************************************************)
(* Stop-loss and take-profit arithmetic: ta/common/utils/price/            *)
(* stop_loss.py, the target search every SMC builder repeats, and          *)
(* compute_trade_levels of the SnD builders.                               *)
(*                                                                         *)
(* Prices are integers in a unit of which a pip has Pip.  A trade          *)
(* side is Long = 1 or Short = -1.  Reward-to-risk multiples are tenths    *)
(* (25 is 2.5 R), so a take-profit computed as entry + risk * rr is kept   *)
(* ten times as large: it is exact for every risk.                         *)
(***************************************************************************)
EXTENDS Integers

CONSTANT
  Pip  \* get_pip_value of the symbol, in price units

ASSUME PipAssumption == Pip \in Nat \ {0}

Long == 1

Short == -1

Sides == {Long, Short}

NoLevel == 0   \* the Python None of an optional price: prices are positive

\* min / max of two numbers on a side: the further one against the trade.
Further(d, x, y) == IF d * x <= d * y THEN x ELSE y

Distance(x, y) == IF x <= y THEN y - x ELSE x - y

----------------------------------------------------------------------------
(* stop_loss.py *)

TIMEFRAME_SL_FLOOR_PIPS ==
  [M1 |-> 8, M5 |-> 12, M15 |-> 18, M30 |-> 25, H1 |-> 35, H3 |-> 55, H4 |-> 70, H6 |-> 90,
   H8 |-> 110, H12 |-> 140, D1 |-> 200, W1 |-> 400, MN1 |-> 700]

TIMEFRAME_MIN_TP_RR ==
  [M1 |-> 20, M5 |-> 20, M15 |-> 25, M30 |-> 25, H1 |-> 30, H3 |-> 30, H4 |-> 35, H6 |-> 35,
   H8 |-> 40, H12 |-> 40, D1 |-> 50, W1 |-> 50, MN1 |-> 50]

STYLE_MIN_TP_RR ==
  [SCALPING |-> 20, INTRADAY |-> 30, SWING |-> 30, POSITIONAL |-> 50]

LOWEST_STYLE_MIN_RR == 20

TFs == DOMAIN TIMEFRAME_SL_FLOOR_PIPS

timeframe_floor_pips(tf) == TIMEFRAME_SL_FLOOR_PIPS[tf]

AtLeast(x, y) == IF x >= y THEN x ELSE y

timeframe_min_tp_rr(tf) == AtLeast(LOWEST_STYLE_MIN_RR, TIMEFRAME_MIN_TP_RR[tf])

\* resolve_min_tp_rr: "" is an omitted timeframe or style.
resolve_min_tp_rr(tf, style) ==
  LET byStyle == IF style = "" THEN 0 ELSE STYLE_MIN_TP_RR[style]
      byTf    == IF tf = "" THEN 0 ELSE timeframe_min_tp_rr(tf)
  IN  IF style = "" /\ tf = "" THEN LOWEST_STYLE_MIN_RR ELSE AtLeast(byStyle, byTf)

\* structural_buffer, for callers that pass no invalidation candle (all of them do).
structural_buffer(tf) == timeframe_floor_pips(tf) * Pip

\* Mutant: the zone's edge is not taken as a second anchor.
stop_loss_without_edge(tf, d, invalidation, innerEdge) == invalidation - d * structural_buffer(tf)

\* compute_structural_stop_loss; a long's stop is below its anchor, a short's above.
compute_structural_stop_loss(tf, d, invalidation, innerEdge) ==
  LET sl == invalidation - d * structural_buffer(tf)
  IN  IF innerEdge = NoLevel THEN sl
      ELSE Further(d, sl, innerEdge - d * structural_buffer(tf))

\* _compute_structural_stop_loss of the builders: the zone's far edge when there is
\* no protective level.
zone_stop_loss(tf, d, edge, protective) ==
  compute_structural_stop_loss(tf, d, IF protective = NoLevel THEN edge ELSE protective, edge)

\* Turtle soup: the swept extreme, with the 10-pip minimum of turtle_soup_min_sl_pips.
turtle_stop_loss(tf, d, swept) ==
  Further(d, compute_structural_stop_loss(tf, d, swept, NoLevel), swept - d * 10 * Pip)

\* _find_nearest_bsl_target (long), _find_nearest_ssl_target (short): the nearest level on
\* the winning side that pays at least rr tenths of the risk; NoLevel if there is none.
nearest_target(d, entry, sl, rr, levels) ==
  LET paying == {p \in levels : d * p > d * entry /\ 10 * Distance(p, entry) >= rr * Distance(entry, sl)}
  IN  IF paying = {} THEN NoLevel
      ELSE CHOOSE p \in paying : \A q \in paying : d * p <= d * q

----------------------------------------------------------------------------
(* snd/builders/levels.py *)

NoLevels == [entry |-> 0, sl |-> 0, tp10 |-> 0]

\* compute_trade_levels up to the geometry check: entry, stop and ten times the target.
raw_levels(tf, d, entry, extreme, bufferPips) ==
  LET buffer == AtLeast(bufferPips, timeframe_floor_pips(tf)) * Pip
      anchor == IF extreme = NoLevel THEN entry ELSE extreme
      seated == anchor - d * buffer
      sl     == IF d * seated >= d * entry THEN entry - d * buffer ELSE seated
  IN  [entry |-> entry, sl |-> sl,
       tp10 |-> 10 * entry + d * Distance(entry, sl) * resolve_min_tp_rr(tf, "")]

\* _validate_geometry: positive prices, and stop, entry and target in the trade's order.
validate_geometry(d, x) ==
  /\ x.entry > 0 /\ x.sl > 0 /\ x.tp10 > 0
  /\ Distance(x.entry, x.sl) > 0
  /\ d * x.sl < d * x.entry
  /\ d * 10 * x.entry < d * x.tp10

compute_trade_levels(tf, d, entry, extreme, bufferPips) ==
  LET x == raw_levels(tf, d, entry, extreme, bufferPips)
  IN  IF entry > 0 /\ validate_geometry(d, x) THEN x ELSE NoLevels
=============================================================================
