----------------------------- MODULE RagSignals -----------------------------
(***************************************************************************)
(* The query a dashboard rerun asks the knowledge base: the flags that     *)
(* signal_extractors.py derives from the technical and the macro analysis, *)
(* as routers/analysis.py passes them on.                                  *)
(*                                                                         *)
(* A technical analysis is [status, trend, smc, snd]; a candidate is       *)
(* [direction, families], families being the setup families its fields and *)
(* the name of its pattern stand for.  A macro analysis is [banks, cot,    *)
(* calendar, dxy, sentiment]; a statement of a central bank is [bps,       *)
(* policy], with 0 and "NONE" where it has none.                           *)
(***************************************************************************)
EXTENDS Integers, Sequences, FiniteSets

When(condition, signal) == IF condition THEN {signal} ELSE {}

-----------------------------------------------------------------------------
(* derive_macro_signals *)

\* A rate change and a decision in the calendar raise the same flag.
CentralBankSignals(banks) ==
    When(\E b \in banks : b.policy \in {"QE", "QT"}, "qe_qt")
    \cup When(\E b \in banks : b.bps # 0, "rate_decision")

CotSignals(cot) ==
    When(cot.positions > 0, "cot_data") \cup When(cot.extremes > 0, "cot_extremes")
    \cup When(cot.tff, "tff_data")

CalendarSignals(events) ==
    When(\E e \in events : e.impact = "HIGH", "high_impact_event")
    \cup When(\E e \in events : e.name = "rate decision", "rate_decision")

\* The latest snapshot, or the last of the history; each may be missing.
DxySignals(dxy) ==
    LET shown == IF dxy.latest # <<>> THEN dxy.latest ELSE dxy.snapshots
        latest == shown[Len(shown)]
    IN  IF shown = <<>> THEN {}
        ELSE When(latest.valued, "dxy_data")
             \cup When(latest.momentum \notin {"", "FLAT"}, "dxy_momentum")

SentimentSignals(sentiment) ==
    When(sentiment.risk \notin {"", "NEUTRAL"}, "risk_environment")
    \cup (sentiment.flags \cap {"stagflation", "safe_haven", "commodity_weak"})

MacroSignals(macro) ==
    CentralBankSignals(macro.banks) \cup CotSignals(macro.cot)
    \cup CalendarSignals(macro.calendar) \cup DxySignals(macro.dxy)
    \cup SentimentSignals(macro.sentiment)

-----------------------------------------------------------------------------
(* derive_ta_signals *)

\* Bullish against bearish candidates; without any, the trend of the first
\* snapshot.
Direction(candidates, trend) ==
    LET given == SelectSeq(candidates, LAMBDA c : c.direction # "")
        Count(d) == Cardinality({i \in DOMAIN given : given[i].direction = d})
        bullish == IF given = <<>> /\ trend = "BULLISH" THEN 1 ELSE Count("BULLISH")
        bearish == IF given = <<>> /\ trend = "BEARISH" THEN 1 ELSE Count("BEARISH")
    IN  CASE bullish > bearish -> "long"
          [] bearish > bullish -> "short"
          [] OTHER -> IF given = <<>> /\ trend = "" THEN "" ELSE "neutral"

\* The framework with more candidates, SMC when there are as many of both.
MainFramework(smc, snd) ==
    CASE Len(smc) = 0 /\ Len(snd) = 0 -> ""
      [] Len(smc) > 0 /\ Len(smc) >= Len(snd) -> "smc"
      [] OTHER -> "snd"

TaSignals(ta) ==
    IF ta.status # "success"
    THEN [signals |-> {}, framework |-> "", frameworks |-> {}, families |-> {}, direction |-> ""]
    ELSE LET all == ta.smc \o ta.snd
         IN  [signals |-> When(ta.smc # <<>>, "smc") \cup When(ta.snd # <<>>, "snd"),
              framework |-> MainFramework(ta.smc, ta.snd),
              frameworks |-> When(ta.smc # <<>>, "smc") \cup When(ta.snd # <<>>, "snd")
                             \cup {"wyckoff"},
              families |-> UNION {all[i].families : i \in DOMAIN all},
              direction |-> Direction(all, ta.trend)]

\* rerun_analysis ends here, as NO SETUP, before any retrieval.
EndsEarly(ta) ==
    ta.status \in {"error", "insufficient_data"} /\ ta.smc = <<>> /\ ta.snd = <<>>

\* It asks under the default strategy and without a timeframe;
\* symbol is the set of what its name says, "usd" and "metal".
RerunQuery(name, symbol, ta, macro) ==
    LET t == TaSignals(ta)
    IN  [name |-> name, signals |-> symbol \cup t.signals \cup MacroSignals(macro),
         strategy |-> "hybrid", framework |-> t.framework, frameworks |-> t.frameworks,
         families |-> t.families, direction |-> t.direction, timeframe |-> ""]

=============================================================================
