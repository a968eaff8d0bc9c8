--------------------------- MODULE AnalysisOutput ---------------------------
(***************************************************************************)
(* From the model's text to a trade decision                                *)
(* (src/src/engine/processor/parsing, mapping, audit).  An answer is the    *)
(* JSON document the model wrote, as the fields the code reads:             *)
(*   form     "json", "fenced", "prose" (text around one object), "empty",  *)
(*            "long" (over the size limit), "broken", "array", "schema"     *)
(*            (an object AnalysisOutput refuses)                            *)
(*   id, zone analysis_id and entry_setup.zone_id ("" when missing)         *)
(*   style, dir, grade, proceed, conf                                       *)
(*   score, rr   in tenths; lo, hi, sl prices; tps <<[level, pct], ...>>    *)
(*   reason, sources   lengths of the reasoning and of rag_sources          *)
(* A missing number is None.                                                *)
(***************************************************************************)
EXTENDS Integers, Sequences, FiniteSets

None == -99999
Given(x) == x # None

MaxTakeProfits == 3
MaxCitations == 30
MaxReasoning == 8192
RejectBelow == 50
ScoreMax == 100

Traded(o) == o.dir \in {"LONG", "SHORT"}

\* A mutated form of MinRr: one floor for every style.
MinRrFlat(style) == 30

\* shared/risk.py: the rulebook floor per style, in tenths; unknown styles take
\* the intraday floor.
MinRr(style) ==
  CASE style = "SCALPING" -> 20 [] style = "POSITIONAL" -> 50 [] OTHER -> 30
-----------------------------------------------------------------------------
(* validators.py: each validator returns the rules the output breaks *)

Broken(rule, holds) == IF holds THEN {} ELSE {rule}

ValidateIdentity(o) ==
  Broken("analysis_id", o.id # "") \cup Broken("trading_style", o.style # "")

ValidateDirection(o) ==
  Broken("direction", o.dir \in {"LONG", "SHORT", "NO SETUP"})
    \cup Broken("grade", o.dir = "NO SETUP" => o.grade = "REJECT")
    \cup Broken("proceed", ~(o.dir = "NO SETUP" /\ o.proceed = "YES"))

ValidateScore(o) == Broken("confluence_score", o.score \in 0..ScoreMax)

ValidateGrade(o) ==
  Broken("grade", o.grade \in {"A+", "A", "B", "REJECT"})
    \cup Broken("grade", o.score < RejectBelow => o.grade = "REJECT")

ValidateConstruction(o) ==
  IF ~Traded(o) THEN {} ELSE
    Broken("entry_zone", Given(o.lo) /\ Given(o.hi) /\ o.lo <= o.hi /\ o.lo > 0)
      \cup Broken("stop_loss", Given(o.sl) /\ o.sl > 0)
      \cup Broken("take_profits", o.tps # <<>>)

ValidateRr(o) ==
  Broken("rr_ratio", Traded(o) => Given(o.rr) /\ o.rr > 0 /\ o.rr >= MinRr(o.style))

ValidateProceed(o) ==
  Broken("proceed", o.proceed = "YES" => o.grade \in {"A+", "A", "B"} /\ o.dir # "NO SETUP")

ValidateReasoning(o) == Broken("explainable_reasoning", o.reason \in 1..MaxReasoning)

Percent(o) ==
  LET sum[i \in 0..Len(o.tps)] == IF i = 0 THEN 0 ELSE sum[i - 1] + o.tps[i].pct
  IN sum[Len(o.tps)]

ValidateTakeProfits(o) ==
  IF ~Traded(o) THEN {} ELSE
    Broken("take_profits", Len(o.tps) <= MaxTakeProfits)
      \cup Broken("size_pct sum", o.tps # <<>> => Percent(o) = 100)
      \cup Broken("take_profits", \A i \in DOMAIN o.tps : Given(o.tps[i].level) => o.tps[i].level > 0)

ValidateCitations(o) == Broken("rag_sources", o.sources \in 1..MaxCitations)

ValidateAnalysisOutput(o, requireCitations) ==
  UNION {ValidateIdentity(o), ValidateDirection(o), ValidateScore(o), ValidateGrade(o),
         ValidateConstruction(o), ValidateRr(o), ValidateProceed(o), ValidateReasoning(o),
         ValidateTakeProfits(o), IF requireCitations THEN ValidateCitations(o) ELSE {}}

\* _is_non_fatal_warning
NonFatal == {"explainable_reasoning", "rag_sources", "size_pct sum"}
-----------------------------------------------------------------------------
(* response_parser.py *)

\* _extract_json finds the object in plain, fenced and surrounded text; the rest
\* reaches the JSON parser as it is.
Extracted(form) == form \in {"json", "fenced", "prose", "schema"}

\* parse_llm_response: the class it raises, "" when it returns.
ParseLlmResponse(o, requireCitations) ==
  CASE o.form \in {"empty", "long"} -> "ProcessorError"
    [] ~Extracted(o.form) -> "ProcessorError"
    [] o.form = "schema" -> "LLMSchemaViolationError"
    [] ValidateAnalysisOutput(o, requireCitations) \ NonFatal # {} -> "ProcessorError"
    [] OTHER -> ""

Warnings(o, requireCitations) == ValidateAnalysisOutput(o, requireCitations) \cap NonFatal
-----------------------------------------------------------------------------
(* output_mapper.py *)

Confidence(conf) ==
  CASE conf = "HIGH" -> 85 [] conf = "MEDIUM" -> 60 [] conf = "LOW" -> 35 [] OTHER -> 0

\* Tenths of a percent of the account.
GradeToRisk(grade) ==
  CASE grade \in {"A+", "A"} -> 10 [] grade = "B" -> 5 [] OTHER -> 0

TradeValid(o) == Traded(o) /\ o.grade \in {"A+", "A", "B"} /\ o.proceed = "YES"

TpAt(o, i) == IF i \in DOMAIN o.tps THEN o.tps[i] ELSE [level |-> None, pct |-> 0]

MapToProcessorOutput(o, pair) ==
  [ valid |-> TradeValid(o),
    dir |-> IF o.dir = "NO SETUP" THEN "" ELSE o.dir,
    symbol |-> pair,
    confidence |-> Confidence(o.conf),
    risk |-> IF TradeValid(o) THEN GradeToRisk(o.grade) ELSE None,
    entry |-> IF Given(o.lo) /\ Given(o.hi) THEN (o.lo + o.hi) \div 2 ELSE None,
    lo |-> o.lo, hi |-> o.hi, sl |-> o.sl,
    tp |-> IF o.tps = <<>> THEN None ELSE o.tps[Len(o.tps)].level,
    tps |-> <<TpAt(o, 1), TpAt(o, 2), TpAt(o, 3)>>,
    rr |-> o.rr, style |-> o.style, score |-> o.score, grade |-> o.grade,
    id |-> IF o.zone # "" THEN o.zone ELSE o.id ]
-----------------------------------------------------------------------------
(* audit/logger.py: the rows of analysis_outputs and analysis_audit_logs *)

\* build_analysis_record
AnalysisRecord(o, pair, user) ==
  [ id |-> <<o.id>>, user |-> user, pair |-> pair, dir |-> o.dir, grade |-> o.grade,
    status |-> IF o.dir = "NO SETUP" THEN "no_setup" ELSE "success" ]

\* build_error_analysis_record: the id holds the pair and the second, no user.
ErrorRecord(pair, user, status, second) ==
  [ id |-> <<"error", pair, second>>, user |-> user, pair |-> pair, dir |-> "NO SETUP",
    grade |-> "REJECT", status |-> status ]

\* build_audit_log_record
AuditRecord(o, pair, user, warnings) ==
  [ id |-> <<o.id>>, user |-> user, pair |-> pair, passed |-> warnings = {} ]
-----------------------------------------------------------------------------
(* dashboard_formatter.py: what the stored row says to the user *)

RiskInfo(row) ==
  CASE row.grade \in {"A+", "A"} -> 10 [] row.grade = "B" -> 5 [] OTHER -> 0
TradePlanShown(row) == row.dir # "NO SETUP"
=============================================================================
