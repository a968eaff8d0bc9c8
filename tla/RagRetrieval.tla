---------------------------- MODULE RagRetrieval ----------------------------
(***************************************************************************)
(* Answering a query from the knowledge base (src/engine/rag/retrieval and *)
(* orchestrator.py): the minimum number of chunks every document type owes *)
(* the query, the four retrieval strategies, the gap filler, the reranker, *)
(* the coverage and conflict checks and the citations.                     *)
(*                                                                         *)
(* A stored chunk is [id, doc, type, section, sub, direction, flags]; its  *)
(* similarity to a query is Similarity(query, id), in hundredths; a ranked *)
(* chunk carries its score.  A query is [name, signals, strategy,          *)
(* framework, frameworks, families, direction, timeframe]; "" and {} stand *)
(* for an argument that is not given.                                      *)
(***************************************************************************)
EXTENDS RagChunks

CONSTANTS Similarity(_, _), RetrievalTopK, RerankTopK,
          ScoreThreshold, MinRuleChunks, MinFrameworkChunks

RetrievalFields ==
    /\ RetrievalTopK \in 1..500 /\ RerankTopK \in 1..200
    /\ ScoreThreshold \in 0..100
    /\ MinRuleChunks \in 1..20 /\ MinFrameworkChunks \in 1..20

ASSUME RetrievalBounds == RetrievalFields

FillOrder == <<"master_rulebook", "trading_style_rules", "smc_framework", "snd_rulebook",
               "wyckoff_guide", "dxy_framework", "cot_interpretation_guide",
               "macro_to_price_guide", "chart_scenario_library">>

RuleTypes == {"master_rulebook", "trading_style_rules"}

MacroTypes == {"macro_to_price_guide", "dxy_framework", "cot_interpretation_guide"}

-----------------------------------------------------------------------------
(* compute_mandatory_requirements *)

Baseline ==
    [t \in DocTypes |->
        CASE t = "master_rulebook" -> 15
          [] t \in {"trading_style_rules", "macro_to_price_guide",
                    "chart_scenario_library"} -> 13
          [] OTHER -> 12]

\* <<the signals that must all be set, document type, the raised minimum>>
SetupRaises == {
    <<{"smc"}, "smc_framework", 16>>,
    <<{"snd"}, "snd_rulebook", 16>>,
    <<{"smc", "snd"}, "smc_framework", 18>>,
    <<{"smc", "snd"}, "snd_rulebook", 18>>,
    <<{"usd"}, "dxy_framework", 15>>,
    <<{"metal"}, "dxy_framework", 17>>,
    <<{"dxy_data"}, "dxy_framework", 15>>}

MacroRaises == {
    <<{"rate_decision"}, "macro_to_price_guide", 17>>,
    <<{"high_impact_event"}, "macro_to_price_guide", 16>>,
    <<{"cot_data"}, "cot_interpretation_guide", 15>>,
    <<{"qe_qt"}, "macro_to_price_guide", 17>>,
    <<{"stagflation"}, "macro_to_price_guide", 17>>,
    <<{"stagflation"}, "master_rulebook", 18>>,
    <<{"cot_extremes"}, "cot_interpretation_guide", 16>>,
    <<{"tff_data"}, "cot_interpretation_guide", 16>>,
    <<{"core_inflation"}, "macro_to_price_guide", 17>>,
    <<{"safe_haven"}, "macro_to_price_guide", 17>>,
    <<{"commodity_weak"}, "macro_to_price_guide", 16>>,
    <<{"dxy_momentum"}, "dxy_framework", 16>>,
    <<{"risk_environment"}, "macro_to_price_guide", 17>>,
    <<{"risk_environment"}, "master_rulebook", 18>>}

\* _raise_min takes the larger of the present and the raised minimum.
MinChunks(signals) ==
    [t \in DocTypes |->
        Max({Baseline[t]} \cup
            {r[3] : r \in {x \in SetupRaises \cup MacroRaises : x[2] = t /\ x[1] \subseteq signals}})]

MandatoryTotal(mins) == Accumulate(LAMBDA n, t : n + mins[t], 0, FillOrder)

-----------------------------------------------------------------------------
(* Retriever *)

\* build_where_filter compares a flag with the Boolean True.
FlagAsked == <<"boolean", "true">>

\* Every group of flags asked for has one the chunk carries.
FlagsMatch(chunk, groups) ==
    \A g \in groups : \E f \in g :
        f \in DOMAIN chunk.flags /\ chunk.flags[f] = FlagAsked

Group(value) == IF value = "" THEN {} ELSE {{value}}

Groups(values) == IF values = {} THEN {} ELSE {values}

Ranked(query, chunk) ==
    [id |-> chunk.id, doc |-> chunk.doc, type |-> chunk.type, section |-> chunk.section,
     sub |-> chunk.sub, direction |-> chunk.direction, flags |-> chunk.flags,
     score |-> Similarity(query, chunk.id)]

\* Best score first; equal scores keep the order of the sequence.
ByScore(chunks) ==
    LET order == SortSeq([i \in 1..Len(chunks) |-> i],
                         LAMBDA i, j : \/ chunks[i].score > chunks[j].score
                                       \/ chunks[i].score = chunks[j].score /\ i < j)
    IN  AsTuple([k \in 1..Len(chunks) |-> chunks[order[k]]])

Take(chunks, k) == SubSeq(chunks, 1, IF k < Len(chunks) THEN k ELSE Len(chunks))

\* A collection as the query sees it: the nearest chunk first.
Nearest(query, collection) ==
    ByScore(AsTuple([i \in DOMAIN collection |-> Ranked(query, collection[i])]))

\* The first top_k chunks, of a collection in this order, that pass the filter;
\* of these, the ones that reach the threshold.
Retrieve(collection, types, groups, topK, threshold) ==
    LET Passes(c) == c.type \in types /\ FlagsMatch(c, groups)
    IN  SelectSeq(Take(SelectSeq(collection, Passes), topK), LAMBDA c : c.score >= threshold)

-----------------------------------------------------------------------------
(* Strategies: buckets in their order.  A bucket is one query of the       *)
(* store: [from, types, groups, topK].                                     *)

FrameworkType ==
    [f \in {"smc", "snd", "wyckoff"} |->
        CASE f = "smc" -> "smc_framework"
          [] f = "snd" -> "snd_rulebook"
          [] f = "wyckoff" -> "wyckoff_guide"]

AtLeast(a, b) == IF a > b THEN a ELSE b

Unseen(merged, chunks) ==
    SelectSeq(chunks, LAMBDA c : \A i \in DOMAIN merged : merged[i].id # c.id)

\* The chunks of a bucket that no earlier bucket gave.
AddBucket(merged, bucket) == merged \o Unseen(merged, bucket)

Bucket(types, groups, topK) ==
    [from |-> "documents", types |-> types, groups |-> groups, topK |-> topK]

FrameworksAsked(query) ==
    {f \in DOMAIN FrameworkType :
        f \in query.frameworks \/ f = query.framework \/ f = "wyckoff"}

\* One bucket per framework asked for; extra is what each may hold beyond its share.
FrameworkBuckets(share, extra, asked, groups) ==
    LET topK == AtLeast(2, share \div Cardinality(asked)) + extra
        order == SelectSeq(<<"smc", "snd", "wyckoff">>, LAMBDA f : f \in asked)
    IN  [i \in 1..Len(order) |-> Bucket({FrameworkType[order[i]]}, groups, topK)]

RuleBucket(topK) == Bucket(RuleTypes, {}, topK)

MacroBucket(query, topK) == Bucket(MacroTypes, Group(query.direction), topK)

\* The flags a setup is described by: families, direction and timeframe.
SetupGroups(query) ==
    Groups(query.families) \cup Group(query.direction) \cup Group(query.timeframe)

\* The scenario collection holds the scenario library's chunks.
ScenarioBucket(query, topK) ==
    [Bucket({"chart_scenario_library"}, SetupGroups(query), topK) EXCEPT !.from = "scenarios"]

Hybrid(query) ==
    <<RuleBucket(AtLeast(3, RetrievalTopK \div 4) + 2)>>
    \o FrameworkBuckets(AtLeast(3, RetrievalTopK \div 3), 2,
                        FrameworksAsked(query), SetupGroups(query))
    \o <<MacroBucket(query, AtLeast(3, RetrievalTopK \div 3) + 2),
         ScenarioBucket(query, AtLeast(3, RetrievalTopK \div 10) + 2)>>

RuleFirst(query) ==
    <<RuleBucket(AtLeast(3, (RetrievalTopK * 30) \div 100) + 3),
      MacroBucket(query, AtLeast(3, (RetrievalTopK * 35) \div 100) + 2)>>
    \o FrameworkBuckets(AtLeast(3, (RetrievalTopK * 35) \div 100), 1,
                        FrameworksAsked(query), SetupGroups(query))

ScenarioFirst(query) ==
    <<ScenarioBucket(query, AtLeast(3, RetrievalTopK \div 10) + 3),
      RuleBucket(AtLeast(3, RetrievalTopK \div 4) + 2)>>
    \o FrameworkBuckets(AtLeast(3, RetrievalTopK \div 3), 1,
                        FrameworksAsked(query), SetupGroups(query))
    \o <<MacroBucket(query, AtLeast(3, RetrievalTopK \div 3) + 2)>>

\* macro_bias looks at all_frameworks only.
MacroBias(query) ==
    <<MacroBucket(query, AtLeast(3, (RetrievalTopK * 37) \div 100) + 3),
      RuleBucket(AtLeast(3, RetrievalTopK \div 4) + 2)>>
    \o FrameworkBuckets(AtLeast(3, (RetrievalTopK * 35) \div 100), 1,
                        FrameworksAsked([query EXCEPT !.framework = ""]), Group(query.direction))

\* _execute_strategy
BucketsOf(query) ==
    CASE query.strategy = "rule_first" -> RuleFirst(query)
      [] query.strategy = "scenario_first" -> ScenarioFirst(query)
      [] query.strategy = "macro_bias" -> MacroBias(query)
      [] OTHER -> Hybrid(query)

CountOf(chunks, type) == Cardinality({i \in DOMAIN chunks : chunks[i].type = type})

-----------------------------------------------------------------------------
(* GapFiller: for every type below its minimum, the best deficit + 3       *)
(* chunks of the type, of which at most deficit new ones are added.        *)

GapThreshold == 10

GapGroups(query) == Group(query.direction) \cup Group(query.timeframe)

Deficit(chunks, mins, type) == mins[type] - CountOf(chunks, type)

Fetched(query, chunks, deficit, collection, type) ==
    Take(Unseen(chunks, Retrieve(collection, {type}, GapGroups(query), deficit + 3, GapThreshold)),
         deficit)

-----------------------------------------------------------------------------
(* Reranker: weights per type (hundredths), bonuses for a section and a    *)
(* subsection, scores in ten-thousandths cut at 1.                         *)

Weight(type) ==
    CASE type = "master_rulebook" -> 150
      [] type \in {"smc_framework", "snd_rulebook"} -> 130
      [] type = "macro_to_price_guide" -> 125
      [] type \in {"dxy_framework", "chart_scenario_library"} -> 120
      [] type = "cot_interpretation_guide" -> 115
      [] OTHER -> 110

WeightedScore(chunk) ==
    LET bonus == (IF chunk.section # NoLabel THEN 200 ELSE 0)
                 + (IF chunk.sub # NoLabel THEN 100 ELSE 0)
        score == chunk.score * Weight(chunk.type) + bonus
    IN  IF score < 10000 THEN score ELSE 10000

\* _enforce_mandatory_minimums
Topped(selected, overflow, mins) ==
    LET Missing(type) ==
            Take(SelectSeq(overflow, LAMBDA c : c.type = type),
                 AtLeast(0, mins[type] - CountOf(selected, type)))
        more == FlatMap(Missing, FillOrder)
    IN  IF more = <<>> THEN selected ELSE ByScore(selected \o more)

Rerank(chunks, mins) ==
    LET topK == AtLeast(RerankTopK, MandatoryTotal(mins))
        scored == ByScore(AsTuple([i \in DOMAIN chunks |->
                            [chunks[i] EXCEPT !.score = WeightedScore(chunks[i])]]))
        selected == Take(scored, topK)
        overflow == SubSeq(scored, topK + 1, Len(scored))
    IN  IF overflow = <<>> THEN selected ELSE Topped(selected, overflow, mins)

-----------------------------------------------------------------------------
(* check_coverage, detect_conflicts *)

FrameworkOf ==
    [t \in DocTypes |->
        CASE t = "smc_framework" -> "smc" [] t = "snd_rulebook" -> "snd"
          [] t = "wyckoff_guide" -> "wyckoff" [] t = "dxy_framework" -> "dxy"
          [] t = "cot_interpretation_guide" -> "cot" [] t = "macro_to_price_guide" -> "macro"
          [] t = "trading_style_rules" -> "style" [] OTHER -> ""]

Coverage(query, chunks, mins) ==
    LET rules == CountOf(chunks, "master_rulebook") + CountOf(chunks, "trading_style_rules")
        frames == Cardinality({i \in DOMAIN chunks : FrameworkOf[chunks[i].type] # ""})
        Has(f) == \E i \in DOMAIN chunks : FrameworkOf[chunks[i].type] = f
        ruleOk == rules >= MinRuleChunks
        frameOk == frames >= MinFrameworkChunks
        frameworksOk == /\ query.framework = "" \/ Has(query.framework)
                        /\ \A f \in {"smc", "snd", "wyckoff", "dxy", "cot", "macro"} : Has(f)
        scenarioOk == query.strategy \in {"hybrid", "scenario_first"}
                      => CountOf(chunks, "chart_scenario_library") > 0
        mandatoryOk == \A t \in DocTypes : CountOf(chunks, t) >= mins[t]
    IN  CASE ruleOk /\ frameOk /\ frameworksOk /\ scenarioOk /\ mandatoryOk -> "sufficient"
          [] ~(ruleOk /\ frameOk /\ frameworksOk /\ scenarioOk /\ mandatoryOk)
             /\ (ruleOk \/ frameOk) -> "partial"
          [] OTHER -> "insufficient"

\* Two frameworks whose one-sided chunks all point one way, but not the same.
Conflict(chunks) ==
    LET oneSided == {i \in DOMAIN chunks :
                        /\ chunks[i].type \notin RuleTypes \cup {"chart_scenario_library"}
                        /\ Cardinality(chunks[i].direction) = 1}
        Signals(t) == UNION {chunks[i].direction : i \in {j \in oneSided : chunks[j].type = t}}
        clear == {t \in DocTypes : Cardinality(Signals(t)) = 1}
    IN  \E t, u \in clear : Signals(t) # Signals(u)

\* build_citations: the active version of the document at the time of asking.
Citations(chunks, versionMap) ==
    {<<chunks[i].id, chunks[i].doc, versionMap[chunks[i].doc]>> :
        i \in {j \in DOMAIN chunks : chunks[j].doc \in DOMAIN versionMap}}

=============================================================================
