---------------------------- MODULE MCRagRequest ----------------------------
(***************************************************************************)
(* A small instance of RagRequest: a rulebook with more chunks than a      *)
(* bundle keeps beside a framework guide, three queries, and every small   *)
(* shape of a file for the chunkers.                                       *)
(***************************************************************************)
EXTENDS RagRequest

\* A line with n words, numbered from k on; the first one may be special.
Line(level, kind, k, n) ==
    [level |-> level,
     words |-> [i \in 1..n |-> <<IF i = 1 THEN kind ELSE "plain", k + i>>]]

\* A file of n sections, each a heading and size words.
Sections(type, n, size, kind) ==
    [type |-> type,
     lines |-> [i \in 1..(2 * n) |->
        IF i % 2 = 1 THEN Line(2, "plain", 1000 * i, 1) ELSE Line(0, kind, 1000 * i, size)]]

MCLibrary == [type \in {"master_rulebook", "smc_framework"} |->
    IF type = "master_rulebook" THEN Sections(type, 2, 260, "long")
    ELSE Sections(type, 1, 120, "short")]

\* Files of up to four lines: headings and texts, below the minimum size, of
\* one chunk and of several, with and without scenario and category headings.
Kinds == {<<0, "plain", 1>>, <<0, "currency", 9>>, <<0, "plain", 4>>,
          <<2, "category", 1>>, <<3, "plain", 1>>, <<3, "SCENARIO_ID", 2>>}

MCShapes ==
    {[type |-> t, lines |-> [i \in DOMAIN s |-> Line(s[i][1], s[i][2], 20 * i, s[i][3])]] :
        t \in {"master_rulebook", "smc_framework", "macro_to_price_guide", "chart_scenario_library"},
        s \in UNION {[1..n -> Kinds] : n \in 1..4}}

Question(name, signals, strategy, direction) ==
    [name |-> name, signals |-> signals, strategy |-> strategy, framework |-> "smc",
     frameworks |-> {"smc", "snd"}, families |-> {}, direction |-> direction, timeframe |-> ""]

MCQueries == { Question(1, {"smc", "usd"}, "rule_first", ""),
               Question(3, {}, "scenario_first", "long"),
               Question(4, {"metal"}, "macro_bias", "") }

\* Candidates of both frameworks that disagree, none at all, and no analysis.
Candidate(direction) == [direction |-> direction, families |-> {"order_block"}]

Macro == [banks |-> {[bps |-> 25, policy |-> "QT"]},
          cot |-> [positions |-> 3, extremes |-> 0, tff |-> TRUE],
          calendar |-> {[impact |-> "HIGH", name |-> "cpi"]},
          dxy |-> [latest |-> <<>>, snapshots |-> <<[valued |-> TRUE, momentum |-> "RISING"]>>],
          sentiment |-> [risk |-> "RISK_OFF", flags |-> {"stagflation"}]]

MCReruns == { [name |-> 2, symbol |-> {"usd"}, macro |-> Macro,
               ta |-> [status |-> "success", trend |-> "BULLISH",
                       smc |-> <<Candidate("BULLISH")>>, snd |-> <<Candidate("BEARISH")>>]],
              [name |-> 5, symbol |-> {"usd", "metal"}, macro |-> Macro,
               ta |-> [status |-> "success", trend |-> "BEARISH", smc |-> <<>>, snd |-> <<>>]],
              [name |-> 6, symbol |-> {}, macro |-> Macro,
               ta |-> [status |-> "error", trend |-> "", smc |-> <<>>, snd |-> <<>>]] }

\* Hundredths; the framework is less like the queries than the rulebook.
MCSimilarity(q, id) ==
    IF id[1] = "master_rulebook" THEN 40 + ((id[2] * 7 + q.name) % 50)
    ELSE 5 + ((id[2] * 11 + q.name) % 25)
=============================================================================
