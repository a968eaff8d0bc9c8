----------------------------- MODULE MCAnalysis -----------------------------
(***************************************************************************)
(* A small instance of AnalysisCycle: a dashboard rerun beside a second     *)
(* request, which is a gateway call with the same symbol and prompt by the  *)
(* same user or another, a rerun, or a technical analysis of the symbol.    *)
(***************************************************************************)
EXTENDS AnalysisCycle, TLC

CONSTANTS a, b, ann, bob

By(user, kind) == [user |-> user, kind |-> kind]
MCCasts == { (a :> By(ann, "call")) @@ (b :> By(ann, "call")),
             (a :> By(ann, "rerun")) @@ (b :> By(ann, "ta")),
             (a :> By(ann, "call")) @@ (b :> By(bob, "call")) }
MCPairOf == [r \in {a, b} |-> "EURUSD"]
MCPromptOf == [r \in {a, b} |-> 1]

MCFailures == { Failure("APITimeoutError", {"timeout"}, 0),
                Failure("BadRequestError", {"credit balance"}, 400) }

Answer == [ form |-> "json", id |-> "x1", zone |-> "", style |-> "INTRADAY", dir |-> "LONG",
            grade |-> "A", proceed |-> "YES", conf |-> "HIGH", score |-> 75, rr |-> 30,
            lo |-> 100, hi |-> 110, sl |-> 90, tps |-> <<[level |-> 150, pct |-> 100]>>,
            reason |-> 10, sources |-> 2 ]

MCAnswers == { Answer,
               [Answer EXCEPT !.dir = "NO SETUP", !.grade = "REJECT", !.proceed = "NO", !.rr = None, !.sl = None],
               [Answer EXCEPT !.style = "POSITIONAL", !.rr = 49] }

Setup(pattern, price) == [sym |-> "EURUSD", pattern |-> pattern, dir |-> "LONG", price |-> price]
MCFindings == { NoFound,
                [smc |-> <<Setup("AMD", 1001), Setup("AMD", 1002)>>, snd |-> <<Setup("QML", 2000)>>] }
=============================================================================
