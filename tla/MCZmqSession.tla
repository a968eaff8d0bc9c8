---- MODULE MCZmqSession ----
\* The instance of ZmqSession that TLC checks: one task that trades and fetches
\* candles, one that changes positions, probes and verifies.
EXTENDS ZmqSession, TLC
CONSTANTS c1, c2
MCCommandsOf == (c1 :> {"ORDER_SEND", "read", "CANDLES"}) @@ (c2 :> {"change", "HEALTH", "EA_IDENTITY"})
MCBuilds == {[token |-> TRUE, build |-> "new"], [token |-> TRUE, build |-> "old"],
             [token |-> FALSE, build |-> "new"]}
====
