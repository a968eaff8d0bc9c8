--------------------------- MODULE MCLLMMetering ---------------------------
\* Model values for LLMMetering.  Two calls fit the caps exactly when both are
\* in flight, and no longer once the first turned out larger than estimated;
\* an answer may be longer than the maximum the provider was given.
EXTENDS LLMMetering

CONSTANTS c1, c2, c3

MCCalls == {c1, c2, c3}
MCTwoCalls == {c1, c2}
MCDailyCap == [d \in Dims |-> 4]
MCMonthlyCap == [d \in Dims |-> IF d = "input" THEN 5 ELSE 4]
\* A month that has room for one call, and no daily cap.
MCOneCall == [d \in Dims |-> 2]
MCNoCap == [d \in Dims |-> 0]
=============================================================================
