-------------------------- MODULE MCOrderExecution --------------------------
\* Instances of OrderExecution: which orders, under which keys, in which
\* modes, and which faults.
EXTENDS OrderExecution, TLC

CONSTANTS o1, o2, o3, k1, k2

\* One order of each mode, two signals.
MixedOrders == {o1, o2}
MixedKeys == {k1, k2}
MixedKey == o1 :> k1 @@ o2 :> k2
MixedMode == o1 :> "LIMIT" @@ o2 :> "INSTANT"

\* One signal and its retries.
RetryKeys == {k1}
RetryKey == [o \in MixedOrders |-> k1]
RetryInstant == [o \in MixedOrders |-> "INSTANT"]
Retries3 == {o1, o2, o3}
RetryKey3 == [o \in Retries3 |-> k1]
RetryLimit3 == [o \in Retries3 |-> "LIMIT"]
Symmetric3 == Permutations(Retries3)

Unconfirmed == {}
FirstConfirmed == {o1}
SecondConfirmed == {o2}

\* Restarts, lost replies, and whatever can happen to the idempotency rows.
RestartFaults == {"crash", "shutdown", "slowExit", "lostReply", "gc", "idemErr"}
\* Everything but the loss of a claim.
ClaimKeepingFaults == FaultKinds \ {"gc", "idemErr"}
CrashAndShutdown == {"crash", "shutdown"}
LostReply == {"lostReply"}
Shutdowns == {"shutdown"}
LongRestart == {"shutdown", "longDowntime"}
NoFaults == {}
=============================================================================
