----------------------------- MODULE BurstQueue -----------------------------
(***************************************************************************)
(* The order intake gate of the execution service (executor/queue.go),     *)
(* entered at the head of every ExecuteTrade RPC.  A request is a handler  *)
(* goroutine; it is reused once its RPC has been answered.  The mutex      *)
(* q.mu makes each counter access atomic, but Enter reads perUser in one   *)
(* critical section and increments it in another, with the wait for a     *)
(* slot of globalSem in between: that gap is what this module is about.    *)
(***************************************************************************)
EXTENDS Naturals, FiniteSets

CONSTANTS
    Requests,       \* handler goroutines
    Users,
    MaxConcurrent,  \* capacity of the channel globalSem
    PerUserCap

ASSUME QueueConfig ==
    /\ MaxConcurrent \in Nat \ {0}
    /\ PerUserCap \in Nat \ {0}
    /\ IsFiniteSet(Requests)

VARIABLES
    pc,         \* where each request is in Enter / release
    user,       \* the user a request was submitted by
    perUser,    \* map user_id -> in-flight count; an absent key reads 0
    globalSem   \* tokens in the channel

vars == <<pc, user, perUser, globalSem>>

PCs == {"idle", "waiting", "acquired", "running", "releasing", "dropped"}

\* Requests that hold a token of globalSem.
Holders == {r \in Requests : pc[r] \in {"acquired", "running", "releasing"}}

\* Requests of u that have been counted and not yet uncounted.
Counted(u) == {r \in Requests : pc[r] = "running" /\ user[r] = u}

Init ==
    /\ pc = [r \in Requests |-> "idle"]
    /\ user \in [Requests -> Users]
    /\ perUser = [u \in Users |-> 0]
    /\ globalSem = 0

-----------------------------------------------------------------------------
\* A burst of user u reaches Enter: over the cap it is dropped at once with
\* per_user_overflow, otherwise it goes on to wait for a slot.
EnterCheck(r, u) ==
    /\ pc[r] = "idle"
    /\ user' = [user EXCEPT ![r] = u]
    /\ pc' = [pc EXCEPT ![r] = IF perUser[u] >= PerUserCap
                               THEN "dropped" ELSE "waiting"]
    /\ UNCHANGED <<perUser, globalSem>>

MutAcquire(r) ==
    /\ pc[r] = "waiting"
    /\ globalSem <= MaxConcurrent
    /\ globalSem' = globalSem + 1
    /\ pc' = [pc EXCEPT ![r] = "acquired"]
    /\ UNCHANGED <<user, perUser>>

\* The send on the buffered channel succeeds while there is room.
Acquire(r) ==
    /\ pc[r] = "waiting"
    /\ globalSem < MaxConcurrent
    /\ globalSem' = globalSem + 1
    /\ pc' = [pc EXCEPT ![r] = "acquired"]
    /\ UNCHANGED <<user, perUser>>

\* The timer fires or the caller's context is cancelled first.
GiveUp(r) ==
    /\ pc[r] = "waiting"
    /\ pc' = [pc EXCEPT ![r] = "dropped"]
    /\ UNCHANGED <<user, perUser, globalSem>>

\* The second critical section of Enter: perUser[userID]++.
Count(r) ==
    /\ pc[r] = "acquired"
    /\ perUser' = [perUser EXCEPT ![user[r]] = @ + 1]
    /\ pc' = [pc EXCEPT ![r] = "running"]
    /\ UNCHANGED <<user, globalSem>>

MutUncount(r) ==
    /\ pc[r] = "running"
    /\ perUser' = [perUser EXCEPT ![user[r]] = 0]
    /\ pc' = [pc EXCEPT ![r] = "releasing"]
    /\ UNCHANGED <<user, globalSem>>

\* release(), up to q.mu.Unlock(): the entry is deleted when it falls to 0.
Uncount(r) ==
    /\ pc[r] = "running"
    /\ perUser' = [perUser EXCEPT ![user[r]] = IF @ <= 1 THEN 0 ELSE @ - 1]
    /\ pc' = [pc EXCEPT ![r] = "releasing"]
    /\ UNCHANGED <<user, globalSem>>

MutDrain(r) ==
    /\ pc[r] = "releasing"
    /\ globalSem > 1
    /\ globalSem' = globalSem - 1
    /\ pc' = [pc EXCEPT ![r] = "idle"]
    /\ UNCHANGED <<user, perUser>>

\* release(), the receive <-q.globalSem.
Drain(r) ==
    /\ pc[r] = "releasing"
    /\ globalSem > 0
    /\ globalSem' = globalSem - 1
    /\ pc' = [pc EXCEPT ![r] = "idle"]
    /\ UNCHANGED <<user, perUser>>

\* ExecuteTrade answers a request that got no slot with status QUEUED.
AnswerQueued(r) ==
    /\ pc[r] = "dropped"
    /\ pc' = [pc EXCEPT ![r] = "idle"]
    /\ UNCHANGED <<user, perUser, globalSem>>

Step(r) ==
    \/ Acquire(r) \/ GiveUp(r) \/ Count(r)
    \/ Uncount(r) \/ Drain(r) \/ AnswerQueued(r)

Next ==
    \E r \in Requests :
        \/ \E u \in Users : EnterCheck(r, u)
        \/ Step(r)

\* A goroutine that can go on does (the Go scheduler); nobody has to submit.
Spec == Init /\ [][Next]_vars /\ \A r \in Requests : WF_vars(Step(r))

-----------------------------------------------------------------------------
\* Both counters stay natural numbers: release never undoes what Enter did
\* not do.
TypeOK ==
    /\ pc \in [Requests -> PCs]
    /\ user \in [Requests -> Users]
    /\ perUser \in [Users -> Nat]
    /\ globalSem \in Nat

\* Bookkeeping never drifts: globalSem holds exactly one token per request
\* between its send and its receive, and perUser counts exactly the requests
\* that are past the increment and before release, whatever the interleaving
\* of Enter and release and whichever way a wait ends.
SlotAccounting ==
    /\ globalSem = Cardinality(Holders)
    /\ \A u \in Users : perUser[u] = Cardinality(Counted(u))

\* The global ceiling of NewBurstQueue: at most MaxConcurrent orders are
\* between Enter and release, over all users together.
GlobalCap == Cardinality(Holders) <= MaxConcurrent

\* What the type comment promises each user: no more than PerUserCap of
\* their orders in flight, so that a burst cannot take every slot.
PerUserCapHeld == \A u \in Users : perUser[u] <= PerUserCap

\* Every request that starts to wait in Enter is eventually let in or dropped,
\* and every slot is eventually given back: release cannot block in <-globalSem.
SlotReturned ==
    \A r \in Requests : /\ pc[r] = "waiting" ~> pc[r] \in {"running", "dropped"}
                        /\ pc[r] = "running" ~> pc[r] = "idle"
=============================================================================
