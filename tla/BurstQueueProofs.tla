-------------------------- MODULE BurstQueueProofs --------------------------
(***************************************************************************)
(* For any number of requests, users and slots: the counters of BurstQueue *)
(* never drift and the global ceiling holds.  SlotAccounting alone is not  *)
(* inductive, the ceiling needs it, and both need the types, so they are   *)
(* proved together as QueueInv.                                            *)
(***************************************************************************)
EXTENDS BurstQueue, FiniteSetTheorems, TLAPS

\* Most leaves are first-order; those that need arithmetic or records cite SMT.
USE ZenonT(30)

QueueInv ==
    /\ TypeOK
    /\ SlotAccounting
    /\ globalSem <= MaxConcurrent

\* The sets that SlotAccounting counts are finite, whatever the state.
LEMMA CountedFinite ==
    /\ IsFiniteSet(Holders)
    /\ \A u \in Users : IsFiniteSet(Counted(u))
<1>1. Holders \in SUBSET Requests BY DEF Holders
<1>2. \A u \in Users : Counted(u) \in SUBSET Requests BY DEF Counted
<1> QED BY <1>1, <1>2, FS_Subset, QueueConfig

\* All counters are zero before the first RPC, as NewBurstQueue builds them.
LEMMA QueueInvInit == Init => QueueInv
<1> SUFFICES ASSUME Init PROVE QueueInv OBVIOUS
<1> USE DEF Init
<1>1. TypeOK BY DEF TypeOK, PCs
<1>2. Holders = {} BY DEF Holders
<1>3. \A u \in Users : Counted(u) = {} BY DEF Counted
<1>4. SlotAccounting BY <1>2, <1>3, FS_EmptySet DEF SlotAccounting
<1> QED BY SMTT(30), <1>1, <1>4, QueueConfig DEF QueueInv

\* A step that moves no request into or out of the counted sets, and writes
\* no counter, keeps the invariant: EnterCheck, GiveUp, AnswerQueued.
LEMMA Unaccounted ==
    ASSUME QueueInv, TypeOK', UNCHANGED <<perUser, globalSem>>,
           Holders' = Holders,
           \A u \in Users : Counted(u)' = Counted(u)
    PROVE  QueueInv'
BY DEF QueueInv, SlotAccounting

\* Every step of Enter, release and the QUEUED answer preserves QueueInv.
LEMMA QueueInvNext == QueueInv /\ [Next]_vars => QueueInv'
<1> SUFFICES ASSUME QueueInv, [Next]_vars PROVE QueueInv' OBVIOUS
<1> USE DEF QueueInv
<1>1. ASSUME NEW r \in Requests, NEW u \in Users, EnterCheck(r, u) PROVE QueueInv'
  <2>1. TypeOK' BY <1>1 DEF EnterCheck, TypeOK, PCs
  <2>2. Holders' = Holders BY <1>1 DEF EnterCheck, Holders, TypeOK
  <2>3. \A v \in Users : Counted(v)' = Counted(v)
    BY <1>1 DEF EnterCheck, Counted, TypeOK
  <2> QED BY <1>1, <2>1, <2>2, <2>3, Unaccounted DEF EnterCheck
<1>2. ASSUME NEW r \in Requests, Acquire(r) PROVE QueueInv'
  <2>1. TypeOK' BY SMTT(30), <1>2 DEF Acquire, TypeOK, PCs
  <2>2. Holders' = Holders \union {r} /\ r \notin Holders
    BY <1>2 DEF Acquire, Holders, TypeOK
  <2>3. \A v \in Users : Counted(v)' = Counted(v)
    BY <1>2 DEF Acquire, Counted, TypeOK
  <2>4. Cardinality(Holders') = Cardinality(Holders) + 1
    BY <2>2, CountedFinite, FS_AddElement
  <2> QED BY SMTT(30), <1>2, <2>1, <2>3, <2>4, QueueConfig DEF Acquire, SlotAccounting, TypeOK
<1>3. ASSUME NEW r \in Requests, GiveUp(r) PROVE QueueInv'
  <2>1. TypeOK' BY <1>3 DEF GiveUp, TypeOK, PCs
  <2>2. Holders' = Holders BY <1>3 DEF GiveUp, Holders, TypeOK
  <2>3. \A v \in Users : Counted(v)' = Counted(v)
    BY <1>3 DEF GiveUp, Counted, TypeOK
  <2> QED BY <1>3, <2>1, <2>2, <2>3, Unaccounted DEF GiveUp
<1>4. ASSUME NEW r \in Requests, Count(r) PROVE QueueInv'
  <2>1. TypeOK' BY SMTT(30), <1>4 DEF Count, TypeOK, PCs
  <2>2. Holders' = Holders BY <1>4 DEF Count, Holders, TypeOK
  <2>3. user[r] \in Users BY DEF TypeOK
  <2>4. Counted(user[r])' = Counted(user[r]) \union {r} /\ r \notin Counted(user[r])
    BY <1>4 DEF Count, Counted, TypeOK
  <2>5. \A v \in Users \ {user[r]} : Counted(v)' = Counted(v)
    BY <1>4 DEF Count, Counted, TypeOK
  <2>6. Cardinality(Counted(user[r])') = Cardinality(Counted(user[r])) + 1
    BY <2>3, <2>4, CountedFinite, FS_AddElement
  <2>7. ASSUME NEW v \in Users PROVE perUser'[v] = Cardinality(Counted(v)')
    <3>1. CASE v = user[r]
      BY <1>4, <2>6, <3>1 DEF Count, SlotAccounting, TypeOK
    <3>2. CASE v # user[r]
      BY <1>4, <2>5, <3>2 DEF Count, SlotAccounting, TypeOK
    <3> QED BY <3>1, <3>2
  <2> QED BY <1>4, <2>1, <2>2, <2>7 DEF Count, SlotAccounting
<1>5. ASSUME NEW r \in Requests, Uncount(r) PROVE QueueInv'
  <2>1. TypeOK' BY SMTT(30), <1>5 DEF Uncount, TypeOK, PCs
  <2>2. Holders' = Holders BY <1>5 DEF Uncount, Holders, TypeOK
  <2>3. user[r] \in Users BY DEF TypeOK
  <2>4. Counted(user[r])' = Counted(user[r]) \ {r} /\ r \in Counted(user[r])
    BY <1>5 DEF Uncount, Counted, TypeOK
  <2>5. \A v \in Users \ {user[r]} : Counted(v)' = Counted(v)
    BY <1>5 DEF Uncount, Counted, TypeOK
  <2>6. Cardinality(Counted(user[r])') = Cardinality(Counted(user[r])) - 1
    BY <2>3, <2>4, CountedFinite, FS_RemoveElement
  <2>7. Cardinality(Counted(user[r])) \in Nat \ {0}
    BY <2>3, <2>4, CountedFinite, FS_CardinalityType, FS_EmptySet
  <2>8. ASSUME NEW v \in Users PROVE perUser'[v] = Cardinality(Counted(v)')
    <3>1. CASE v = user[r]
      BY SMTT(30), <1>5, <2>6, <2>7, <3>1 DEF Uncount, SlotAccounting, TypeOK
    <3>2. CASE v # user[r]
      BY <1>5, <2>5, <3>2 DEF Uncount, SlotAccounting, TypeOK
    <3> QED BY <3>1, <3>2
  <2> QED BY <1>5, <2>1, <2>2, <2>8 DEF Uncount, SlotAccounting
<1>6. ASSUME NEW r \in Requests, Drain(r) PROVE QueueInv'
  <2>1. TypeOK' BY SMTT(30), <1>6 DEF Drain, TypeOK, PCs
  <2>2. Holders' = Holders \ {r} /\ r \in Holders
    BY <1>6 DEF Drain, Holders, TypeOK
  <2>3. \A v \in Users : Counted(v)' = Counted(v)
    BY <1>6 DEF Drain, Counted, TypeOK
  <2>4. Cardinality(Holders') = Cardinality(Holders) - 1
    BY <2>2, CountedFinite, FS_RemoveElement
  <2> QED BY SMTT(30), <1>6, <2>1, <2>3, <2>4, QueueConfig DEF Drain, SlotAccounting, TypeOK
<1>7. ASSUME NEW r \in Requests, AnswerQueued(r) PROVE QueueInv'
  <2>1. TypeOK' BY <1>7 DEF AnswerQueued, TypeOK, PCs
  <2>2. Holders' = Holders BY <1>7 DEF AnswerQueued, Holders, TypeOK
  <2>3. \A v \in Users : Counted(v)' = Counted(v)
    BY <1>7 DEF AnswerQueued, Counted, TypeOK
  <2> QED BY <1>7, <2>1, <2>2, <2>3, Unaccounted DEF AnswerQueued
<1>8. CASE UNCHANGED vars
  BY <1>8 DEF vars, TypeOK, SlotAccounting, Holders, Counted
<1> QED BY <1>1, <1>2, <1>3, <1>4, <1>5, <1>6, <1>7, <1>8 DEF Next, Step

\* The semaphore and the per-user counters that Enter and release move never
\* go below zero, and every request is at one of the places Enter can be at.
THEOREM QueueTypes == Spec => []TypeOK
<1>1. QueueInv => TypeOK BY DEF QueueInv
<1> QED BY <1>1, QueueInvInit, QueueInvNext, PTL DEF Spec

\* Whatever the interleaving of Enter and release, no slot is leaked or
\* counted twice: globalSem and perUser mirror the requests in flight.
THEOREM SlotAccountingHolds == Spec => []SlotAccounting
<1>1. QueueInv => SlotAccounting BY DEF QueueInv
<1> QED BY <1>1, QueueInvInit, QueueInvNext, PTL DEF Spec

\* At most MaxConcurrent requests hold a slot of the broker at any time.
THEOREM GlobalCapHolds == Spec => []GlobalCap
<1>1. QueueInv => GlobalCap BY DEF QueueInv, SlotAccounting, GlobalCap
<1> QED BY <1>1, QueueInvInit, QueueInvNext, PTL DEF Spec
=============================================================================
