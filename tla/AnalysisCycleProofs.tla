------------------------ MODULE AnalysisCycleProofs ------------------------
(***************************************************************************)
(* Proofs about AnalysisCycle, for any sets of requests, users, answers,    *)
(* failures and findings, and any timers that TimersOrdered allows.         *)
(*   GuardInv   what the refinement of SingleFlight needs of the records    *)
(*              and the lock; GuardStep takes every action to a step of the *)
(*              guard or a stutter                                          *)
(*   Flight     strengthens OneFlight on the mapped state                   *)
(*   FlowInv    holds, answers and the result cache, place by place         *)
(*   StoreInv   the analyses' transactions, their rows and the audit log    *)
(* Each of the last three is kept by every action, and implies the          *)
(* properties AnalysisCycle states.                                         *)
(***************************************************************************)
EXTENDS AnalysisCycle, TLAPS

\* Most leaves are first-order; those that need arithmetic or records cite SMT.
USE ZenonT(30)

Fields == {"pc", "left", "wait", "handle", "tries", "hold", "cut", "told", "got", "err", "out",
           "gave", "found", "tx", "saw", "some"}

\* No error, nothing answered yet.
Blank == ""

\* The empty string is none of the program's error classes and statuses.
LEMMA BlankApart ==
  Blank \notin Typed \cup {"TimeoutError", "ProcessorError", "LLMSchemaViolationError", "ReadTimeout",
                          "ProcessorInsufficientDataError", "QuotaExceededError", "MeteringUnavailableError",
                          "LLMDuplicateSuppressedError", "LLMTruncatedError", "HTTPException", "DatabaseError",
                          "completed", "lost", "error", "200", "400", "409", "422", "429", "500", "503"}
BY DEF Blank, Typed

Shape == DOMAIN req = Requests /\ \A r \in Requests : DOMAIN req[r] = Fields

\* Only r's record changes, to x.
Becomes(r, x) == /\ DOMAIN req' = Requests /\ req'[r] = x
                 /\ \A q \in Requests : q # r => req'[q] = req[q]

\* Set changes one request's record, and it keeps its fields.
LEMMA SetOne ==
  ASSUME NEW r \in Requests, NEW f, Shape, Set(r, f)
  PROVE  Becomes(r, Patch(req[r], f)) /\ Shape'
<1>1. DOMAIN Patch(req[r], f) = Fields
  BY DEF Patch, Shape
<1> QED BY <1>1 DEF Set, Shape, Becomes

\* A new request has every field.
LEMMA FreshFields == DOMAIN Fresh = Fields
BY DEF Fresh, Fields

\* A request that ends keeps its hold, the cut and whom it saw, and nothing else.
LEMMA EndedOne ==
  ASSUME NEW r \in Requests, NEW e, NEW o, NEW g, Shape, Ended(r, e, o, g)
  PROVE  /\ Becomes(r, req'[r]) /\ Shape'
         /\ req'[r].pc = "done" /\ req'[r].err = e /\ req'[r].out = o /\ req'[r].gave = g
         /\ req'[r].hold = req[r].hold /\ req'[r].cut = req[r].cut /\ req'[r].saw = req[r].saw
         /\ req'[r].left = 0 /\ req'[r].wait = 0 /\ req'[r].handle = "none" /\ req'[r].tries = 0
         /\ req'[r].got = NoAnswer /\ req'[r].tx = NoTx /\ req'[r].found = NoFound
<1> DEFINE x == [Fresh EXCEPT !.pc = "done", !.err = e, !.out = o, !.gave = g,
                              !.hold = req[r].hold, !.cut = req[r].cut, !.saw = req[r].saw]
<1>1. /\ DOMAIN x = Fields
      /\ x.pc = "done" /\ x.err = e /\ x.out = o /\ x.gave = g
      /\ x.hold = req[r].hold /\ x.cut = req[r].cut /\ x.saw = req[r].saw
      /\ x.left = 0 /\ x.wait = 0 /\ x.handle = "none" /\ x.tries = 0
      /\ x.got = NoAnswer /\ x.tx = NoTx /\ x.found = NoFound
  BY DEF Fresh, Fields
<1>2. req' = [req EXCEPT ![r] = x]
  BY DEF Ended
<1> HIDE DEF x
<1> QED BY <1>1, <1>2 DEF Shape, Becomes


(* The guard: what refinement needs of the cycle's own state. *)

Before == {"idle", "bill", "ta", "snapshots", "smc", "snd", "commit", "context"}
Pcs == Before \cup Guarded \cup Executing \cup {"release", "fail", "done"}

Guards(x) ==
  /\ x.pc \in Pcs /\ x.left \in 0..TotalTicks
  /\ x.pc \notin {"release", "fail", "done"} => x.err # "TimeoutError"

Locks == /\ DOMAIN lock = Digests
         /\ \A d \in Digests : DOMAIN lock[d] = {"by", "ttl"} /\ lock[d].ttl \in Nat

GuardInv == /\ Shape /\ cast \in Casts /\ Locks
            /\ \A r \in Requests : Guards(req[r])

\* The state the guard sees, as functions of the record alone.
Stage(x) ==
  CASE x.pc \in Guarded -> "asking"
    [] x.pc \in Executing -> IF x.handle = "own" THEN "flying" ELSE "blind"
    [] x.pc = "release" -> "closing"
    [] x.pc \in {"fail", "done"} -> "gone"
    [] OTHER -> "out"
Left(x) == IF x.pc \in Guarded \cup Executing THEN x.left ELSE 0

\* The refinement mapping read from the records alone.
LEMMA StageIs == \A r \in Requests : StageOf(r) = Stage(req[r]) /\ LeftOf(r) = Left(req[r])
BY DEF StageOf, LeftOf, Stage, Left

\* The same after a step.
LEMMA StageIsNext == \A r \in Requests : StageOf(r)' = Stage(req'[r]) /\ LeftOf(r)' = Left(req'[r])
BY DEF StageOf, LeftOf, Stage, Left

\* Every request's digest is a key (compute_digest).
LEMMA DigestIn == ASSUME cast \in Casts, NEW r \in Requests PROVE Digest(r) \in Digests
<1>1. cast[r].user \in Users
  BY SMTT(30) DEF Users
<1> QED BY <1>1 DEF Digest, Digests, UserOf

\* A digest depends on the request only.
LEMMA DigestKept == ASSUME cast' = cast, NEW r \in Requests PROVE Digest(r)' = Digest(r)
BY DEF Digest, UserOf

\* The guard's stage at each place of the program.
LEMMA StageAt ==
  ASSUME NEW x
  PROVE  /\ x.pc \in Before => Stage(x) = "out" /\ Left(x) = 0
         /\ x.pc \in Guarded => Stage(x) = "asking" /\ Left(x) = x.left
         /\ x.pc \in Executing => Stage(x) = (IF x.handle = "own" THEN "flying" ELSE "blind") /\ Left(x) = x.left
         /\ x.pc = "release" => Stage(x) = "closing" /\ Left(x) = 0
         /\ x.pc \in {"fail", "done"} => Stage(x) = "gone" /\ Left(x) = 0
BY DEF Stage, Left, Before, Guarded, Executing

\* A request's own step as the guard sees it, when the lock is not written.
Pace(y, x) ==
  \/ Stage(x) = Stage(y) /\ Left(x) = Left(y)
  \/ Stage(y) = "out" /\ Stage(x) = "asking" /\ Left(x) = TotalTicks
  \/ Stage(y) = "asking" /\ Stage(x) = "blind" /\ Left(x) = Left(y)
  \/ Stage(y) = "out" /\ Stage(x) = "gone" /\ Left(x) = Left(y)
  \/ Stage(y) \in {"asking", "closing"} /\ Stage(x) = "gone" /\ Left(x) = 0
  \/ Stage(y) \in {"flying", "blind"} /\ Stage(x) = "closing" /\ Left(x) = 0

stages == [q \in Requests |-> StageOf(q)]
lefts == [q \in Requests |-> LeftOf(q)]

\* The guard's state after a step that changes one record.
LEMMA Mapped ==
  ASSUME NEW r \in Requests, NEW x, Becomes(r, x)
  PROVE  /\ stages' = [stages EXCEPT ![r] = Stage(x)] /\ lefts' = [lefts EXCEPT ![r] = Left(x)]
         /\ stages[r] = Stage(req[r]) /\ lefts[r] = Left(req[r])
         /\ Stage(x) = stages[r] => stages' = stages
         /\ Left(x) = lefts[r] => lefts' = lefts
<1>1. \A q \in Requests : StageOf(q)' = IF q = r THEN Stage(x) ELSE StageOf(q)
  BY StageIs, StageIsNext DEF Becomes
<1>2. \A q \in Requests : LeftOf(q)' = IF q = r THEN Left(x) ELSE LeftOf(q)
  BY StageIs, StageIsNext DEF Becomes
<1>3. stages' = [stages EXCEPT ![r] = Stage(x)]
  BY <1>1 DEF stages
<1>4. lefts' = [lefts EXCEPT ![r] = Left(x)]
  BY <1>2 DEF lefts
<1>5. stages[r] = Stage(req[r]) /\ lefts[r] = Left(req[r])
  BY StageIs DEF stages, lefts
<1>6. (Stage(x) = stages[r] => stages' = stages) /\ (Left(x) = lefts[r] => lefts' = lefts)
  BY <1>3, <1>4 DEF stages, lefts
<1> QED BY <1>3, <1>4, <1>5, <1>6

keys == [q \in Requests |-> Digest(q)]

\* The mapped keys depend on the cast only.
LEMMA KeysKept == cast' = cast => keys' = keys
BY DigestKept DEF keys

\* A step of one request that leaves the lock alone is a step of the guard.
LEMMA PaceRefines ==
  ASSUME NEW r \in Requests, NEW x, Becomes(r, x), Pace(req[r], x), cast' = cast, lock' = lock
  PROVE  [SF!SFNext]_SF!sfvars
<1> DEFINE y == req[r]
<1>0. /\ stages' = [stages EXCEPT ![r] = Stage(x)] /\ lefts' = [lefts EXCEPT ![r] = Left(x)]
      /\ stages[r] = Stage(y) /\ lefts[r] = Left(y)
      /\ Stage(x) = Stage(y) => stages' = stages
      /\ Left(x) = Left(y) => lefts' = lefts
  BY Mapped
<1> HIDE DEF y
<1> USE DEF stages, lefts, keys
<1>1. CASE Stage(x) = Stage(y) /\ Left(x) = Left(y)
  BY <1>0, <1>1, KeysKept DEF SF!sfvars
<1>2. CASE Stage(y) = "out" /\ Stage(x) = "asking" /\ Left(x) = TotalTicks
  <2>1. SF!Ask(r)
    BY <1>0, <1>2 DEF SF!Ask, SF!Move
  <2> QED BY <2>1, KeysKept DEF SF!SFNext, SF!Step
<1>3. CASE Stage(y) = "asking" /\ Stage(x) = "blind" /\ Left(x) = Left(y)
  <2>1. SF!FlyBlind(r)
    BY <1>0, <1>3 DEF SF!FlyBlind, SF!Move
  <2> QED BY <2>1, KeysKept DEF SF!SFNext, SF!Step
<1>4. CASE Stage(y) = "out" /\ Stage(x) = "gone" /\ Left(x) = Left(y)
  <2>1. SF!Skip(r)
    BY <1>0, <1>4 DEF SF!Skip, SF!Move
  <2> QED BY <2>1, KeysKept DEF SF!SFNext, SF!Step
<1>5. CASE Stage(y) = "asking" /\ Stage(x) = "gone" /\ Left(x) = 0
  <2>1. SF!GiveUp(r)
    BY <1>0, <1>5 DEF SF!GiveUp, SF!Move, SF!Spent
  <2> QED BY <2>1, KeysKept DEF SF!SFNext, SF!Step
<1>6. CASE Stage(y) = "closing" /\ Stage(x) = "gone" /\ Left(x) = 0
  <2>0. Left(y) = 0
    BY <1>6, StageAt DEF Left
  <2>1. SF!Land(r)
    BY <1>0, <1>6, <2>0 DEF SF!Land, SF!Move
  <2> QED BY <2>1, KeysKept DEF SF!SFNext, SF!Step
<1>7. CASE Stage(y) \in {"flying", "blind"} /\ Stage(x) = "closing" /\ Left(x) = 0
  <2>1. SF!Close(r)
    BY <1>0, <1>7 DEF SF!Close, SF!Move, SF!Spent
  <2> QED BY <2>1, KeysKept DEF SF!SFNext, SF!Step
<1> QED BY <1>1, <1>2, <1>3, <1>4, <1>5, <1>6, <1>7 DEF Pace, y

holders == [d \in Digests |-> lock[d].by]
ttls == [d \in Digests |-> lock[d].ttl]

\* SET NX on a free key.
LEMMA LockTaken ==
  ASSUME GuardInv, NEW r \in Requests, Free(Digest(r)), lock' = Locked(Digest(r), r)
  PROVE  /\ ttls[Digest(r)] = 0
         /\ holders' = [holders EXCEPT ![Digest(r)] = r]
         /\ ttls' = [ttls EXCEPT ![Digest(r)] = LockTicks]
         /\ Locks'
<1>1. Digest(r) \in Digests /\ Locks
  BY DigestIn DEF GuardInv
<1>2. LockTicks \in Nat
  BY GuardAssumed DEF SF!GuardConstants
<1> QED BY <1>1, <1>2 DEF holders, ttls, Locked, Free, Locks

\* The compare-and-delete.
LEMMA LockDropped ==
  ASSUME GuardInv, NEW r \in Requests, lock' = Unlocked(r), lock' # lock
  PROVE  /\ holders[Digest(r)] = r
         /\ holders' = [holders EXCEPT ![Digest(r)] = Nobody]
         /\ ttls' = [ttls EXCEPT ![Digest(r)] = 0]
         /\ Locks'
<1>1. Digest(r) \in Digests /\ Locks
  BY DigestIn DEF GuardInv
<1>2. lock[Digest(r)].by = r /\ lock' = [lock EXCEPT ![Digest(r)] = NoLock]
  BY DEF Unlocked
<1>3. DOMAIN NoLock = {"by", "ttl"} /\ NoLock.by = Nobody /\ NoLock.ttl = 0
  BY DEF NoLock
<1>4. Locks'
  BY <1>1, <1>2, <1>3, SMTT(30) DEF Locks
<1>5. holders' = [holders EXCEPT ![Digest(r)] = Nobody] /\ ttls' = [ttls EXCEPT ![Digest(r)] = 0]
  BY <1>1, <1>2, <1>3 DEF Locks, holders, ttls
<1>6. holders[Digest(r)] = r
  BY <1>1, <1>2 DEF holders
<1> QED BY <1>4, <1>5, <1>6

\* A step that takes the lock.
LEMMA TakingRefines ==
  ASSUME GuardInv, NEW r \in Requests, NEW x, Becomes(r, x), cast' = cast,
         Free(Digest(r)), lock' = Locked(Digest(r), r), Stage(req[r]) = "asking",
         \/ Stage(x) \in {"asking", "flying"} /\ Left(x) = Left(req[r])
         \/ Stage(x) = "gone" /\ Left(x) = 0
  PROVE  [SF!SFNext]_SF!sfvars
<1>0. /\ stages' = [stages EXCEPT ![r] = Stage(x)] /\ lefts' = [lefts EXCEPT ![r] = Left(x)]
      /\ stages[r] = "asking" /\ lefts[r] = Left(req[r])
      /\ Stage(x) = "asking" => stages' = stages
      /\ Left(x) = Left(req[r]) => lefts' = lefts
  BY Mapped, SMTT(30)
<1>1. keys' = keys /\ keys[r] = Digest(r)
  BY KeysKept DEF keys
<1>2. SF!Lock(r)
  BY LockTaken, <1>1 DEF SF!Lock, holders, ttls, keys
<1> USE DEF stages, lefts
<1>3. CASE Stage(x) = "flying" /\ Left(x) = Left(req[r])
  <2>1. SF!TakeOff(r)
    BY <1>0, <1>2, <1>3 DEF SF!TakeOff, SF!Move
  <2> QED BY <1>1, <2>1 DEF SF!SFNext, SF!Step, keys
<1>4. CASE Stage(x) = "asking" /\ Left(x) = Left(req[r])
  <2>1. SF!LoseReply(r)
    BY <1>0, <1>2, <1>4 DEF SF!LoseReply
  <2> QED BY <1>1, <2>1 DEF SF!SFNext, SF!Step, keys
<1>5. CASE Stage(x) = "gone" /\ Left(x) = 0
  <2>1. SF!GiveUp(r)
    BY <1>0, <1>2, <1>5 DEF SF!GiveUp, SF!Move, SF!Spent
  <2> QED BY <1>1, <2>1 DEF SF!SFNext, SF!Step, keys
<1> QED BY <1>3, <1>4, <1>5

\* A step that lets it go.
LEMMA DroppingRefines ==
  ASSUME GuardInv, NEW r \in Requests, NEW x, Becomes(r, x), cast' = cast, lock' = Unlocked(r),
         Stage(req[r]) = "closing", Stage(x) = "gone", Left(req[r]) = 0, Left(x) = 0
  PROVE  [SF!SFNext]_SF!sfvars /\ Locks'
<1>1. CASE lock' = lock
  BY <1>1, PaceRefines DEF Pace, GuardInv, Locks
<1>2. CASE lock' # lock
  <2>0. /\ stages' = [stages EXCEPT ![r] = "gone"] /\ stages[r] = "closing" /\ lefts' = lefts
    BY Mapped, SMTT(30)
  <2>1. keys' = keys /\ keys[r] = Digest(r)
    BY KeysKept DEF keys
  <2>2. SF!Unlock(r)
    BY <1>2, LockDropped, <2>1 DEF SF!Unlock, holders, ttls, keys
  <2>3. SF!Land(r)
    BY <2>0, <2>2 DEF SF!Land, SF!Move, stages, lefts
  <2> QED BY <1>2, <2>1, <2>3, LockDropped DEF SF!SFNext, SF!Step, keys
<1> QED BY <1>1, <1>2

-----------------------------------------------------------------------------
(* Every action *)

\* What a request's step may do without touching the lock.
Quiet(r, x) ==
  Becomes(r, x) /\ Pace(req[r], x) /\ Guards(x) /\ lock' = lock /\ cast' = cast

\* So is a step whose record stays in its stage.
LEMMA QuietRefines ==
  ASSUME GuardInv, NEW r \in Requests, NEW x, Quiet(r, x), Shape'
  PROVE  GuardInv' /\ [SF!SFNext]_SF!sfvars
<1>1. [SF!SFNext]_SF!sfvars
  BY PaceRefines DEF Quiet
<1>2. \A q \in Requests : Guards(req'[q])
  BY DEF Quiet, Becomes, GuardInv
<1>3. Locks'
  BY DEF Quiet, GuardInv, Locks
<1>4. \A q \in Requests : Guards(req[q])'
  BY <1>2 DEF Guards
<1> QED BY <1>1, <1>3, <1>4 DEF Quiet, GuardInv

\* Ending a request from outside the LLM call.
LEMMA EndedQuiet ==
  ASSUME GuardInv, NEW r \in Requests, NEW e, NEW o, NEW g, Ended(r, e, o, g),
         lock' = lock, cast' = cast, req[r].pc \notin Executing
  PROVE  Quiet(r, req'[r]) /\ Shape'
<1>1. /\ Becomes(r, req'[r]) /\ Shape'
      /\ req'[r].pc = "done" /\ req'[r].left = 0
  BY EndedOne DEF GuardInv
<1>2. Stage(req'[r]) = "gone" /\ Left(req'[r]) = 0
  BY <1>1, StageAt
<1>3. req[r].pc \in Before \cup Guarded \cup {"release", "fail", "done"}
  BY DEF GuardInv, Guards, Pcs
<1>4. Pace(req[r], req'[r])
  BY <1>2, <1>3, StageAt DEF Pace
<1>5. Guards(req'[r])
  BY <1>1, GuardAssumed, SMTT(30) DEF Guards, Pcs, Guarded, Executing, SF!GuardConstants
<1> QED BY <1>1, <1>4, <1>5 DEF Quiet

\* A step within the cycle that leaves the lock alone, by what it does to the
\* fields the guard sees.
Walk(y, x) ==
  /\ \/ y.pc \in Before /\ x.pc \in Before /\ x.left = y.left
     \/ y.pc \in Before /\ x.pc \in Guarded /\ x.left = TotalTicks
     \/ y.pc \in Guarded /\ x.pc \in Guarded /\ x.left = y.left
     \/ y.pc \in Guarded /\ x.pc \in Executing /\ x.left = y.left /\ x.handle # "own"
     \/ y.pc \in Guarded /\ x.pc = "fail" /\ x.left \in {0, y.left}
     \/ y.pc \in Executing /\ x.pc \in Executing /\ x.left = y.left /\ x.handle = y.handle
     \/ y.pc \in Executing /\ x.pc = "release" /\ x.left = y.left
     \/ y.pc = "release" /\ x.pc = "fail" /\ x.left \in {0, y.left}
  /\ x.pc \notin {"release", "fail", "done"} => x.err # "TimeoutError"

\* A step between two places outside the guard keeps GuardInv and the stage.
LEMMA WalkQuiet ==
  ASSUME GuardInv, NEW r \in Requests, NEW x, Walk(req[r], x)
  PROVE  Pace(req[r], x) /\ Guards(x)
<1> DEFINE y == req[r]
<1>0. Walk(y, x) /\ y.left \in 0..TotalTicks /\ TotalTicks \in Nat
  BY GuardAssumed DEF GuardInv, Guards, SF!GuardConstants
<1> HIDE DEF y
<1>1. Pace(y, x)
  BY <1>0, StageAt DEF Walk, Pace
<1>2. Guards(x)
  BY <1>0, SMTT(30) DEF Walk, Guards, Pcs
<1> QED BY <1>1, <1>2 DEF y

\* Such a step refines a stutter of the guard.
LEMMA WalkRefines ==
  ASSUME GuardInv, NEW r \in Requests, NEW x, Becomes(r, x), Shape', Walk(req[r], x), lock' = lock, cast' = cast
  PROVE  GuardInv' /\ [SF!SFNext]_SF!sfvars
BY WalkQuiet, QuietRefines DEF Quiet

\* Ending a request leaves the guard.
LEMMA EndedRefines ==
  ASSUME GuardInv, NEW r \in Requests, NEW e, NEW o, NEW g, Ended(r, e, o, g),
         lock' = lock, cast' = cast, req[r].pc \notin Executing
  PROVE  GuardInv' /\ [SF!SFNext]_SF!sfvars
BY EndedQuiet, QuietRefines

\* The program counter alone moves.
LEMMA GotoRefines ==
  ASSUME GuardInv, NEW r \in Requests, NEW to, Goto(r, to), lock' = lock, cast' = cast,
         \/ req[r].pc \in Before /\ to \in Before
         \/ req[r].pc \in Guarded /\ to \in Guarded
         \/ req[r].pc \in Executing /\ to \in Executing \cup {"release"}
  PROVE  GuardInv' /\ [SF!SFNext]_SF!sfvars
<1> DEFINE x == Patch(req[r], [pc |-> to])
<1>1. x.pc = to /\ x.left = req[r].left /\ x.handle = req[r].handle /\ x.err = req[r].err
  BY DEF GuardInv, Shape, Patch, Fields
<1>2. Becomes(r, x) /\ Shape'
  BY SetOne DEF Goto, GuardInv
<1> HIDE DEF x
<1>3. Walk(req[r], x)
  BY <1>1 DEF Walk, GuardInv, Guards, Before, Guarded, Executing
<1> QED BY <1>2, <1>3, WalkRefines

\* _rate_limit does not touch the guard.
LEMMA GuardRateLimit ==
  ASSUME GuardInv, NEW r \in Requests, RateLimit(r)
  PROVE  GuardInv' /\ [SF!SFNext]_SF!sfvars
<1>1. req[r].pc = "idle" /\ lock' = lock /\ cast' = cast
  BY DEF RateLimit, At, tables
<1>2. CASE Goto(r, "bill")
  BY <1>1, <1>2, GotoRefines DEF Before
<1>3. CASE Ended(r, "HTTPException", "429", {})
  BY <1>1, <1>3, EndedRefines DEF Executing
<1> QED BY <1>2, <1>3 DEF RateLimit

\* Neither does the billing of rerun_analysis.
LEMMA GuardBill ==
  ASSUME GuardInv, NEW r \in Requests, Bill(r)
  PROVE  GuardInv' /\ [SF!SFNext]_SF!sfvars
<1>1. req[r].pc = "bill" /\ lock' = lock /\ cast' = cast
  BY DEF Bill, At, redis
<1>2. CASE Goto(r, "ta")
  BY <1>1, <1>2, GotoRefines DEF Before
<1>3. ASSUME NEW e, NEW o, Ended(r, e, o, {}) PROVE GuardInv' /\ [SF!SFNext]_SF!sfvars
  BY <1>1, <1>3, EndedRefines DEF Executing
<1> QED BY <1>2, <1>3 DEF Bill

\* Nor the start of TAOrchestrator.analyze.
LEMMA GuardAnalyze ==
  ASSUME GuardInv, NEW r \in Requests, Analyze(r)
  PROVE  GuardInv' /\ [SF!SFNext]_SF!sfvars
<1>1. req[r].pc \in {"ta", "idle"} /\ lock' = lock /\ cast' = cast
  BY DEF Analyze, At, redis, tables
<1>2. CASE Ended(r, "", "completed", {})
  BY <1>1, <1>2, EndedRefines DEF Executing
<1>3. CASE ~Ended(r, "", "completed", {})
  <2>1. PICK f \in Findings :
          req' = [q \in Requests |->
                    IF q = r THEN [req[r] EXCEPT !.pc = "snapshots", !.found = f,
                                                 !.saw = @ \cup {p \in Requests : Open(p)}]
                    ELSE IF Open(q) THEN [req[q] EXCEPT !.saw = @ \cup {r}] ELSE req[q]]
    BY <1>3 DEF Analyze
  <2>2. Shape'
    BY <2>1 DEF GuardInv, Shape
  <2>3. ASSUME NEW q \in Requests, q # r
        PROVE  req'[q].pc = req[q].pc /\ req'[q].left = req[q].left /\ req'[q].handle = req[q].handle /\ req'[q].err = req[q].err
    BY <2>1, <2>3 DEF GuardInv, Shape, Fields
  <2>4. req'[r].pc = "snapshots" /\ req'[r].left = req[r].left /\ req'[r].err = req[r].err
    BY <2>1 DEF GuardInv, Shape, Fields
  <2>5. \A q \in Requests : Guards(req[q])'
    BY <1>1, <2>3, <2>4 DEF Guards, GuardInv, Pcs, Before
  <2>6. \A q \in Requests : Stage(req'[q]) = Stage(req[q]) /\ Left(req'[q]) = Left(req[q])
    <3>1. Stage(req'[r]) = "out" /\ Left(req'[r]) = 0 /\ Stage(req[r]) = "out" /\ Left(req[r]) = 0
      BY <1>1, <2>4, StageAt DEF Before
    <3> QED BY <2>3, <3>1 DEF Stage, Left
  <2>7. UNCHANGED SF!sfvars
    <3>1. \A q \in Requests : StageOf(q)' = StageOf(q) /\ LeftOf(q)' = LeftOf(q)
      BY <2>6, StageIs, StageIsNext
    <3> QED BY <1>1, <3>1, KeysKept DEF SF!sfvars, keys
  <2>8. Locks' /\ cast' \in Casts
    BY <1>1 DEF GuardInv, Locks
  <2> QED BY <2>2, <2>5, <2>7, <2>8 DEF GuardInv
<1> QED BY <1>2, <1>3

\* A step that stays within one part of the cycle, or ends the LLM call.
LEMMA InnerRefines ==
  ASSUME GuardInv, NEW r \in Requests, NEW f, Set(r, f), lock' = lock, cast' = cast,
         "pc" \in DOMAIN f, "left" \notin DOMAIN f, "handle" \notin DOMAIN f,
         \/ req[r].pc \in Before /\ f.pc \in Before
         \/ req[r].pc \in Guarded /\ f.pc \in Guarded
         \/ req[r].pc \in Executing /\ f.pc \in Executing \cup {"release"},
         "err" \in DOMAIN f => f.err # "TimeoutError"
  PROVE  GuardInv' /\ [SF!SFNext]_SF!sfvars
<1> DEFINE x == Patch(req[r], f)
<1>1. /\ x.pc = f.pc /\ x.left = req[r].left /\ x.handle = req[r].handle
      /\ x.err = req[r].err \/ x.err # "TimeoutError"
  BY DEF GuardInv, Shape, Patch, Fields
<1>2. Becomes(r, x) /\ Shape'
  BY SetOne DEF GuardInv
<1> HIDE DEF x
<1>3. Walk(req[r], x)
  BY <1>1 DEF Walk, GuardInv, Guards, Before, Guarded, Executing
<1> QED BY <1>2, <1>3, WalkRefines

\* The cancelled, refused or failed request leaves the guard.
LEMMA EscapesRefines ==
  ASSUME GuardInv, NEW r \in Requests, NEW e, Escapes(r, e), lock' = lock, cast' = cast,
         req[r].pc \in Guarded \cup {"release"}
  PROVE  GuardInv' /\ [SF!SFNext]_SF!sfvars
<1> DEFINE x == Patch(req[r], [pc |-> "fail", err |-> e, left |-> 0, wait |-> 0, handle |-> "none"])
<1>1. x.pc = "fail" /\ x.left = 0
  BY DEF GuardInv, Shape, Patch, Fields
<1>2. Becomes(r, x) /\ Shape'
  BY SetOne DEF GuardInv, Escapes
<1> HIDE DEF x
<1>3. Walk(req[r], x)
  BY <1>1 DEF Walk
<1> QED BY <1>2, <1>3, WalkRefines

\* Nor a statement of _persist_all_results.
LEMMA GuardStatement ==
  ASSUME GuardInv, NEW r \in Requests, NEW from, NEW to, NEW works, Statement(r, from, to, works),
         from \in Before, to \in Before
  PROVE  GuardInv' /\ [SF!SFNext]_SF!sfvars
<1>1. req[r].pc = from /\ lock' = lock /\ cast' = cast
  BY DEF Statement, At, redis, tables
<1>2. ASSUME NEW tx, Set(r, [pc |-> to, tx |-> tx]) PROVE GuardInv' /\ [SF!SFNext]_SF!sfvars
  <2> DEFINE f == [pc |-> to, tx |-> tx]
  <2>1. DOMAIN f = {"pc", "tx"} /\ f.pc = to /\ Set(r, f)
    BY <1>2
  <2> HIDE DEF f
  <2> QED BY <1>1, <2>1, InnerRefines
<1> QED BY <1>2 DEF Statement

\* Nor any of the three statement groups.
LEMMA GuardPersist ==
  ASSUME GuardInv, NEW r \in Requests, PersistSnapshots(r) \/ PersistSmc(r) \/ PersistSnd(r)
  PROVE  GuardInv' /\ [SF!SFNext]_SF!sfvars
<1>1. {"snapshots", "smc", "snd", "commit"} \subseteq Before
  BY DEF Before
<1> QED BY <1>1, GuardStatement DEF PersistSnapshots, PersistSmc, PersistSnd

\* Nor the commit of the unit of work.
LEMMA GuardCommitTa ==
  ASSUME GuardInv, NEW r \in Requests, CommitTa(r)
  PROVE  GuardInv' /\ [SF!SFNext]_SF!sfvars
<1>1. req[r].pc = "commit" /\ lock' = lock /\ cast' = cast
  BY DEF CommitTa, At, redis
<1>2. CASE Ended(r, "", "completed", {})
  BY <1>1, <1>2, EndedRefines DEF Executing
<1>3. CASE Set(r, [pc |-> "context", tx |-> NoTx])
  <2> DEFINE f == [pc |-> "context", tx |-> NoTx]
  <2>1. DOMAIN f = {"pc", "tx"} /\ f.pc = "context" /\ Set(r, f)
    BY <1>3
  <2> HIDE DEF f
  <2> QED BY <1>1, <2>1, InnerRefines DEF Before
<1> QED BY <1>2, <1>3 DEF CommitTa

\* The call of the processor: its time starts.
LEMMA GuardAsks ==
  ASSUME GuardInv, NEW r \in Requests, NEW f, Set(r, f), lock' = lock, cast' = cast,
         req[r].pc \in Before, f.pc = "check", f.left = TotalTicks, {"pc", "left"} \subseteq DOMAIN f,
         "err" \notin DOMAIN f
  PROVE  GuardInv' /\ [SF!SFNext]_SF!sfvars
<1> DEFINE x == Patch(req[r], f)
<1>1. x.pc = "check" /\ x.left = TotalTicks /\ x.err = req[r].err
  BY DEF GuardInv, Shape, Patch, Fields
<1>2. Becomes(r, x) /\ Shape'
  BY SetOne DEF GuardInv
<1> HIDE DEF x
<1>3. Walk(req[r], x)
  BY <1>1 DEF Walk, GuardInv, Guards, Before, Guarded
<1> QED BY <1>2, <1>3, WalkRefines

\* A rerun enters the guard with its context.
LEMMA GuardContext ==
  ASSUME GuardInv, NEW r \in Requests, Context(r)
  PROVE  GuardInv' /\ [SF!SFNext]_SF!sfvars
<1>1. req[r].pc = "context" /\ req[r].pc \in Before /\ lock' = lock /\ cast' = cast
  BY DEF Context, At, redis, tables, Before
<1>2. CASE Ended(r, "HTTPException", "500", {})
  BY <1>1, <1>2, EndedRefines DEF Executing
<1>3. CASE ~Ended(r, "HTTPException", "500", {})
  <2> DEFINE f == [pc |-> "check", left |-> TotalTicks, some |-> req[r].found # NoFound, found |-> NoFound]
  <2>1. /\ DOMAIN f = {"pc", "left", "some", "found"} /\ f.pc = "check" /\ f.left = TotalTicks
        /\ Set(r, f)
    BY <1>3 DEF Context
  <2> HIDE DEF f
  <2> QED BY <1>1, <2>1, GuardAsks
<1> QED BY <1>2, <1>3

\* internal_processor_process enters the guard.
LEMMA GuardEnter ==
  ASSUME GuardInv, NEW r \in Requests, Enter(r)
  PROVE  GuardInv' /\ [SF!SFNext]_SF!sfvars
<1>1. req[r].pc \in Before /\ lock' = lock /\ cast' = cast
  BY DEF Enter, At, redis, tables, Before
<1>2. PICK some \in BOOLEAN : Set(r, [pc |-> "check", left |-> TotalTicks, some |-> some])
  BY DEF Enter
<1> DEFINE f == [pc |-> "check", left |-> TotalTicks, some |-> some]
<1>3. DOMAIN f = {"pc", "left", "some"} /\ f.pc = "check" /\ f.left = TotalTicks /\ Set(r, f)
  BY <1>2
<1> HIDE DEF f
<1> QED BY <1>1, <1>3, GuardAsks

\* check_cached stays with the guard or leaves it with the shared answer.
LEMMA GuardCheckCached ==
  ASSUME GuardInv, NEW r \in Requests, CheckCached(r)
  PROVE  GuardInv' /\ [SF!SFNext]_SF!sfvars
<1>1. req[r].pc = "check" /\ lock' = lock /\ cast' = cast
  BY DEF CheckCached, At, redis, tables
<1>2. CASE Ended(r, "", Status(r, ""), {Shared(Digest(r))})
  BY <1>1, <1>2, EndedRefines DEF Executing
<1>3. CASE Goto(r, "acquire")
  BY <1>1, <1>3, GotoRefines DEF Guarded
<1> QED BY <1>2, <1>3 DEF CheckCached

\* Both outcomes of SET NX that set the key, and the three that do not.
LEMMA GuardAcquire ==
  ASSUME GuardInv, NEW r \in Requests, Acquire(r)
  PROVE  GuardInv' /\ [SF!SFNext]_SF!sfvars
<1> DEFINE d == Digest(r)
           waits == Patch(req[r], [pc |-> "await", wait |-> AwaitTicks])
           flies(h) == Patch(req[r], [pc |-> "execute", handle |-> h])
<1>1. req[r].pc = "acquire" /\ cast' = cast
  BY DEF Acquire, At, tables
<1>2. \A q \in Requests : Guards(req[q])
  BY DEF GuardInv
<1>3. waits.pc = "await" /\ waits.left = req[r].left /\ waits.err = req[r].err
  BY DEF GuardInv, Shape, Patch, Fields
<1>4. ASSUME NEW h PROVE /\ flies(h).pc = "execute" /\ flies(h).left = req[r].left
                         /\ flies(h).err = req[r].err /\ flies(h).handle = h
  BY DEF GuardInv, Shape, Patch, Fields
<1>5. ASSUME Set(r, [pc |-> "await", wait |-> AwaitTicks]) PROVE Becomes(r, waits) /\ Shape'
  BY <1>5, SetOne DEF GuardInv
<1>6. ASSUME NEW h, Set(r, [pc |-> "execute", handle |-> h]) PROVE Becomes(r, flies(h)) /\ Shape'
  BY <1>6, SetOne DEF GuardInv
<1>7. \/ Set(r, [pc |-> "await", wait |-> AwaitTicks]) /\ lock' = lock
      \/ Set(r, [pc |-> "await", wait |-> AwaitTicks]) /\ Free(d) /\ lock' = Locked(d, r)
      \/ Set(r, [pc |-> "execute", handle |-> "own"]) /\ Free(d) /\ lock' = Locked(d, r)
      \/ Set(r, [pc |-> "execute", handle |-> "blind"]) /\ lock' = lock
  BY DEF Acquire
<1> HIDE DEF waits, flies
<1>8. Walk(req[r], waits) /\ Walk(req[r], flies("blind"))
  BY <1>1, <1>2, <1>3, <1>4 DEF Walk, Guards, Guarded, Executing
<1>9. Guards(waits) /\ Guards(flies("own"))
  BY <1>1, <1>2, <1>3, <1>4 DEF Guards, Guarded, Executing, Pcs
<1>10. CASE Set(r, [pc |-> "await", wait |-> AwaitTicks]) /\ lock' = lock
  BY <1>1, <1>5, <1>8, <1>10, WalkRefines
<1>11. CASE Set(r, [pc |-> "execute", handle |-> "blind"]) /\ lock' = lock
  BY <1>1, <1>6, <1>8, <1>11, WalkRefines
<1>12. Stage(req[r]) = "asking" /\ Left(req[r]) = req[r].left
  BY <1>1, StageAt DEF Guarded
<1>13. ASSUME NEW x, Becomes(r, x), Shape', Guards(x), Free(d), lock' = Locked(d, r),
              Stage(x) \in {"asking", "flying"}, Left(x) = req[r].left
       PROVE  GuardInv' /\ [SF!SFNext]_SF!sfvars
  <2>1. [SF!SFNext]_SF!sfvars
    BY <1>1, <1>12, <1>13, TakingRefines
  <2>2. Locks'
    BY <1>13, LockTaken
  <2>3. \A q \in Requests : Guards(req'[q])
    BY <1>2, <1>13 DEF Becomes
  <2>4. \A q \in Requests : Guards(req[q])'
    BY <2>3 DEF Guards
  <2> QED BY <1>1, <1>13, <2>1, <2>2, <2>4 DEF GuardInv
<1>14. CASE Set(r, [pc |-> "await", wait |-> AwaitTicks]) /\ Free(d) /\ lock' = Locked(d, r)
  <2>1. Stage(waits) = "asking" /\ Left(waits) = req[r].left
    BY <1>3, StageAt DEF Guarded
  <2> QED BY <1>5, <1>9, <1>13, <1>14, <2>1
<1>15. CASE Set(r, [pc |-> "execute", handle |-> "own"]) /\ Free(d) /\ lock' = Locked(d, r)
  <2>1. Stage(flies("own")) = "flying" /\ Left(flies("own")) = req[r].left
    BY <1>4, StageAt, SMTT(30) DEF Executing
  <2> QED BY <1>6, <1>9, <1>13, <1>15, <2>1
<1> QED BY <1>7, <1>10, <1>11, <1>14, <1>15

\* await_result leaves the guard with an answer or a refusal.
LEMMA GuardAwaitResult ==
  ASSUME GuardInv, NEW r \in Requests, AwaitResult(r)
  PROVE  GuardInv' /\ [SF!SFNext]_SF!sfvars
<1>1. req[r].pc = "await" /\ lock' = lock /\ cast' = cast
  BY DEF AwaitResult, At, redis, tables
<1>2. CASE Ended(r, "", Status(r, ""), {Shared(Digest(r))})
  BY <1>1, <1>2, EndedRefines DEF Executing
<1>3. CASE Escapes(r, "LLMDuplicateSuppressedError")
  BY <1>1, <1>3, EscapesRefines DEF Guarded
<1> QED BY <1>2, <1>3 DEF AwaitResult

\* An exception inside _execute goes to the release.
LEMMA RaiseRefines ==
  ASSUME GuardInv, NEW r \in Requests, NEW e, Raise(r, e), e # "TimeoutError", lock' = lock, cast' = cast,
         req[r].pc \in Executing
  PROVE  GuardInv' /\ [SF!SFNext]_SF!sfvars
<1> DEFINE f == [pc |-> "release", err |-> e]
<1>1. DOMAIN f = {"pc", "err"} /\ f.pc = "release" /\ f.err = e /\ Set(r, f)
  BY DEF Raise
<1> HIDE DEF f
<1> QED BY <1>1, InnerRefines

\* metering.reserve goes on to the call or to the release.
LEMMA GuardReserve ==
  ASSUME GuardInv, NEW r \in Requests, Reserve(r)
  PROVE  GuardInv' /\ [SF!SFNext]_SF!sfvars
<1>1. req[r].pc = "execute" /\ lock' = lock /\ cast' = cast /\ req[r].pc \in Executing
  BY DEF Reserve, At, redis, tables, Executing
<1>2. \/ \E e \in {"ProcessorInsufficientDataError", "QuotaExceededError", "MeteringUnavailableError"} : Raise(r, e)
      \/ Goto(r, "call")
      \/ Set(r, [pc |-> "call", hold |-> "held"])
      \/ \E hold \in {"none", "held"} :
           Set(r, [pc |-> "release", err |-> "ReadTimeout", hold |-> hold, cut |-> TRUE])
  BY DEF Reserve
<1>3. ASSUME NEW e \in {"ProcessorInsufficientDataError", "QuotaExceededError", "MeteringUnavailableError"},
             Raise(r, e)
      PROVE  GuardInv' /\ [SF!SFNext]_SF!sfvars
  BY <1>1, <1>3, RaiseRefines
<1>4. CASE Goto(r, "call")
  BY <1>1, <1>4, GotoRefines DEF Executing
<1>5. CASE Set(r, [pc |-> "call", hold |-> "held"])
  <2> DEFINE f == [pc |-> "call", hold |-> "held"]
  <2>1. DOMAIN f = {"pc", "hold"} /\ f.pc = "call" /\ Set(r, f)
    BY <1>5
  <2> HIDE DEF f
  <2> QED BY <1>1, <2>1, InnerRefines DEF Executing
<1>6. ASSUME NEW hold, Set(r, [pc |-> "release", err |-> "ReadTimeout", hold |-> hold, cut |-> TRUE])
      PROVE  GuardInv' /\ [SF!SFNext]_SF!sfvars
  <2> DEFINE f == [pc |-> "release", err |-> "ReadTimeout", hold |-> hold, cut |-> TRUE]
  <2>1. DOMAIN f = {"pc", "err", "hold", "cut"} /\ f.pc = "release" /\ f.err = "ReadTimeout" /\ Set(r, f)
    BY <1>6
  <2> HIDE DEF f
  <2> QED BY <1>1, <2>1, InnerRefines
<1> QED BY <1>2, <1>3, <1>4, <1>5, <1>6

\* What retry_llm_call lets out is the engine's own.
LEMMA RaisedClass ==
  ASSUME NEW e
  PROVE  Raised(e).class \in Typed \cup {"ProcessorError"}
BY DEF Raised, Retyped, Failure, Typed

\* A failed attempt retries, or goes to the refund.
LEMMA GuardCallFails ==
  ASSUME GuardInv, NEW r \in Requests, CallFails(r)
  PROVE  GuardInv' /\ [SF!SFNext]_SF!sfvars
<1>1. req[r].pc = "call" /\ lock' = lock /\ cast' = cast /\ req[r].pc \in Executing
  BY DEF CallFails, At, redis, tables, Executing
<1>2. PICK raw \in RawFailures :
        \/ Set(r, [tries |-> req[r].tries + 1])
        \/ \E told : Set(r, [pc |-> "refund", tries |-> 0, err |-> Raised(Translated(Provider, raw)).class, told |-> told])
  BY DEF CallFails
<1>3. CASE Set(r, [tries |-> req[r].tries + 1])
  <2> DEFINE x == Patch(req[r], [tries |-> req[r].tries + 1])
  <2>1. x.pc = req[r].pc /\ x.left = req[r].left /\ x.handle = req[r].handle /\ x.err = req[r].err
    BY DEF GuardInv, Shape, Patch, Fields
  <2>2. Becomes(r, x) /\ Shape'
    BY <1>3, SetOne DEF GuardInv
  <2> HIDE DEF x
  <2>3. Walk(req[r], x)
    BY <1>1, <2>1 DEF Walk, GuardInv, Guards
  <2> QED BY <1>1, <2>2, <2>3, WalkRefines
<1>4. ASSUME NEW e, NEW told, e \in Typed \cup {"ProcessorError"},
             Set(r, [pc |-> "refund", tries |-> 0, err |-> e, told |-> told])
      PROVE  GuardInv' /\ [SF!SFNext]_SF!sfvars
  <2> DEFINE f == [pc |-> "refund", tries |-> 0, err |-> e, told |-> told]
  <2>1. DOMAIN f = {"pc", "tries", "err", "told"} /\ f.pc = "refund" /\ f.err = e /\ Set(r, f)
    BY <1>4
  <2> HIDE DEF f
  <2>2. f.err # "TimeoutError"
    BY <1>4, <2>1 DEF Typed
  <2> QED BY <1>1, <2>1, <2>2, InnerRefines DEF Executing
<1> QED BY <1>2, <1>3, <1>4, RaisedClass

\* An attempt that ends goes to the refund or the settlement.
LEMMA GuardCallReturns ==
  ASSUME GuardInv, NEW r \in Requests, CallReturns(r)
  PROVE  GuardInv' /\ [SF!SFNext]_SF!sfvars
<1>1. req[r].pc = "call" /\ lock' = lock /\ cast' = cast /\ req[r].pc \in Executing
  BY DEF CallReturns, At, redis, tables, Executing
<1>2. PICK o \in Answers : \/ Set(r, [pc |-> "refund", tries |-> 0, err |-> "LLMTruncatedError"])
                           \/ Set(r, [pc |-> "settle", tries |-> 0, got |-> o])
  BY DEF CallReturns
<1>3. CASE Set(r, [pc |-> "refund", tries |-> 0, err |-> "LLMTruncatedError"])
  <2> DEFINE f == [pc |-> "refund", tries |-> 0, err |-> "LLMTruncatedError"]
  <2>1. DOMAIN f = {"pc", "tries", "err"} /\ f.pc = "refund" /\ f.err # "TimeoutError" /\ Set(r, f)
    BY <1>3
  <2> HIDE DEF f
  <2> QED BY <1>1, <2>1, InnerRefines DEF Executing
<1>4. CASE Set(r, [pc |-> "settle", tries |-> 0, got |-> o])
  <2> DEFINE f == [pc |-> "settle", tries |-> 0, got |-> o]
  <2>1. DOMAIN f = {"pc", "tries", "got"} /\ f.pc = "settle" /\ Set(r, f)
    BY <1>4
  <2> HIDE DEF f
  <2> QED BY <1>1, <2>1, InnerRefines DEF Executing
<1> QED BY <1>2, <1>3, <1>4

\* metering.refund goes to the release.
LEMMA GuardRefund ==
  ASSUME GuardInv, NEW r \in Requests, Refund(r)
  PROVE  GuardInv' /\ [SF!SFNext]_SF!sfvars
<1>1. req[r].pc = "refund" /\ lock' = lock /\ cast' = cast /\ req[r].pc \in Executing
  BY DEF Refund, At, redis, tables, Executing
<1>2. \/ \E hold : Set(r, [pc |-> "release", hold |-> hold])
      \/ Set(r, [pc |-> "release", cut |-> TRUE])
  BY DEF Refund
<1>3. ASSUME NEW hold, Set(r, [pc |-> "release", hold |-> hold]) PROVE GuardInv' /\ [SF!SFNext]_SF!sfvars
  <2> DEFINE f == [pc |-> "release", hold |-> hold]
  <2>1. DOMAIN f = {"pc", "hold"} /\ f.pc = "release" /\ Set(r, f)
    BY <1>3
  <2> HIDE DEF f
  <2> QED BY <1>1, <2>1, InnerRefines
<1>4. CASE Set(r, [pc |-> "release", cut |-> TRUE])
  <2> DEFINE f == [pc |-> "release", cut |-> TRUE]
  <2>1. DOMAIN f = {"pc", "cut"} /\ f.pc = "release" /\ Set(r, f)
    BY <1>4
  <2> HIDE DEF f
  <2> QED BY <1>1, <2>1, InnerRefines
<1> QED BY <1>2, <1>3, <1>4

\* What parse_llm_response may raise.
LEMMA ParseErrorClass ==
  ASSUME NEW o
  PROVE  ParseLlmResponse(o, TRUE) \in {Blank, "ProcessorError", "LLMSchemaViolationError"}
BY DEF ParseLlmResponse, Blank

\* metering.commit and the parse go to the save or the release.
LEMMA GuardSettle ==
  ASSUME GuardInv, NEW r \in Requests, Settle(r)
  PROVE  GuardInv' /\ [SF!SFNext]_SF!sfvars
<1>1. req[r].pc = "settle" /\ lock' = lock /\ cast' = cast /\ req[r].pc \in Executing
  BY DEF Settle, At, redis, tables, Executing
<1>2. \E hold, cut : \/ Set(r, [pc |-> "save", hold |-> hold, cut |-> cut])
                     \/ Set(r, [pc |-> "release", err |-> ParseError(r), got |-> NoAnswer, hold |-> hold, cut |-> cut])
  BY DEF Settle
<1>3. ASSUME NEW hold, NEW cut, Set(r, [pc |-> "save", hold |-> hold, cut |-> cut])
      PROVE  GuardInv' /\ [SF!SFNext]_SF!sfvars
  <2> DEFINE f == [pc |-> "save", hold |-> hold, cut |-> cut]
  <2>1. DOMAIN f = {"pc", "hold", "cut"} /\ f.pc = "save" /\ Set(r, f)
    BY <1>3
  <2> HIDE DEF f
  <2> QED BY <1>1, <2>1, InnerRefines DEF Executing
<1>4. ASSUME NEW hold, NEW cut,
             Set(r, [pc |-> "release", err |-> ParseError(r), got |-> NoAnswer, hold |-> hold, cut |-> cut])
      PROVE  GuardInv' /\ [SF!SFNext]_SF!sfvars
  <2> DEFINE f == [pc |-> "release", err |-> ParseError(r), got |-> NoAnswer, hold |-> hold, cut |-> cut]
  <2>1. DOMAIN f = {"pc", "err", "got", "hold", "cut"} /\ f.pc = "release" /\ f.err = ParseError(r) /\ Set(r, f)
    BY <1>4
  <2> HIDE DEF f
  <2>2. f.err # "TimeoutError"
    BY <2>1, ParseErrorClass, BlankApart DEF ParseError
  <2> QED BY <1>1, <2>1, <2>2, InnerRefines
<1> QED BY <1>2, <1>3, <1>4

\* _persist_success stays inside the call.
LEMMA GuardPersistSuccess ==
  ASSUME GuardInv, NEW r \in Requests, PersistSuccess(r)
  PROVE  GuardInv' /\ [SF!SFNext]_SF!sfvars
<1>1. req[r].pc = "save" /\ lock' = lock /\ cast' = cast /\ Goto(r, "store")
  BY DEF PersistSuccess, At, redis
<1> QED BY <1>1, GotoRefines DEF Executing

\* store_result is followed by the release.
LEMMA GuardStoreResult ==
  ASSUME GuardInv, NEW r \in Requests, StoreResult(r)
  PROVE  GuardInv' /\ [SF!SFNext]_SF!sfvars
<1>1. req[r].pc = "store" /\ lock' = lock /\ cast' = cast /\ Goto(r, "release")
  BY DEF StoreResult, At, tables
<1> DEFINE f == [pc |-> "release"]
<1>2. DOMAIN f = {"pc"} /\ f.pc = "release" /\ Set(r, f)
  BY <1>1 DEF Goto
<1> HIDE DEF f
<1> QED BY <1>1, <1>2, InnerRefines DEF Executing

\* The compare-and-delete, whether it finds the caller's token or not.
LEMMA GuardDrop ==
  ASSUME GuardInv, NEW r \in Requests, NEW x, Becomes(r, x), Shape', cast' = cast, lock' = Unlocked(r),
         req[r].pc = "release", x.pc \in {"fail", "done"}, x.left \in 0..TotalTicks
  PROVE  GuardInv' /\ [SF!SFNext]_SF!sfvars
<1>1. Stage(req[r]) = "closing" /\ Left(req[r]) = 0 /\ Stage(x) = "gone" /\ Left(x) = 0
  BY StageAt
<1>2. [SF!SFNext]_SF!sfvars /\ Locks'
  BY <1>1, DroppingRefines
<1>3. Guards(x)
  BY DEF Guards, Pcs
<1>4. \A q \in Requests : Guards(req'[q])
  BY <1>3 DEF Becomes, GuardInv
<1>5. \A q \in Requests : Guards(req[q])'
  BY <1>4 DEF Guards
<1> QED BY <1>2, <1>5 DEF GuardInv

\* The finally of _execute_guarded drops the lock only when its token is there.
LEMMA GuardRelease ==
  ASSUME GuardInv, NEW r \in Requests, Release(r)
  PROVE  GuardInv' /\ [SF!SFNext]_SF!sfvars
<1>1. req[r].pc = "release" /\ cast' = cast /\ TotalTicks \in Nat
  BY GuardAssumed DEF Release, At, tables, SF!GuardConstants
<1>2. \/ \E o, g : Ended(r, "", o, g)
      \/ Escapes(r, req[r].err)
  BY DEF Release
<1>3. CASE lock' = lock
  <2>1. ASSUME NEW o, NEW g, Ended(r, "", o, g) PROVE GuardInv' /\ [SF!SFNext]_SF!sfvars
    BY <1>1, <1>3, <2>1, EndedRefines DEF Executing
  <2>2. ASSUME Escapes(r, req[r].err) PROVE GuardInv' /\ [SF!SFNext]_SF!sfvars
    BY <1>1, <1>3, <2>2, EscapesRefines
  <2> QED BY <1>2, <2>1, <2>2
<1>4. CASE lock' = Unlocked(r)
  <2>1. ASSUME NEW o, NEW g, Ended(r, "", o, g) PROVE GuardInv' /\ [SF!SFNext]_SF!sfvars
    <3>1. Becomes(r, req'[r]) /\ Shape' /\ req'[r].pc = "done" /\ req'[r].left = 0
      BY <2>1, EndedOne DEF GuardInv
    <3> QED BY <1>1, <1>4, <3>1, GuardDrop, SMTT(30)
  <2>2. ASSUME Escapes(r, req[r].err) PROVE GuardInv' /\ [SF!SFNext]_SF!sfvars
    <3> DEFINE x == Patch(req[r], [pc |-> "fail", err |-> req[r].err, left |-> 0, wait |-> 0, handle |-> "none"])
    <3>1. x.pc = "fail" /\ x.left = 0
      BY DEF GuardInv, Shape, Patch, Fields
    <3>2. Becomes(r, x) /\ Shape'
      BY <2>2, SetOne DEF GuardInv, Escapes
    <3> HIDE DEF x
    <3> QED BY <1>1, <1>4, <3>1, <3>2, GuardDrop, SMTT(30)
  <2> QED BY <1>2, <2>1, <2>2
<1> QED BY <1>3, <1>4 DEF Release

\* The except clauses of process end the request.
LEMMA GuardFails ==
  ASSUME GuardInv, NEW r \in Requests, Fails(r)
  PROVE  GuardInv' /\ [SF!SFNext]_SF!sfvars
<1>1. req[r].pc = "fail" /\ lock' = lock /\ cast' = cast
  BY DEF Fails, At, redis
<1>2. Ended(r, req[r].err, Status(r, req[r].err), {})
  BY DEF Fails
<1> QED BY <1>1, <1>2, EndedRefines DEF Executing

\* The cancelled await may have set the lock or let it go.
LEMMA GuardTimeout ==
  ASSUME GuardInv, NEW r \in Requests, Timeout(r)
  PROVE  GuardInv' /\ [SF!SFNext]_SF!sfvars
<1> DEFINE y == req[r]
           inside == y.pc \in Executing
           f == [ pc |-> IF inside THEN "release" ELSE "fail", wait |-> 0,
                  handle |-> IF inside THEN y.handle ELSE "none",
                  err |-> "TimeoutError", cut |-> TRUE, got |-> NoAnswer, tries |-> 0, told |-> "" ]
           x == Patch(req[r], f)
<1>1. cast' = cast /\ y.left = 0 /\ y.pc \in Guarded \cup Executing \cup {"release"}
  BY DEF Timeout, Timed, tables
<1>2. Set(r, f)
  BY DEF Timeout
<1>3. Becomes(r, x) /\ Shape'
  BY <1>2, SetOne DEF GuardInv
<1>4. x.pc = (IF inside THEN "release" ELSE "fail") /\ x.left = y.left /\ x.err = "TimeoutError"
  BY DEF GuardInv, Shape, Patch, Fields
<1>5. \/ lock' = lock
      \/ y.pc = "acquire" /\ Free(Digest(r)) /\ lock' = Locked(Digest(r), r)
      \/ y.pc = "release" /\ lock' = Unlocked(r)
  BY DEF Timeout
<1> HIDE DEF f, x
<1>6. CASE lock' = lock
  <2>1. Walk(req[r], x)
    BY <1>1, <1>4 DEF Walk, Guarded, Executing
  <2> QED BY <1>1, <1>3, <1>6, <2>1, WalkRefines
<1>7. CASE y.pc = "acquire" /\ Free(Digest(r)) /\ lock' = Locked(Digest(r), r)
  <2>1. Stage(y) = "asking" /\ Stage(x) = "gone" /\ Left(x) = 0
    BY <1>4, <1>7, StageAt DEF Guarded, Executing
  <2>2. [SF!SFNext]_SF!sfvars
    BY <1>1, <1>3, <1>7, <2>1, TakingRefines
  <2>3. Locks'
    BY <1>7, LockTaken
  <2>4. Guards(x)
    BY <1>1, <1>4, <1>7, GuardAssumed, SMTT(30) DEF Guards, Pcs, Executing, SF!GuardConstants
  <2>5. \A q \in Requests : Guards(req'[q])
    BY <1>3, <2>4 DEF Becomes, GuardInv
  <2>6. \A q \in Requests : Guards(req[q])'
    BY <2>5 DEF Guards
  <2> QED BY <1>1, <1>3, <2>2, <2>3, <2>6 DEF GuardInv
<1>8. CASE y.pc = "release" /\ lock' = Unlocked(r)
  <2>1. x.pc = "fail" /\ x.left \in 0..TotalTicks
    BY <1>1, <1>4, <1>8, GuardAssumed, SMTT(30) DEF Executing, SF!GuardConstants
  <2> QED BY <1>1, <1>3, <1>8, <2>1, GuardDrop
<1> QED BY <1>5, <1>6, <1>7, <1>8

\* The record of a request after a tick.
LEMMA TickOne ==
  ASSUME GuardInv, Tick, NEW r \in Requests
  PROVE  /\ DOMAIN req'[r] = Fields
         /\ req'[r].pc = req[r].pc /\ req'[r].err = req[r].err /\ req'[r].handle = req[r].handle
         /\ req'[r].left = IF Timed(r) THEN Down(req[r].left) ELSE req[r].left
<1>1. req'[r] = [req[r] EXCEPT !.left = IF Timed(r) THEN Down(@) ELSE @, !.wait = Down(@)]
  BY DEF Tick
<1>2. DOMAIN req[r] = Fields
  BY DEF GuardInv, Shape
<1> QED BY <1>1, <1>2 DEF Fields

\* A tick of the clock is a tick of the guard.
LEMMA GuardTick ==
  ASSUME GuardInv, Tick
  PROVE  GuardInv' /\ [SF!SFNext]_SF!sfvars
<1>1. cast' = cast /\ lock' = Aged(lock, NoLock) /\ \A r \in Requests : Timed(r) => req[r].left > 0
  BY DEF Tick, tables
<1>2. Shape'
  <2>1. DOMAIN req' = Requests
    BY DEF Tick
  <2> QED BY <2>1, TickOne DEF Shape
<1>3. \A d \in Digests : lock[d].ttl \in Nat
  BY DEF GuardInv, Locks
<1>4. /\ DOMAIN lock' = Digests
      /\ \A d \in Digests : /\ DOMAIN lock'[d] = {"by", "ttl"}
                            /\ lock'[d].ttl = SF!Less(lock[d].ttl)
                            /\ lock'[d].by = IF lock[d].ttl <= 1 THEN Nobody ELSE lock[d].by
  <2>1. DOMAIN NoLock = {"by", "ttl"} /\ NoLock.by = Nobody /\ NoLock.ttl = 0
    BY DEF NoLock
  <2>2. ASSUME NEW d \in Digests
        PROVE  /\ DOMAIN lock'[d] = {"by", "ttl"}
               /\ lock'[d].ttl = SF!Less(lock[d].ttl)
               /\ lock'[d].by = IF lock[d].ttl <= 1 THEN Nobody ELSE lock[d].by
    <3> DEFINE z == lock[d]
    <3>1. lock'[d] = IF z.ttl <= 1 THEN NoLock ELSE [z EXCEPT !.ttl = @ - 1]
      BY <1>1 DEF Aged
    <3>2. z.ttl \in Nat
      BY <1>3
    <3>3. CASE z.ttl <= 1
      BY <2>1, <3>1, <3>2, <3>3, SMTT(30) DEF SF!Less
    <3>4. CASE z.ttl > 1
      <4>1. DOMAIN z = {"by", "ttl"}
        BY DEF GuardInv, Locks
      <4> QED BY <3>1, <3>2, <3>4, <4>1, SMTT(30) DEF SF!Less
    <3> QED BY <3>2, <3>3, <3>4, SMTT(30)
  <2> QED BY <1>1, <2>2 DEF Aged
<1>5. ASSUME NEW r \in Requests
      PROVE  /\ Guards(req'[r]) /\ Stage(req'[r]) = Stage(req[r]) /\ Left(req'[r]) = SF!Less(Left(req[r]))
             /\ Stage(req[r]) \in SF!Timed => Left(req[r]) > 0
  <2> DEFINE y == req[r]
             x == req'[r]
  <2>1. /\ x.pc = y.pc /\ x.err = y.err /\ x.handle = y.handle
        /\ x.left = IF Timed(r) THEN Down(y.left) ELSE y.left
    BY TickOne
  <2>2. Guards(y)
    BY DEF GuardInv
  <2>3. y.pc \in Guarded \cup Executing => Timed(r)
    BY <2>2 DEF Timed, Guards, Guarded, Executing
  <2>4. Timed(r) => y.left > 0
    BY <1>1
  <2> HIDE DEF x, y
  <2>5. Stage(x) = Stage(y)
    BY <2>1 DEF Stage
  <2>6. Left(x) = SF!Less(Left(y))
    BY <2>1, <2>2, <2>3 DEF Left, SF!Less, Down
  <2>7. Guards(x)
    BY <2>1, <2>2, <2>4, GuardAssumed, SMTT(30) DEF Guards, Down, SF!GuardConstants
  <2>8. Stage(y) \in SF!Timed => y.pc \in Guarded \cup Executing
    BY DEF Stage, SF!Timed
  <2>9. Stage(y) \in SF!Timed => Left(y) > 0
    BY <2>3, <2>4, <2>8 DEF Left
  <2> QED BY <2>5, <2>6, <2>7, <2>9 DEF x, y
<1>6. SF!TickAll
  <2>1. \A r \in Requests : stages[r] \in SF!Timed => lefts[r] > 0
    BY <1>5, StageIs DEF stages, lefts
  <2>2. lefts' = [r \in Requests |-> SF!Less(lefts[r])]
    BY <1>5, StageIs, StageIsNext DEF lefts
  <2>3. stages' = stages
    BY <1>5, StageIs, StageIsNext DEF stages
  <2>4. ttls' = [d \in Digests |-> SF!Less(ttls[d])]
    BY <1>4 DEF ttls
  <2>5. holders' = [d \in Digests |-> IF ttls[d] <= 1 THEN Nobody ELSE holders[d]]
    BY <1>4 DEF ttls, holders
  <2> QED BY <2>1, <2>2, <2>3, <2>4, <2>5 DEF SF!TickAll, stages, lefts, ttls, holders
<1>7. SF!SFNext
  BY <1>1, <1>6, KeysKept DEF SF!SFNext, SF!Step, keys
<1>8. \A r \in Requests : Guards(req[r])'
  BY <1>5 DEF Guards
<1>9. Locks'
  BY <1>3, <1>4, SMTT(30) DEF Locks, SF!Less
<1> QED BY <1>1, <1>2, <1>7, <1>8, <1>9 DEF GuardInv

\* The record of a request after a restart.
LEMMA CrashOne ==
  ASSUME GuardInv, Crash, NEW r \in Requests
  PROVE  IF Running(r)
         THEN /\ DOMAIN req'[r] = Fields
              /\ req'[r].pc = "done" /\ req'[r].out = "lost" /\ req'[r].hold = req[r].hold /\ req'[r].cut = TRUE
              /\ req'[r].saw = req[r].saw /\ req'[r].left = 0 /\ req'[r].gave = {} /\ req'[r].err = Blank
              /\ req'[r].tx = NoTx
         ELSE req'[r] = req[r]
<1> DEFINE x == [Fresh EXCEPT !.pc = "done", !.out = "lost", !.hold = req[r].hold,
                              !.cut = TRUE, !.saw = req[r].saw]
<1>1. req'[r] = IF Running(r) THEN x ELSE req[r]
  BY DEF Crash
<1>2. /\ DOMAIN x = Fields
      /\ x.pc = "done" /\ x.out = "lost" /\ x.hold = req[r].hold /\ x.cut = TRUE
      /\ x.saw = req[r].saw /\ x.left = 0 /\ x.gave = {} /\ x.err = Blank /\ x.tx = NoTx
  BY DEF Fresh, Fields, Blank
<1> HIDE DEF x
<1> QED BY <1>1, <1>2

\* A restart of the engine is a crash of the guard's callers.
LEMMA GuardCrash ==
  ASSUME GuardInv, Crash
  PROVE  GuardInv' /\ [SF!SFNext]_SF!sfvars
<1>1. cast' = cast /\ lock' = lock /\ DOMAIN req' = Requests
  BY DEF Crash, tables
<1>2. Shape'
  BY <1>1, CrashOne DEF GuardInv, Shape
<1>3. ASSUME NEW r \in Requests
      PROVE  /\ Guards(req'[r]) /\ Left(req'[r]) = 0
             /\ Running(r) => Stage(req'[r]) = "gone"
             /\ ~Running(r) => Stage(req'[r]) = Stage(req[r]) /\ Stage(req[r]) \in {"out", "gone"}
  <2> DEFINE x == req'[r]
  <2>1. Guards(req[r])
    BY DEF GuardInv
  <2>2. CASE Running(r)
    <3>1. x.pc = "done" /\ x.left = 0
      BY <2>2, CrashOne
    <3> QED BY <2>2, <3>1, StageAt, GuardAssumed, SMTT(30) DEF Guards, Pcs, SF!GuardConstants
  <2>3. CASE ~Running(r)
    <3>1. x = req[r]
      BY <2>3, CrashOne
    <3>2. req[r].pc \in Before \cup {"done"}
      BY <2>3 DEF Running, Before
    <3> QED BY <2>1, <2>3, <3>1, <3>2, StageAt
  <2> QED BY <2>2, <2>3
<1>4. SF!CrashAll
  <2> DEFINE early == {r \in Requests : Running(r) /\ stages[r] = "out"}
  <2>1. early \in SUBSET {c \in Requests : stages[c] = "out"}
    OBVIOUS
  <2>2. \A r \in Requests : stages'[r] = IF SF!Vanish(r, early) THEN "gone" ELSE stages[r]
    <3>1. ASSUME NEW r \in Requests
          PROVE  stages'[r] = IF SF!Vanish(r, early) THEN "gone" ELSE stages[r]
      <4>1. stages[r] = Stage(req[r]) /\ stages'[r] = Stage(req'[r])
        BY StageIs, StageIsNext DEF stages
      <4>2. stages[r] \in {"asking", "flying", "blind", "closing", "gone", "out"}
        BY <4>1 DEF Stage
      <4>3. SF!Vanish(r, early) <=> stages[r] \in {"asking", "flying", "blind", "closing"} \/ r \in early
        BY DEF SF!Vanish, stages
      <4>4. CASE Running(r)
        BY <1>3, <4>1, <4>2, <4>3, <4>4
      <4>5. CASE ~Running(r)
        BY <1>3, <4>1, <4>3, <4>5
      <4> QED BY <4>4, <4>5
    <3> QED BY <3>1
  <2>3. stages' = [r \in Requests |-> IF SF!Vanish(r, early) THEN "gone" ELSE stages[r]]
    BY <2>2 DEF stages
  <2>4. lefts' = [r \in Requests |-> 0]
    BY <1>3, StageIsNext DEF lefts
  <2> HIDE DEF early
  <2> QED BY <1>1, <2>1, <2>3, <2>4 DEF SF!CrashAll, stages, lefts, holders, ttls
<1>5. SF!SFNext
  BY <1>1, <1>4, KeysKept DEF SF!SFNext, SF!Step, keys
<1>6. \A r \in Requests : Guards(req[r])'
  BY <1>3 DEF Guards
<1>7. Locks'
  BY <1>1 DEF GuardInv, Locks
<1> QED BY <1>1, <1>2, <1>5, <1>6, <1>7 DEF GuardInv

\* The cycle starts where the guard starts.
LEMMA GuardInit ==
  ASSUME Init
  PROVE  GuardInv /\ SF!SFInit
<1>1. cast \in Casts /\ req = [r \in Requests |-> Fresh] /\ lock = [d \in Digests |-> NoLock]
  BY DEF Init
<1>2. /\ DOMAIN lock = Digests
      /\ \A d \in Digests : DOMAIN lock[d] = {"by", "ttl"} /\ lock[d].by = Nobody /\ lock[d].ttl = 0
  BY <1>1 DEF NoLock
<1>3. Shape
  BY <1>1, FreshFields DEF Shape
<1>4. \A r \in Requests : req[r].pc = "idle" /\ req[r].left = 0 /\ req[r].err = Blank
  BY <1>1 DEF Fresh, Blank
<1>5. Locks
  BY <1>2, SMTT(30) DEF Locks
<1>10. \A r \in Requests : Guards(req[r])
  <2>1. 0 \in 0..TotalTicks
    BY GuardAssumed, SMTT(30) DEF SF!GuardConstants
  <2> QED BY <1>4, <2>1, BlankApart DEF Guards, Pcs, Before
<1>6. stages = [r \in Requests |-> "out"] /\ lefts = [r \in Requests |-> 0]
  <2>1. \A r \in Requests : Stage(req[r]) = "out" /\ Left(req[r]) = 0
    BY <1>4, StageAt DEF Before
  <2> QED BY <2>1, StageIs DEF stages, lefts
<1>7. holders = [d \in Digests |-> Nobody] /\ ttls = [d \in Digests |-> 0]
  BY <1>2 DEF holders, ttls
<1>8. keys \in [Requests -> Digests]
  BY <1>1, DigestIn DEF keys
<1>9. SF!SFInit
  BY <1>6, <1>7, <1>8 DEF SF!SFInit, stages, lefts, holders, ttls, keys
<1> QED BY <1>1, <1>3, <1>5, <1>9, <1>10 DEF GuardInv

\* Every step keeps GuardInv and is a step of the guard or a stutter.
LEMMA GuardStep ==
  ASSUME GuardInv, [Next]_vars
  PROVE  GuardInv' /\ [SF!SFNext]_SF!sfvars
<1>1. ASSUME NEW r \in Requests, RateLimit(r) \/ Enter(r)
      PROVE  GuardInv' /\ [SF!SFNext]_SF!sfvars
  BY <1>1, GuardRateLimit, GuardEnter
<1>2. ASSUME NEW r \in Requests, Prepare(r)
      PROVE  GuardInv' /\ [SF!SFNext]_SF!sfvars
  BY <1>2, GuardBill, GuardAnalyze, GuardPersist, GuardCommitTa, GuardContext DEF Prepare
<1>3. ASSUME NEW r \in Requests, Process(r)
      PROVE  GuardInv' /\ [SF!SFNext]_SF!sfvars
  BY <1>3, GuardCheckCached, GuardAcquire, GuardAwaitResult, GuardReserve, GuardCallFails, GuardCallReturns,
     GuardRefund, GuardSettle, GuardPersistSuccess, GuardStoreResult, GuardRelease, GuardFails, GuardTimeout
     DEF Process
<1>4. CASE Tick
  BY <1>4, GuardTick
<1>5. CASE Crash
  BY <1>5, GuardCrash
<1>6. CASE UNCHANGED vars
  <2>1. cast' = cast /\ req' = req /\ lock' = lock
    BY <1>6 DEF vars
  <2>2. GuardInv'
    BY <2>1 DEF GuardInv, Shape, Locks, Guards
  <2>3. stages' = stages /\ lefts' = lefts
    BY <2>1, StageIs, StageIsNext DEF stages, lefts
  <2> QED BY <2>1, <2>2, <2>3, KeysKept DEF SF!sfvars, stages, lefts, keys
<1> QED BY <1>1, <1>2, <1>3, <1>4, <1>5, <1>6 DEF Next

\* The records keep their fields and timers, and the lock its keys, in every
\* reachable state.
THEOREM CycleGuardInv == Spec => []GuardInv
BY GuardInit, GuardStep, PTL DEF Spec

\* The analysis cycle implements the single-flight guard, for any number of
\* requests, users and digests and any timers with await < total < lock: through
\* lost replies, a timeout in any await and restarts, _execute_guarded uses its
\* Redis lock as SingleFlight describes.
THEOREM GuardIsRefined == Spec => GuardRefined
<1>1. Spec => SF!SFInit /\ [][SF!SFNext]_SF!sfvars
  BY GuardInit, GuardStep, PTL DEF Spec
<1> QED BY <1>1 DEF GuardRefined, SF!SFSpec

-----------------------------------------------------------------------------
\* The strengthening of OneFlight, on the cycle's own state: the token of a call
\* that flies is in the lock, which outlasts the time the call has left.
Flight ==
  /\ lefts \in [Requests -> 0..TotalTicks]
  /\ holders \in [Digests -> Requests \cup {Nobody}]
  /\ ttls \in [Digests -> 0..LockTicks]
  /\ \A c \in Requests : stages[c] = "flying" =>
       holders[keys[c]] = c /\ ttls[keys[c]] >= lefts[c] + (LockTicks - TotalTicks)

\* A step of the guard keeps Flight: a lock is taken when it is free, dropped by its
\* own token, and lives longer than the call may run.
LEMMA FlightStep ==
  ASSUME keys \in [Requests -> Digests], keys' = keys, Flight, [SF!SFNext]_SF!sfvars
  PROVE  Flight'
<1> DEFINE seen == <<stages, lefts, holders, ttls>>
<1>0. /\ Nobody \notin Requests /\ TotalTicks \in Nat /\ LockTicks \in Nat /\ TotalTicks < LockTicks
      /\ DOMAIN stages = Requests
  BY GuardAssumed DEF SF!GuardConstants, stages
<1>1. ASSUME NEW c \in Requests, stages' = [stages EXCEPT ![c] = "asking"],
             lefts' = [lefts EXCEPT ![c] = TotalTicks], holders' = holders, ttls' = ttls
      PROVE  Flight'
  BY <1>0, <1>1, SMTT(30) DEF Flight
<1>2. ASSUME NEW c \in Requests, NEW s, s # "flying", stages' = [stages EXCEPT ![c] = s],
             lefts' = lefts \/ lefts' = [lefts EXCEPT ![c] = 0], holders' = holders, ttls' = ttls
      PROVE  Flight'
  BY <1>0, <1>2, SMTT(30) DEF Flight
<1>3. ASSUME NEW c \in Requests, stages[c] # "flying", ttls[keys[c]] = 0,
             stages' = stages \/ stages' = [stages EXCEPT ![c] = "flying"]
               \/ stages' = [stages EXCEPT ![c] = "gone"],
             lefts' = lefts \/ (lefts' = [lefts EXCEPT ![c] = 0] /\ stages'[c] # "flying"),
             holders' = [holders EXCEPT ![keys[c]] = c], ttls' = [ttls EXCEPT ![keys[c]] = LockTicks]
      PROVE  Flight'
  <2>1. \A d \in Requests : stages[d] = "flying" => keys[d] # keys[c]
    BY <1>0, <1>3, SMTT(30) DEF Flight
  <2>2. \A d \in Requests : d # c => stages'[d] = stages[d] /\ lefts'[d] = lefts[d]
    BY <1>0, <1>3 DEF Flight
  <2>3. /\ lefts' \in [Requests -> 0..TotalTicks] /\ holders' \in [Digests -> Requests \cup {Nobody}]
        /\ ttls' \in [Digests -> 0..LockTicks]
    BY <1>0, <1>3, SMTT(30) DEF Flight
  <2>4. \A d \in Requests : d # c /\ stages'[d] = "flying" =>
          holders'[keys[d]] = d /\ ttls'[keys[d]] >= lefts'[d] + (LockTicks - TotalTicks)
    BY <1>0, <1>3, <2>1, <2>2 DEF Flight
  <2>5. stages'[c] = "flying" =>
          holders'[keys[c]] = c /\ ttls'[keys[c]] >= lefts'[c] + (LockTicks - TotalTicks)
    BY <1>0, <1>3, SMTT(30) DEF Flight
  <2> QED BY <2>3, <2>4, <2>5 DEF Flight
<1>4. ASSUME NEW c \in Requests, stages' = [stages EXCEPT ![c] = "gone"], lefts' = lefts,
             holders[keys[c]] = c, holders' = [holders EXCEPT ![keys[c]] = Nobody],
             ttls' = [ttls EXCEPT ![keys[c]] = 0]
      PROVE  Flight'
  <2>1. \A d \in Requests : d # c /\ stages[d] = "flying" => keys[d] # keys[c]
    BY <1>4 DEF Flight
  <2> QED BY <1>0, <1>4, <2>1, SMTT(30) DEF Flight
<1>5. CASE SF!TickAll
  <2>1. /\ \A c \in Requests : stages[c] \in SF!Timed => lefts[c] > 0
        /\ lefts' = [c \in Requests |-> SF!Less(lefts[c])]
        /\ ttls' = [k \in Digests |-> SF!Less(ttls[k])]
        /\ holders' = [k \in Digests |-> IF ttls[k] <= 1 THEN Nobody ELSE holders[k]]
        /\ stages' = stages
    BY <1>5 DEF SF!TickAll, stages, lefts, holders, ttls
  <2>2. /\ lefts' \in [Requests -> 0..TotalTicks] /\ holders' \in [Digests -> Requests \cup {Nobody}]
        /\ ttls' \in [Digests -> 0..LockTicks]
    BY <1>0, <2>1, SMTT(30) DEF Flight, SF!Less
  <2>3. ASSUME NEW c \in Requests, stages'[c] = "flying"
        PROVE  holders'[keys[c]] = c /\ ttls'[keys[c]] >= lefts'[c] + (LockTicks - TotalTicks)
    <3>1. /\ holders[keys[c]] = c /\ ttls[keys[c]] >= lefts[c] + (LockTicks - TotalTicks) /\ lefts[c] > 0
          /\ keys[c] \in Digests /\ ttls[keys[c]] \in 0..LockTicks /\ lefts[c] \in 0..TotalTicks
      BY <2>1, <2>3 DEF Flight, SF!Timed
    <3>2. /\ ttls'[keys[c]] = SF!Less(ttls[keys[c]]) /\ lefts'[c] = SF!Less(lefts[c])
          /\ holders'[keys[c]] = IF ttls[keys[c]] <= 1 THEN Nobody ELSE holders[keys[c]]
      BY <2>1, <3>1
    <3> QED BY <1>0, <3>1, <3>2, SMTT(30) DEF SF!Less
  <2> QED BY <2>2, <2>3 DEF Flight
<1>6. CASE SF!CrashAll
  <2>1. PICK early : stages' = [c \in Requests |-> IF SF!Vanish(c, early) THEN "gone" ELSE stages[c]]
    BY <1>6 DEF SF!CrashAll, stages
  <2>2. lefts' = [c \in Requests |-> 0] /\ holders' = holders /\ ttls' = ttls
    BY <1>6 DEF SF!CrashAll, lefts, holders, ttls
  <2>3. \A c \in Requests : stages'[c] = "flying" => stages[c] = "flying"
    BY <2>1
  <2> QED BY <1>0, <2>2, <2>3, SMTT(30) DEF Flight
<1>7. ASSUME NEW c \in Requests,
             \/ SF!Ask(c) \/ SF!TakeOff(c) \/ SF!LoseReply(c) \/ SF!FlyBlind(c)
             \/ SF!GiveUp(c) \/ SF!Close(c) \/ SF!Land(c) \/ SF!Skip(c)
      PROVE  Flight'
  <2> USE DEF stages, lefts, holders, ttls, keys, SF!Move, SF!Spent
  <2>1. CASE SF!Ask(c)
    BY <1>1, <2>1 DEF SF!Ask
  <2>2. CASE SF!TakeOff(c)
    BY <1>3, <2>2 DEF SF!TakeOff, SF!Lock
  <2>3. CASE SF!LoseReply(c)
    BY <1>3, <2>3 DEF SF!LoseReply, SF!Lock
  <2>4. CASE SF!FlyBlind(c)
    BY <1>2, <2>4 DEF SF!FlyBlind
  <2>5. CASE SF!GiveUp(c)
    <3>1. CASE SF!Lock(c)
      BY <1>3, <2>5, <3>1 DEF SF!GiveUp, SF!Lock
    <3>2. CASE UNCHANGED <<holders, ttls>>
      BY <1>2, <2>5, <3>2 DEF SF!GiveUp
    <3> QED BY <2>5, <3>1, <3>2 DEF SF!GiveUp
  <2>6. CASE SF!Close(c)
    BY <1>2, <2>6 DEF SF!Close
  <2>7. CASE SF!Land(c)
    <3>1. CASE SF!Unlock(c)
      BY <1>4, <2>7, <3>1 DEF SF!Land, SF!Unlock
    <3>2. CASE UNCHANGED <<holders, ttls>>
      BY <1>2, <2>7, <3>2 DEF SF!Land
    <3> QED BY <2>7, <3>1, <3>2 DEF SF!Land
  <2>8. CASE SF!Skip(c)
    BY <1>2, <2>8 DEF SF!Skip
  <2> QED BY <1>7, <2>1, <2>2, <2>3, <2>4, <2>5, <2>6, <2>7, <2>8
<1>8. CASE UNCHANGED SF!sfvars
  <2>1. UNCHANGED <<stages, lefts, holders, ttls>>
    BY <1>8 DEF SF!sfvars, stages, lefts, holders, ttls
  <2> QED BY <2>1 DEF Flight
<1> QED BY <1>5, <1>6, <1>7, <1>8 DEF SF!SFNext, SF!Step

\* No call flies at the start.
LEMMA FlightInit == ASSUME SF!SFInit PROVE Flight
BY GuardAssumed, SMTT(30) DEF SF!SFInit, SF!GuardConstants, Flight, stages, lefts, holders, ttls

Flights == Flight /\ keys \in [Requests -> Digests]

\* Nobody but the owner's own step, its cancellation or a crash takes a lock away
\* from under a flying call (release_lock's compare-and-delete, the lock's TTL):
\* this much the guard's protocol gives by itself.
THEOREM FlightKeepsLock == GuardRefined => []SF!FlightInv
<1>1. SF!SFInit => Flights
  BY FlightInit DEF Flights, SF!SFInit, keys
<1>2. Flights /\ [SF!SFNext]_SF!sfvars => Flights'
  <2> SUFFICES ASSUME Flights, [SF!SFNext]_SF!sfvars PROVE Flights'
    OBVIOUS
  <2>1. keys' = keys
    BY DEF SF!SFNext, SF!sfvars, keys
  <2>2. Flight'
    BY <2>1, FlightStep DEF Flights
  <2> QED BY <2>1, <2>2 DEF Flights
<1>3. Flights => SF!FlightInv
  <2> SUFFICES ASSUME Flights PROVE SF!FlightInv
    OBVIOUS
  <2>1. \A c \in Requests : StageOf(c) \in SF!Stages
    BY StageIs DEF Stage, SF!Stages
  <2>2. SF!SFTypeOK
    BY <2>1 DEF Flights, Flight, SF!SFTypeOK, keys, lefts, holders, ttls
  <2> QED BY <2>2 DEF Flights, Flight, SF!FlightInv, stages, keys, lefts, holders, ttls
<1> QED BY <1>1, <1>2, <1>3, PTL DEF GuardRefined, SF!SFSpec

\* At most one call that holds the lock of a digest is inside _execute, for any
\* number of requests: _LOCK_TTL_SECONDS outlasts the total timeout, and a release
\* compares the token.
THEOREM OneFlightHolds == Spec => []SF!OneFlight
<1>1. SF!FlightInv => SF!OneFlight
  BY DEF SF!FlightInv, SF!OneFlight
<1> QED BY <1>1, GuardIsRefined, FlightKeepsLock, PTL

-----------------------------------------------------------------------------
(* The flow of a request: reservations, answers and the result cache *)

Accepted(o) == o \in Answers /\ ParseLlmResponse(o, TRUE) = Blank
Late == {"release", "fail", "done"}
Owed(r) == IF Metered(r) THEN "held" ELSE "none"
Paid(r) == IF Metered(r) THEN "committed" ELSE "none"

\* A metering call, the timeout or a restart cut the request short.
Cut(y) == y.cut = TRUE

\* A hold that nothing cut short is closed, and refunded only after a failed call.
Closed(y) ==
  ~Cut(y) => /\ y.hold # "held"
             /\ y.hold = "refunded" => y.err # Blank /\ y.err # "LLMSchemaViolationError"

\* What the program counter says of the rest of the request's record y.
Flow(r, y) ==
  /\ y.pc = "done" <=> y.out # Blank
  /\ y.pc # "done" => y.gave = {}
  /\ y.pc \in Before \cup Guarded \cup {"execute"} => y.hold = "none" /\ ~Cut(y) /\ y.err = Blank
  /\ y.pc \in {"call", "settle"} => y.hold = Owed(r) /\ ~Cut(y) /\ y.err = Blank
  /\ y.pc = "settle" => y.got \in Answers
  /\ y.pc = "refund" => /\ y.hold = Owed(r) /\ ~Cut(y)
                        /\ y.err # Blank /\ y.err # "LLMSchemaViolationError"
  /\ y.pc \in {"save", "store"} => y.err = Blank /\ Accepted(y.got) /\ (~Cut(y) => y.hold = Paid(r))
  /\ y.pc = "release" /\ y.err = Blank => Accepted(y.got) /\ (~Cut(y) => y.hold = Paid(r))
  /\ y.pc = "fail" => y.err # Blank
  /\ y.pc \in Late => Closed(y)

\* An output mapped from an accepted answer.
Approved(o, pair) ==
  /\ o.symbol = pair
  /\ o.valid => /\ 0 < o.lo /\ o.lo <= o.entry /\ o.entry <= o.hi
                /\ Given(o.sl) /\ o.sl > 0
                /\ Given(o.rr) /\ o.rr >= 20 /\ (o.style = "POSITIONAL" => o.rr >= 50)
                /\ o.score >= RejectBelow /\ o.score <= ScoreMax
                /\ o.risk = (IF o.grade = "B" THEN 5 ELSE 10)

\* What was given to the caller of r.
Handed(r, y) ==
  \A g \in y.gave : /\ g.by \in Requests /\ Digest(g.by) = Digest(r) /\ Approved(g.out, PairOf[r])
                    /\ g.by = r /\ ~Cut(y) => y.hold = Paid(r)

Results ==
  /\ DOMAIN result = Digests
  /\ \A d \in Digests :
       /\ DOMAIN result[d] = {"by", "out", "ttl"} /\ result[d].ttl \in Nat
       /\ Cached(d) => /\ result[d].by \in Requests /\ Digest(result[d].by) = d
                       /\ Approved(result[d].out, PairOf[result[d].by])
                       /\ req[result[d].by].pc \in Late

FlowInv == Results /\ \A r \in Requests : Flow(r, req[r]) /\ Handed(r, req[r])

Early == Before \cup Guarded \cup {"execute"}

\* The parser's acceptance and the mapper's decision together.
LEMMA OutputApproved ==
  ASSUME NEW o, Accepted(o), NEW pair
  PROVE  Approved(MapToProcessorOutput(o, pair), pair)
<1> DEFINE m == MapToProcessorOutput(o, pair)
           all == ValidateAnalysisOutput(o, TRUE)
<1>1. /\ m.symbol = pair /\ m.valid = TradeValid(o) /\ m.lo = o.lo /\ m.hi = o.hi /\ m.sl = o.sl
      /\ m.rr = o.rr /\ m.style = o.style /\ m.score = o.score /\ m.grade = o.grade
      /\ m.risk = (IF TradeValid(o) THEN GradeToRisk(o.grade) ELSE None)
      /\ m.entry = (IF Given(o.lo) /\ Given(o.hi) THEN (o.lo + o.hi) \div 2 ELSE None)
  BY DEF MapToProcessorOutput
<1>2. all \ NonFatal = {}
  BY DEF Accepted, ParseLlmResponse, Blank
<1>3. ASSUME NEW rule, rule \notin NonFatal PROVE rule \notin all
  BY <1>2, <1>3
<1>4. /\ ValidateScore(o) \subseteq all /\ ValidateGrade(o) \subseteq all
      /\ ValidateConstruction(o) \subseteq all /\ ValidateRr(o) \subseteq all
  BY DEF ValidateAnalysisOutput
<1> HIDE DEF m, all
<1>5. o.score \in 0..ScoreMax
  <2>1. "confluence_score" \notin ValidateScore(o)
    BY <1>3, <1>4 DEF NonFatal
  <2> QED BY <2>1 DEF ValidateScore, Broken
<1>6. ASSUME TradeValid(o) PROVE o.score >= RejectBelow
  <2>1. "grade" \notin ValidateGrade(o)
    BY <1>3, <1>4 DEF NonFatal
  <2>2. o.score < RejectBelow => o.grade = "REJECT"
    BY <2>1 DEF ValidateGrade, Broken
  <2> QED BY <1>5, <1>6, <2>2, SMTT(30) DEF TradeValid, RejectBelow, ScoreMax
<1>7. ASSUME Traded(o) PROVE Given(o.lo) /\ Given(o.hi) /\ o.lo <= o.hi /\ o.lo > 0
  <2>1. "entry_zone" \notin ValidateConstruction(o)
    BY <1>3, <1>4 DEF NonFatal
  <2> QED BY <1>7, <2>1 DEF ValidateConstruction, Broken
<1>8. ASSUME Traded(o) PROVE Given(o.sl) /\ o.sl > 0
  <2>1. "stop_loss" \notin ValidateConstruction(o)
    BY <1>3, <1>4 DEF NonFatal
  <2> QED BY <1>8, <2>1 DEF ValidateConstruction, Broken
<1>9. ASSUME Traded(o) PROVE Given(o.rr) /\ o.rr >= MinRr(o.style)
  <2>1. "rr_ratio" \notin ValidateRr(o)
    BY <1>3, <1>4 DEF NonFatal
  <2> QED BY <1>9, <2>1 DEF ValidateRr, Broken
<1>10. {o.lo, o.hi, o.sl, o.rr, o.score} \subseteq Int
  BY AnswersNumeric DEF Accepted
<1>11. ASSUME TradeValid(o)
       PROVE  /\ 0 < m.lo /\ m.lo <= m.entry /\ m.entry <= m.hi
  <2>1. Given(o.lo) /\ Given(o.hi) /\ o.lo <= o.hi /\ o.lo > 0 /\ m.entry = (o.lo + o.hi) \div 2
    BY <1>1, <1>7, <1>11 DEF TradeValid
  <2> QED BY <1>1, <1>10, <2>1, SMTT(30)
<1>12. ASSUME TradeValid(o)
       PROVE  Given(m.rr) /\ m.rr >= 20 /\ (m.style = "POSITIONAL" => m.rr >= 50)
  <2>1. Given(o.rr) /\ o.rr >= MinRr(o.style)
    BY <1>9, <1>12 DEF TradeValid
  <2>2. MinRr(o.style) \in Int /\ MinRr(o.style) >= 20 /\ (o.style = "POSITIONAL" => MinRr(o.style) = 50)
    BY SMTT(30) DEF MinRr
  <2> QED BY <1>1, <1>10, <2>1, <2>2, SMTT(30)
<1>13. ASSUME TradeValid(o) PROVE m.risk = (IF m.grade = "B" THEN 5 ELSE 10)
  BY <1>1, <1>13 DEF TradeValid, GradeToRisk
<1>14. ASSUME TradeValid(o) PROVE /\ Given(m.sl) /\ m.sl > 0
                                  /\ m.score >= RejectBelow /\ m.score <= ScoreMax
  BY <1>1, <1>5, <1>6, <1>8, <1>14, SMTT(30) DEF TradeValid, ScoreMax
<1> QED BY <1>1, <1>11, <1>12, <1>13, <1>14 DEF Approved, m

\* Whatever changes, when every record keeps its flow.
LEMMA FlowAll ==
  ASSUME cast' = cast, Results',
         \A q \in Requests : Flow(q, req'[q]) /\ Handed(q, req'[q])
  PROVE  FlowInv'
<1>1. \A q \in Requests : Owed(q)' = Owed(q) /\ Paid(q)' = Paid(q) /\ Digest(q)' = Digest(q)
  BY DigestKept DEF Owed, Paid, Metered, UserOf
<1>2. ASSUME NEW q \in Requests PROVE Flow(q, req[q])'
  <2>1. Flow(q, req'[q]) /\ Owed(q)' = Owed(q) /\ Paid(q)' = Paid(q)
    BY <1>1
  <2> QED BY <2>1 DEF Flow, Closed, Accepted
<1>3. ASSUME NEW q \in Requests PROVE Handed(q, req[q])'
  <2>1. Handed(q, req'[q])
    OBVIOUS
  <2> QED BY <1>1, <2>1 DEF Handed, Approved
<1> QED BY <1>2, <1>3 DEF FlowInv

\* The cache's promise holds on while no cached request becomes unfinished.
LEMMA ResultsKept ==
  ASSUME Results, cast' = cast, result' = result,
         \A q \in Requests : req[q].pc \in Late => req'[q].pc \in Late
  PROVE  Results'
<1>1. \A q \in Requests : Digest(q)' = Digest(q)
  BY DigestKept
<1>2. ASSUME NEW d \in Digests, Cached(d)'
      PROVE  /\ result[d].by \in Requests /\ Digest(result[d].by) = d
             /\ Approved(result[d].out, PairOf[result[d].by])
             /\ req'[result[d].by].pc \in Late
  BY <1>2 DEF Results, Cached
<1> QED BY <1>1, <1>2 DEF Results, Approved

\* A step of one request that keeps the cache.
LEMMA FlowOne ==
  ASSUME FlowInv, NEW r \in Requests, NEW x, Becomes(r, x), cast' = cast, result' = result,
         Flow(r, x), Handed(r, x), req[r].pc \in Late => x.pc \in Late
  PROVE  FlowInv'
<1>1. \A q \in Requests : req[q].pc \in Late => req'[q].pc \in Late
  BY DEF Becomes
<1>2. Results'
  BY <1>1, ResultsKept DEF FlowInv
<1>3. \A q \in Requests : Flow(q, req'[q]) /\ Handed(q, req'[q])
  BY DEF Becomes, FlowInv
<1> QED BY <1>2, <1>3, FlowAll

\* What a request owes when it ends with the error e and the answers g: its hold is
\* closed as e asks, and each answer is approved and, if its own, paid.
EndsWell(r, e, g) ==
  /\ ~Cut(req[r]) => /\ req[r].hold # "held"
                     /\ req[r].hold = "refunded" => e # Blank /\ e # "LLMSchemaViolationError"
  /\ \A h \in g : /\ h.by \in Requests /\ Digest(h.by) = Digest(r) /\ Approved(h.out, PairOf[r])
                  /\ h.by = r /\ ~Cut(req[r]) => req[r].hold = Paid(r)

\* The end of a request.
LEMMA FlowEnded ==
  ASSUME GuardInv, FlowInv, NEW r \in Requests, NEW e, NEW o, NEW g, Ended(r, e, o, g),
         cast' = cast, result' = result, o # Blank, EndsWell(r, e, g)
  PROVE  FlowInv'
<1> DEFINE x == req'[r]
<1>0. Shape
  BY DEF GuardInv
<1>1. /\ Becomes(r, x) /\ x.pc = "done" /\ x.err = e /\ x.out = o /\ x.gave = g
      /\ x.hold = req[r].hold /\ x.cut = req[r].cut
  BY <1>0, EndedOne, SMTT(30)
<1>4. Cut(x) <=> Cut(req[r])
  BY <1>1 DEF Cut
<1> HIDE DEF x
<1>2. Flow(r, x)
  BY <1>1, <1>4 DEF EndsWell, Flow, Closed, Late, Before, Guarded
<1>3. Handed(r, x)
  BY <1>1, <1>4 DEF EndsWell, Handed
<1> QED BY <1>1, <1>2, <1>3, FlowOne DEF Late

\* The fields of a request after Set.
LEMMA SetFields ==
  ASSUME GuardInv, NEW r \in Requests, NEW f, Set(r, f)
  PROVE  LET x == Patch(req[r], f)
         IN /\ Becomes(r, x)
            /\ x.pc = IF "pc" \in DOMAIN f THEN f.pc ELSE req[r].pc
            /\ x.hold = IF "hold" \in DOMAIN f THEN f.hold ELSE req[r].hold
            /\ x.cut = IF "cut" \in DOMAIN f THEN f.cut ELSE req[r].cut
            /\ "cut" \notin DOMAIN f => (Cut(x) <=> Cut(req[r]))
            /\ x.err = IF "err" \in DOMAIN f THEN f.err ELSE req[r].err
            /\ x.got = IF "got" \in DOMAIN f THEN f.got ELSE req[r].got
            /\ x.out = IF "out" \in DOMAIN f THEN f.out ELSE req[r].out
            /\ x.gave = IF "gave" \in DOMAIN f THEN f.gave ELSE req[r].gave
<1>1. Becomes(r, Patch(req[r], f))
  BY SetOne DEF GuardInv
<1>2. DOMAIN req[r] = Fields
  BY DEF GuardInv, Shape
<1>3. "cut" \notin DOMAIN f => Patch(req[r], f).cut = req[r].cut
  BY <1>2 DEF Patch, Fields
<1>4. "cut" \notin DOMAIN f => (Cut(Patch(req[r], f)) <=> Cut(req[r]))
  BY <1>3 DEF Cut
<1> QED BY <1>1, <1>2, <1>4 DEF Patch, Fields

\* A step that leaves the flow's fields alone and stays before the call.
LEMMA FlowEarly ==
  ASSUME GuardInv, FlowInv, NEW r \in Requests, NEW f, Set(r, f), cast' = cast, result' = result,
         "pc" \in DOMAIN f, DOMAIN f \cap {"hold", "cut", "err", "got", "out", "gave"} = {},
         req[r].pc \in Early, f.pc \in Early
  PROVE  FlowInv'
<1> DEFINE y == req[r]
           x == Patch(y, f)
<1>1. /\ Becomes(r, x) /\ x.pc = f.pc /\ x.hold = y.hold /\ (Cut(x) <=> Cut(y)) /\ x.err = y.err
      /\ x.out = y.out /\ x.gave = y.gave
  BY SetFields
<1>2. Flow(r, y)
  BY DEF FlowInv
<1> HIDE DEF x, y
<1>3. y.pc \in Early /\ f.pc \in Early
  BY DEF y
<1>4. x.gave = {} /\ y.pc # "done" /\ x.pc # "done"
  BY <1>1, <1>2, <1>3 DEF Flow, Early, Before, Guarded
<1>5. Flow(r, x)
  BY <1>1, <1>2, <1>3, <1>4 DEF Flow, Early, Before, Guarded, Late
<1>6. Handed(r, x)
  BY <1>4 DEF Handed
<1>7. req[r].pc \notin Late
  BY <1>3 DEF y, Early, Before, Guarded, Late
<1> QED BY <1>1, <1>5, <1>6, <1>7, FlowOne

\* The end of a request that made no reservation, without an answer.
LEMMA FlowTurnedAway ==
  ASSUME GuardInv, FlowInv, NEW r \in Requests, NEW e, NEW o, Ended(r, e, o, {}),
         cast' = cast, result' = result, o # Blank, req[r].pc \in Early
  PROVE  FlowInv'
<1>1. req[r].hold = "none"
  BY DEF FlowInv, Flow, Early
<1>2. EndsWell(r, e, {})
  BY <1>1 DEF EndsWell
<1> QED BY <1>2, FlowEnded

\* A step to another place before the call.
LEMMA FlowGoto ==
  ASSUME GuardInv, FlowInv, NEW r \in Requests, NEW to, Goto(r, to), cast' = cast, result' = result,
         req[r].pc \in Early, to \in Early
  PROVE  FlowInv'
<1> DEFINE f == [pc |-> to]
<1>1. DOMAIN f = {"pc"} /\ f.pc = to /\ Set(r, f)
  BY DEF Goto
<1> HIDE DEF f
<1> QED BY <1>1, FlowEarly

\* _rate_limit lets the request through or answers 429.
LEMMA FlowRateLimit ==
  ASSUME GuardInv, FlowInv, NEW r \in Requests, RateLimit(r)
  PROVE  FlowInv'
<1>1. req[r].pc = "idle" /\ result' = result /\ cast' = cast
  BY DEF RateLimit, At, tables
<1>2. {"idle", "bill"} \subseteq Early
  BY DEF Early, Before
<1>3. CASE Goto(r, "bill")
  BY <1>1, <1>2, <1>3, FlowGoto
<1>4. CASE Ended(r, "HTTPException", "429", {})
  BY <1>1, <1>2, <1>4, FlowTurnedAway, BlankApart
<1> QED BY <1>3, <1>4 DEF RateLimit

\* The billing lets the request through or ends it without a hold.
LEMMA FlowBill ==
  ASSUME GuardInv, FlowInv, NEW r \in Requests, Bill(r)
  PROVE  FlowInv'
<1>1. req[r].pc = "bill" /\ result' = result /\ cast' = cast
  BY DEF Bill, At, redis
<1>2. {"bill", "ta"} \subseteq Early
  BY DEF Early, Before
<1>3. CASE Goto(r, "ta")
  BY <1>1, <1>2, <1>3, FlowGoto
<1>4. CASE Ended(r, "HTTPException", "400", {}) \/ Ended(r, "DatabaseError", "500", {})
  BY <1>1, <1>2, <1>4, FlowTurnedAway, BlankApart
<1> QED BY <1>3, <1>4 DEF Bill

\* The analysis starts, or ends the rerun.
LEMMA FlowAnalyze ==
  ASSUME GuardInv, FlowInv, NEW r \in Requests, Analyze(r)
  PROVE  FlowInv'
<1>1. req[r].pc \in {"ta", "idle"} /\ result' = result /\ cast' = cast
  BY DEF Analyze, At, redis, tables
<1>2. {"ta", "idle", "snapshots"} \subseteq Early
  BY DEF Early, Before
<1>3. CASE Ended(r, Blank, "completed", {})
  BY <1>1, <1>2, <1>3, FlowTurnedAway, BlankApart
<1>4. CASE ~Ended(r, Blank, "completed", {})
  <2>1. PICK f \in Findings :
          req' = [q \in Requests |->
                    IF q = r THEN [req[r] EXCEPT !.pc = "snapshots", !.found = f,
                                                 !.saw = @ \cup {p \in Requests : Open(p)}]
                    ELSE IF Open(q) THEN [req[q] EXCEPT !.saw = @ \cup {r}] ELSE req[q]]
    BY <1>4 DEF Analyze, Blank
  <2>2. ASSUME NEW q \in Requests
        PROVE  /\ req'[q].pc = (IF q = r THEN "snapshots" ELSE req[q].pc)
               /\ req'[q].hold = req[q].hold /\ req'[q].cut = req[q].cut /\ req'[q].err = req[q].err
               /\ req'[q].got = req[q].got /\ req'[q].out = req[q].out /\ req'[q].gave = req[q].gave
    <3>1. DOMAIN req[q] = Fields /\ DOMAIN req[r] = Fields
      BY DEF GuardInv, Shape
    <3> QED BY <2>1, <3>1 DEF Fields
  <2>3. ASSUME NEW q \in Requests PROVE Cut(req'[q]) <=> Cut(req[q])
    BY <2>2 DEF Cut
  <2>4. ASSUME NEW q \in Requests
        PROVE  /\ Flow(q, req'[q]) /\ Handed(q, req'[q])
               /\ req[q].pc \in Late => req'[q].pc \in Late
    <3> DEFINE y == req[q]
               x == req'[q]
    <3>1. /\ x.hold = y.hold /\ x.err = y.err /\ x.got = y.got /\ x.out = y.out /\ x.gave = y.gave
          /\ Cut(x) <=> Cut(y)
          /\ x.pc = y.pc \/ (y.pc \in {"ta", "idle"} /\ x.pc = "snapshots")
      BY <1>1, <2>2, <2>3
    <3>2. Flow(q, y) /\ Handed(q, y)
      BY DEF FlowInv
    <3> HIDE DEF x, y
    <3>3. Flow(q, x)
      BY <3>1, <3>2 DEF Flow, Closed, Late, Before, Guarded
    <3>4. Handed(q, x)
      BY <3>1, <3>2 DEF Handed
    <3>5. y.pc \in Late => x.pc \in Late
      BY <3>1 DEF Late
    <3> QED BY <3>3, <3>4, <3>5 DEF x, y
  <2>5. Results'
    BY <1>1, <2>4, ResultsKept DEF FlowInv
  <2> QED BY <1>1, <2>4, <2>5, FlowAll
<1> QED BY <1>3, <1>4

\* The statements of the analysis change neither hold nor answer.
LEMMA FlowPersist ==
  ASSUME GuardInv, FlowInv, NEW r \in Requests, PersistSnapshots(r) \/ PersistSmc(r) \/ PersistSnd(r)
  PROVE  FlowInv'
<1>1. {"snapshots", "smc", "snd", "commit"} \subseteq Early
  BY DEF Early, Before
<1>2. ASSUME NEW from \in Early, NEW to \in Early, NEW works, Statement(r, from, to, works)
      PROVE  FlowInv'
  <2>1. req[r].pc = from /\ result' = result /\ cast' = cast
    BY <1>2 DEF Statement, At, redis, tables
  <2>2. ASSUME NEW tx, Set(r, [pc |-> to, tx |-> tx]) PROVE FlowInv'
    <3> DEFINE f == [pc |-> to, tx |-> tx]
    <3>1. DOMAIN f = {"pc", "tx"} /\ f.pc = to /\ Set(r, f)
      BY <2>2
    <3> HIDE DEF f
    <3> QED BY <2>1, <3>1, FlowEarly
  <2> QED BY <1>2, <2>2 DEF Statement
<1> QED BY <1>1, <1>2 DEF PersistSnapshots, PersistSmc, PersistSnd

\* Nor does its commit.
LEMMA FlowCommitTa ==
  ASSUME GuardInv, FlowInv, NEW r \in Requests, CommitTa(r)
  PROVE  FlowInv'
<1>1. req[r].pc = "commit" /\ result' = result /\ cast' = cast
  BY DEF CommitTa, At, redis
<1>2. {"commit", "context"} \subseteq Early
  BY DEF Early, Before
<1>3. CASE Ended(r, Blank, "completed", {})
  BY <1>1, <1>2, <1>3, FlowTurnedAway, BlankApart
<1>4. CASE Set(r, [pc |-> "context", tx |-> NoTx])
  <2> DEFINE f == [pc |-> "context", tx |-> NoTx]
  <2>1. DOMAIN f = {"pc", "tx"} /\ f.pc = "context" /\ Set(r, f)
    BY <1>4
  <2> HIDE DEF f
  <2> QED BY <1>1, <1>2, <2>1, FlowEarly
<1> QED BY <1>3, <1>4 DEF CommitTa, Blank

\* The request comes to the guard without a hold.
LEMMA FlowContext ==
  ASSUME GuardInv, FlowInv, NEW r \in Requests, Context(r) \/ Enter(r)
  PROVE  FlowInv'
<1>1. req[r].pc \in {"context", "idle"} /\ result' = result /\ cast' = cast
  BY DEF Context, Enter, At, redis, tables
<1>2. {"idle", "context", "check"} \subseteq Early
  BY DEF Early, Before, Guarded
<1>3. CASE Ended(r, "HTTPException", "500", {})
  BY <1>1, <1>2, <1>3, FlowTurnedAway, BlankApart
<1>4. ASSUME NEW some, Set(r, [pc |-> "check", left |-> TotalTicks, some |-> some, found |-> NoFound])
      PROVE  FlowInv'
  <2> DEFINE f == [pc |-> "check", left |-> TotalTicks, some |-> some, found |-> NoFound]
  <2>1. DOMAIN f = {"pc", "left", "some", "found"} /\ f.pc = "check" /\ Set(r, f)
    BY <1>4
  <2> HIDE DEF f
  <2> QED BY <1>1, <1>2, <2>1, FlowEarly
<1>5. ASSUME NEW some, Set(r, [pc |-> "check", left |-> TotalTicks, some |-> some])
      PROVE  FlowInv'
  <2> DEFINE f == [pc |-> "check", left |-> TotalTicks, some |-> some]
  <2>1. DOMAIN f = {"pc", "left", "some"} /\ f.pc = "check" /\ Set(r, f)
    BY <1>5
  <2> HIDE DEF f
  <2> QED BY <1>1, <1>2, <2>1, FlowEarly
<1> QED BY <1>3, <1>4, <1>5 DEF Context, Enter

\* An answer from the cache.
LEMMA FlowShared ==
  ASSUME GuardInv, FlowInv, NEW r \in Requests, req[r].pc \in Early, Cached(Digest(r)),
         NEW o, o # Blank, Ended(r, Blank, o, {Shared(Digest(r))}), cast' = cast, result' = result
  PROVE  FlowInv'
<1> DEFINE d == Digest(r)
           h == Shared(d)
<1>1. d \in Digests
  BY DigestIn DEF GuardInv
<1>2. /\ result[d].by \in Requests /\ Digest(result[d].by) = d
      /\ Approved(result[d].out, PairOf[result[d].by]) /\ req[result[d].by].pc \in Late
  BY <1>1 DEF FlowInv, Results
<1>3. h.by = result[d].by /\ h.out = result[d].out
  BY DEF Shared
<1>4. h.by # r
  BY <1>2, <1>3 DEF Early, Before, Guarded, Late
<1>5. PairOf[h.by] = PairOf[r]
  BY <1>2, <1>3 DEF Digest
<1>6. req[r].hold = "none"
  BY DEF FlowInv, Flow, Early
<1> HIDE DEF h, d
<1>7. EndsWell(r, Blank, {h})
  <2>1. h.by \in Requests /\ Digest(h.by) = Digest(r) /\ Approved(h.out, PairOf[r])
    BY <1>2, <1>3, <1>5 DEF d
  <2> QED BY <1>4, <1>6, <2>1 DEF EndsWell
<1>8. Ended(r, Blank, o, {h})
  BY DEF h, d
<1> QED BY <1>7, <1>8, FlowEnded

\* Every end of a request has a status.
LEMMA StatusGiven == ASSUME NEW r, NEW e PROVE Status(r, e) # Blank
<1>1. Status(r, e) \in {"200", "completed", "error", "429", "503", "409", "400", "422", "500"}
  BY DEF Status
<1> QED BY <1>1, BlankApart

\* check_cached answers only from the cache.
LEMMA FlowCheckCached ==
  ASSUME GuardInv, FlowInv, NEW r \in Requests, CheckCached(r)
  PROVE  FlowInv'
<1>1. req[r].pc = "check" /\ result' = result /\ cast' = cast
  BY DEF CheckCached, At, redis, tables
<1>2. {"check", "acquire"} \subseteq Early
  BY DEF Early, Guarded
<1>3. CASE Goto(r, "acquire")
  BY <1>1, <1>2, <1>3, FlowGoto
<1>4. CASE Cached(Digest(r)) /\ Ended(r, Blank, Status(r, Blank), {Shared(Digest(r))})
  BY <1>1, <1>2, <1>4, FlowShared, StatusGiven
<1> QED BY <1>3, <1>4 DEF CheckCached, Blank

\* The lock is taken, found taken, or given up before any hold is made.
LEMMA FlowAcquire ==
  ASSUME GuardInv, FlowInv, NEW r \in Requests, Acquire(r)
  PROVE  FlowInv'
<1>1. req[r].pc = "acquire" /\ result' = result /\ cast' = cast
  BY DEF Acquire, At, tables
<1>2. {"acquire", "await", "execute"} \subseteq Early
  BY DEF Early, Guarded
<1>3. CASE Set(r, [pc |-> "await", wait |-> AwaitTicks])
  <2> DEFINE f == [pc |-> "await", wait |-> AwaitTicks]
  <2>1. DOMAIN f = {"pc", "wait"} /\ f.pc = "await" /\ Set(r, f)
    BY <1>3
  <2> HIDE DEF f
  <2> QED BY <1>1, <1>2, <2>1, FlowEarly
<1>4. ASSUME NEW h, Set(r, [pc |-> "execute", handle |-> h]) PROVE FlowInv'
  <2> DEFINE f == [pc |-> "execute", handle |-> h]
  <2>1. DOMAIN f = {"pc", "handle"} /\ f.pc = "execute" /\ Set(r, f)
    BY <1>4
  <2> HIDE DEF f
  <2> QED BY <1>1, <1>2, <2>1, FlowEarly
<1> QED BY <1>3, <1>4 DEF Acquire

\* A step of a running request that keeps the cache.
LEMMA FlowSet ==
  ASSUME GuardInv, FlowInv, NEW r \in Requests, NEW f, Set(r, f), cast' = cast, result' = result,
         Flow(r, Patch(req[r], f)), req[r].pc # "done", "gave" \notin DOMAIN f,
         req[r].pc \in Late => Patch(req[r], f).pc \in Late
  PROVE  FlowInv'
<1> DEFINE x == Patch(req[r], f)
<1>1. Becomes(r, x) /\ x.gave = req[r].gave
  BY SetFields
<1>2. req[r].gave = {}
  BY DEF FlowInv, Flow
<1> HIDE DEF x
<1>3. Handed(r, x)
  BY <1>1, <1>2 DEF Handed
<1>4. Flow(r, x) /\ (req[r].pc \in Late => x.pc \in Late)
  BY DEF x
<1> QED BY <1>1, <1>3, <1>4, FlowOne

\* A waiter answers from the cache or is refused without a hold.
LEMMA FlowAwaitResult ==
  ASSUME GuardInv, FlowInv, NEW r \in Requests, AwaitResult(r)
  PROVE  FlowInv'
<1>1. req[r].pc = "await" /\ result' = result /\ cast' = cast
  BY DEF AwaitResult, At, redis, tables
<1>2. "await" \in Early
  BY DEF Early, Guarded
<1>3. CASE Cached(Digest(r)) /\ Ended(r, Blank, Status(r, Blank), {Shared(Digest(r))})
  BY <1>1, <1>2, <1>3, FlowShared, StatusGiven
<1>4. CASE Escapes(r, "LLMDuplicateSuppressedError")
  <2> DEFINE f == [pc |-> "fail", err |-> "LLMDuplicateSuppressedError", left |-> 0, wait |-> 0, handle |-> "none"]
             x == Patch(req[r], f)
  <2>1. /\ DOMAIN f = {"pc", "err", "left", "wait", "handle"} /\ f.pc = "fail"
        /\ f.err = "LLMDuplicateSuppressedError" /\ Set(r, f)
    BY <1>4 DEF Escapes
  <2> HIDE DEF f
  <2>2. /\ x.pc = "fail" /\ x.err = "LLMDuplicateSuppressedError" /\ x.hold = req[r].hold
        /\ x.out = req[r].out /\ x.gave = req[r].gave
    BY <2>1, SetFields
  <2>3. req[r].hold = "none" /\ req[r].out = Blank /\ req[r].gave = {}
    BY <1>1, <1>2 DEF FlowInv, Flow, Early
  <2> HIDE DEF x
  <2>4. Flow(r, x)
    BY <2>2, <2>3, BlankApart DEF Flow, Closed, Before, Guarded
  <2> QED BY <1>1, <2>1, <2>2, <2>4, FlowSet DEF x, Late
<1> QED BY <1>3, <1>4 DEF AwaitResult, Blank

\* Raising out of the call, the hold being open, closed or never made.
LEMMA FlowRaise ==
  ASSUME GuardInv, FlowInv, NEW r \in Requests, NEW f, Set(r, f), cast' = cast, result' = result,
         "pc" \in DOMAIN f, f.pc = "release", {"out", "gave"} \cap DOMAIN f = {},
         req[r].pc \notin Late,
         LET x == Patch(req[r], f) IN x.err # Blank /\ Closed(x)
  PROVE  FlowInv'
<1> DEFINE x == Patch(req[r], f)
<1>1. x.pc = "release" /\ x.out = req[r].out /\ x.gave = req[r].gave
  BY SetFields
<1>2. req[r].out = Blank /\ req[r].gave = {}
  BY DEF FlowInv, Flow, Late
<1>3. x.err # Blank /\ Closed(x)
  OBVIOUS
<1> HIDE DEF x
<1>4. Flow(r, x)
  BY <1>1, <1>2, <1>3 DEF Flow, Before, Guarded
<1> QED BY <1>1, <1>4, FlowSet DEF x, Late

\* A reservation is made for a metered request, or a lost reply cuts it short.
LEMMA FlowReserve ==
  ASSUME GuardInv, FlowInv, NEW r \in Requests, Reserve(r)
  PROVE  FlowInv'
<1> DEFINE y == req[r]
<1>1. y.pc = "execute" /\ result' = result /\ cast' = cast
  BY DEF Reserve, At, redis, tables
<1>2. /\ y.hold = "none" /\ ~Cut(y) /\ y.err = Blank /\ y.out = Blank /\ y.gave = {}
      /\ y.pc \notin Late
  BY <1>1 DEF FlowInv, Flow, Late
<1>3. \/ \E e \in {"ProcessorInsufficientDataError", "QuotaExceededError", "MeteringUnavailableError"} : Raise(r, e)
      \/ ~Metered(r) /\ Goto(r, "call")
      \/ Metered(r) /\ Set(r, [pc |-> "call", hold |-> "held"])
      \/ \E hold \in {"none", "held"} :
           Set(r, [pc |-> "release", err |-> "ReadTimeout", hold |-> hold, cut |-> TRUE])
  BY DEF Reserve
<1> HIDE DEF y
<1>4. ASSUME NEW e \in {"ProcessorInsufficientDataError", "QuotaExceededError", "MeteringUnavailableError"},
             Raise(r, e)
      PROVE  FlowInv'
  <2> DEFINE f == [pc |-> "release", err |-> e]
             x == Patch(req[r], f)
  <2>1. DOMAIN f = {"pc", "err"} /\ f.pc = "release" /\ f.err = e /\ Set(r, f)
    BY <1>4 DEF Raise
  <2> HIDE DEF f
  <2>2. x.err = e /\ x.hold = "none"
    BY <1>2, <2>1, SetFields DEF y
  <2>3. x.err # Blank /\ Closed(x)
    BY <2>2, BlankApart DEF Closed
  <2> QED BY <1>1, <1>2, <2>1, <2>3, FlowRaise DEF y
<1>5. CASE ~Metered(r) /\ Goto(r, "call")
  <2> DEFINE f == [pc |-> "call"]
             x == Patch(req[r], f)
  <2>1. DOMAIN f = {"pc"} /\ f.pc = "call" /\ Set(r, f)
    BY <1>5 DEF Goto
  <2> HIDE DEF f
  <2>2. /\ x.pc = "call" /\ x.hold = y.hold /\ (Cut(x) <=> Cut(y)) /\ x.err = y.err /\ x.out = y.out
        /\ x.gave = y.gave
    BY <2>1, SetFields DEF y
  <2> HIDE DEF x
  <2>3. Flow(r, x)
    BY <1>2, <1>5, <2>2 DEF Flow, Late, Before, Guarded, Owed
  <2> QED BY <1>1, <1>2, <2>1, <2>3, FlowSet DEF x, y, Late
<1>6. CASE Metered(r) /\ Set(r, [pc |-> "call", hold |-> "held"])
  <2> DEFINE f == [pc |-> "call", hold |-> "held"]
             x == Patch(req[r], f)
  <2>1. DOMAIN f = {"pc", "hold"} /\ f.pc = "call" /\ f.hold = "held" /\ Set(r, f)
    BY <1>6
  <2> HIDE DEF f
  <2>2. /\ x.pc = "call" /\ x.hold = "held" /\ (Cut(x) <=> Cut(y)) /\ x.err = y.err /\ x.out = y.out
        /\ x.gave = y.gave
    BY <2>1, SetFields DEF y
  <2> HIDE DEF x
  <2>3. Flow(r, x)
    BY <1>2, <1>6, <2>2 DEF Flow, Late, Before, Guarded, Owed
  <2> QED BY <1>1, <1>2, <2>1, <2>3, FlowSet DEF x, y, Late
<1>7. ASSUME NEW hold, Set(r, [pc |-> "release", err |-> "ReadTimeout", hold |-> hold, cut |-> TRUE])
      PROVE  FlowInv'
  <2> DEFINE f == [pc |-> "release", err |-> "ReadTimeout", hold |-> hold, cut |-> TRUE]
             x == Patch(req[r], f)
  <2>1. /\ DOMAIN f = {"pc", "err", "hold", "cut"} /\ f.pc = "release" /\ f.err = "ReadTimeout"
        /\ f.cut = TRUE /\ Set(r, f)
    BY <1>7
  <2> HIDE DEF f
  <2>2. x.err = "ReadTimeout" /\ x.cut = f.cut
    BY <2>1, SetFields
  <2>3. Cut(x)
    BY <2>1, <2>2 DEF Cut
  <2>4. x.err # Blank /\ Closed(x)
    BY <2>2, <2>3, BlankApart DEF Closed
  <2> QED BY <1>1, <1>2, <2>1, <2>4, FlowRaise DEF y
<1> QED BY <1>3, <1>4, <1>5, <1>6, <1>7

\* No provider error becomes a schema violation.
LEMMA RaisedForeign ==
  ASSUME NEW raw \in RawFailures
  PROVE  LET e == Raised(Translated(Provider, raw)).class
         IN e \in Typed \cup {"ProcessorError"} /\ e # "LLMSchemaViolationError"
<1> DEFINE t == Translated(Provider, raw)
<1>1. \/ t = raw
      \/ \E c \in {"LLMRateLimitedError", "LLMSafetyFilterError", "LLMTransientError"} : t = Retyped(raw, c)
  <2>1. Provider \in {"anthropic", "openai", "gemini", "self_hosted"}
    BY ProviderKnown DEF Providers
  <2>2. t \in {TranslateAnthropic(raw), TranslateOpenai(raw), TranslateGemini(raw), TranslateSelfHosted(raw)}
    BY <2>1 DEF Translated
  <2> HIDE DEF t
  <2>3. \A u \in {TranslateAnthropic(raw), TranslateOpenai(raw), TranslateGemini(raw), TranslateSelfHosted(raw)} :
          u \in {raw, Retyped(raw, "LLMRateLimitedError"), Retyped(raw, "LLMSafetyFilterError"),
                 Retyped(raw, "LLMTransientError")}
    BY DEF TranslateAnthropic, TranslateOpenai, TranslateGemini, TranslateSelfHosted
  <2> QED BY <2>2, <2>3
<1> HIDE DEF t
<1>2. CASE t = raw
  <2>1. t.class \notin Typed
    BY <1>2, FailuresForeign
  <2>2. Raised(t) = Retyped(t, "ProcessorError")
    BY <2>1 DEF Raised
  <2>3. Raised(t).class = "ProcessorError"
    BY <2>2, SMTT(30) DEF Retyped, Failure
  <2> QED BY <2>3 DEF t
<1>3. ASSUME NEW c \in {"LLMRateLimitedError", "LLMSafetyFilterError", "LLMTransientError"}, t = Retyped(raw, c)
      PROVE  Raised(t).class = c
  <2>1. t.class = c
    BY <1>3 DEF Retyped, Failure
  <2>2. c \in Typed
    BY <1>3 DEF Typed
  <2> QED BY <2>1, <2>2 DEF Raised
<1> QED BY <1>1, <1>2, <1>3 DEF t, Typed

\* A failed call keeps its hold open for the refund.
LEMMA FlowCallFails ==
  ASSUME GuardInv, FlowInv, NEW r \in Requests, CallFails(r)
  PROVE  FlowInv'
<1> DEFINE y == req[r]
<1>1. y.pc = "call" /\ result' = result /\ cast' = cast
  BY DEF CallFails, At, redis, tables
<1>2. /\ y.hold = Owed(r) /\ ~Cut(y) /\ y.err = Blank /\ y.out = Blank /\ y.gave = {}
      /\ y.pc \notin Late
  BY <1>1 DEF FlowInv, Flow, Late
<1>3. PICK raw \in RawFailures :
        \/ Set(r, [tries |-> req[r].tries + 1])
        \/ \E told : Set(r, [pc |-> "refund", tries |-> 0, err |-> Raised(Translated(Provider, raw)).class, told |-> told])
  BY DEF CallFails
<1> HIDE DEF y
<1>4. CASE Set(r, [tries |-> req[r].tries + 1])
  <2> DEFINE f == [tries |-> req[r].tries + 1]
             x == Patch(req[r], f)
  <2>1. DOMAIN f = {"tries"} /\ Set(r, f)
    BY <1>4
  <2> HIDE DEF f
  <2>2. /\ x.pc = y.pc /\ x.hold = y.hold /\ (Cut(x) <=> Cut(y)) /\ x.err = y.err /\ x.out = y.out
        /\ x.gave = y.gave
    BY <2>1, SetFields DEF y
  <2> HIDE DEF x
  <2>3. Flow(r, x)
    BY <1>1, <1>2, <2>2 DEF Flow, Late, Before, Guarded
  <2> QED BY <1>1, <1>2, <2>1, <2>3, FlowSet DEF x, y, Late
<1>5. ASSUME NEW e, NEW told, e \in Typed \cup {"ProcessorError"}, e # "LLMSchemaViolationError",
             Set(r, [pc |-> "refund", tries |-> 0, err |-> e, told |-> told])
      PROVE  FlowInv'
  <2> DEFINE f == [pc |-> "refund", tries |-> 0, err |-> e, told |-> told]
             x == Patch(req[r], f)
  <2>1. DOMAIN f = {"pc", "tries", "err", "told"} /\ f.pc = "refund" /\ f.err = e /\ Set(r, f)
    BY <1>5
  <2> HIDE DEF f
  <2>2. /\ x.pc = "refund" /\ x.hold = y.hold /\ (Cut(x) <=> Cut(y)) /\ x.err = e /\ x.out = y.out
        /\ x.gave = y.gave
    BY <2>1, SetFields DEF y
  <2> HIDE DEF x
  <2>3. e # Blank
    BY <1>5, BlankApart
  <2>4. Flow(r, x)
    BY <1>2, <1>5, <2>2, <2>3 DEF Flow, Late, Before, Guarded
  <2> QED BY <1>1, <1>2, <2>1, <2>4, FlowSet DEF x, y, Late
<1> QED BY <1>3, <1>4, <1>5, RaisedForeign

\* So does a truncated one; a complete answer goes to the settlement.
LEMMA FlowCallReturns ==
  ASSUME GuardInv, FlowInv, NEW r \in Requests, CallReturns(r)
  PROVE  FlowInv'
<1> DEFINE y == req[r]
<1>1. y.pc = "call" /\ result' = result /\ cast' = cast
  BY DEF CallReturns, At, redis, tables
<1>2. /\ y.hold = Owed(r) /\ ~Cut(y) /\ y.err = Blank /\ y.out = Blank /\ y.gave = {}
      /\ y.pc \notin Late
  BY <1>1 DEF FlowInv, Flow, Late
<1>3. PICK o \in Answers : \/ Set(r, [pc |-> "refund", tries |-> 0, err |-> "LLMTruncatedError"])
                           \/ Set(r, [pc |-> "settle", tries |-> 0, got |-> o])
  BY DEF CallReturns
<1> HIDE DEF y
<1>4. CASE Set(r, [pc |-> "refund", tries |-> 0, err |-> "LLMTruncatedError"])
  <2> DEFINE f == [pc |-> "refund", tries |-> 0, err |-> "LLMTruncatedError"]
             x == Patch(req[r], f)
  <2>1. DOMAIN f = {"pc", "tries", "err"} /\ f.pc = "refund" /\ f.err = "LLMTruncatedError" /\ Set(r, f)
    BY <1>4
  <2> HIDE DEF f
  <2>2. /\ x.pc = "refund" /\ x.hold = y.hold /\ (Cut(x) <=> Cut(y)) /\ x.err = "LLMTruncatedError"
        /\ x.out = y.out /\ x.gave = y.gave
    BY <2>1, SetFields DEF y
  <2> HIDE DEF x
  <2>3. Flow(r, x)
    BY <1>2, <2>2, BlankApart DEF Flow, Late, Before, Guarded
  <2> QED BY <1>1, <1>2, <2>1, <2>3, FlowSet DEF x, y, Late
<1>5. CASE Set(r, [pc |-> "settle", tries |-> 0, got |-> o])
  <2> DEFINE f == [pc |-> "settle", tries |-> 0, got |-> o]
             x == Patch(req[r], f)
  <2>1. DOMAIN f = {"pc", "tries", "got"} /\ f.pc = "settle" /\ f.got = o /\ Set(r, f)
    BY <1>5
  <2> HIDE DEF f
  <2>2. /\ x.pc = "settle" /\ x.hold = y.hold /\ (Cut(x) <=> Cut(y)) /\ x.err = y.err /\ x.got = o
        /\ x.out = y.out /\ x.gave = y.gave
    BY <2>1, SetFields DEF y
  <2> HIDE DEF x
  <2>3. Flow(r, x)
    BY <1>2, <2>2 DEF Flow, Late, Before, Guarded
  <2> QED BY <1>1, <1>2, <2>1, <2>3, FlowSet DEF x, y, Late
<1> QED BY <1>3, <1>4, <1>5

\* The refund closes the hold, or its failure cuts the request short.
LEMMA FlowRefund ==
  ASSUME GuardInv, FlowInv, NEW r \in Requests, Refund(r)
  PROVE  FlowInv'
<1> DEFINE y == req[r]
<1>1. y.pc = "refund" /\ result' = result /\ cast' = cast
  BY DEF Refund, At, redis, tables
<1>2. /\ y.hold = Owed(r) /\ ~Cut(y) /\ y.err # Blank /\ y.err # "LLMSchemaViolationError"
      /\ y.pc \notin Late
  BY <1>1 DEF FlowInv, Flow, Late
<1>3. \/ Set(r, [pc |-> "release", hold |-> IF y.hold = "held" THEN "refunded" ELSE y.hold])
      \/ Set(r, [pc |-> "release", cut |-> TRUE])
  BY DEF Refund
<1> HIDE DEF y
<1>4. CASE Set(r, [pc |-> "release", hold |-> IF y.hold = "held" THEN "refunded" ELSE y.hold])
  <2> DEFINE f == [pc |-> "release", hold |-> IF y.hold = "held" THEN "refunded" ELSE y.hold]
             x == Patch(req[r], f)
  <2>1. /\ DOMAIN f = {"pc", "hold"} /\ f.pc = "release" /\ Set(r, f)
        /\ f.hold = IF y.hold = "held" THEN "refunded" ELSE y.hold
    BY <1>4
  <2> HIDE DEF f
  <2>2. x.err = y.err /\ x.hold = f.hold
    BY <2>1, SetFields DEF y
  <2>3. f.hold \in {"refunded", "none"}
    BY <1>2, <2>1 DEF Owed
  <2>4. x.err # Blank /\ Closed(x)
    BY <1>2, <2>2, <2>3 DEF Closed
  <2> QED BY <1>1, <1>2, <2>1, <2>4, FlowRaise DEF y
<1>5. CASE Set(r, [pc |-> "release", cut |-> TRUE])
  <2> DEFINE f == [pc |-> "release", cut |-> TRUE]
             x == Patch(req[r], f)
  <2>1. DOMAIN f = {"pc", "cut"} /\ f.pc = "release" /\ f.cut = TRUE /\ Set(r, f)
    BY <1>5
  <2> HIDE DEF f
  <2>2. x.err = y.err /\ x.cut = f.cut
    BY <2>1, SetFields DEF y
  <2>3. Cut(x)
    BY <2>1, <2>2 DEF Cut
  <2>4. x.err # Blank /\ Closed(x)
    BY <1>2, <2>2, <2>3 DEF Closed
  <2> QED BY <1>1, <1>2, <2>1, <2>4, FlowRaise DEF y
<1> QED BY <1>3, <1>4, <1>5

\* The commit closes the hold before the answer is parsed; only a parsed answer
\* goes on.
LEMMA FlowSettle ==
  ASSUME GuardInv, FlowInv, NEW r \in Requests, Settle(r)
  PROVE  FlowInv'
<1> DEFINE y == req[r]
<1>1. y.pc = "settle" /\ result' = result /\ cast' = cast
  BY DEF Settle, At, redis, tables
<1>2. /\ y.hold = Owed(r) /\ ~Cut(y) /\ y.err = Blank /\ y.got \in Answers
      /\ y.out = Blank /\ y.gave = {} /\ y.pc \notin Late
  BY <1>1 DEF FlowInv, Flow, Late
<1>3. \E hold, cut :
        /\ cut = TRUE \/ (cut = y.cut /\ hold = IF y.hold = "held" THEN "committed" ELSE y.hold)
        /\ \/ ParseError(r) = Blank /\ Set(r, [pc |-> "save", hold |-> hold, cut |-> cut])
           \/ /\ ParseError(r) # Blank
              /\ Set(r, [pc |-> "release", err |-> ParseError(r), got |-> NoAnswer, hold |-> hold, cut |-> cut])
  BY DEF Settle, Blank
<1>4. PICK hold, cut :
        /\ cut = TRUE \/ (cut = y.cut /\ hold = IF y.hold = "held" THEN "committed" ELSE y.hold)
        /\ \/ ParseError(r) = Blank /\ Set(r, [pc |-> "save", hold |-> hold, cut |-> cut])
           \/ /\ ParseError(r) # Blank
              /\ Set(r, [pc |-> "release", err |-> ParseError(r), got |-> NoAnswer, hold |-> hold, cut |-> cut])
  BY <1>3
<1> HIDE DEF y
<1>5. cut = TRUE \/ (cut = y.cut /\ hold = Paid(r))
  BY <1>2, <1>4 DEF Owed, Paid
<1>6. CASE ParseError(r) = Blank /\ Set(r, [pc |-> "save", hold |-> hold, cut |-> cut])
  <2> DEFINE f == [pc |-> "save", hold |-> hold, cut |-> cut]
             x == Patch(req[r], f)
  <2>1. DOMAIN f = {"pc", "hold", "cut"} /\ f.pc = "save" /\ f.hold = hold /\ f.cut = cut /\ Set(r, f)
    BY <1>6
  <2> HIDE DEF f
  <2>2. /\ x.pc = "save" /\ x.hold = hold /\ x.cut = cut /\ x.err = y.err /\ x.got = y.got /\ x.out = y.out
        /\ x.gave = y.gave
    BY <2>1, SetFields DEF y
  <2> HIDE DEF x
  <2>3. ~Cut(x) => hold = Paid(r)
    BY <1>5, <2>2 DEF Cut
  <2>4. Accepted(x.got)
    BY <1>2, <1>6, <2>2 DEF Accepted, ParseError, y
  <2>5. Flow(r, x)
    BY <1>2, <2>2, <2>3, <2>4 DEF Flow, Late, Before, Guarded
  <2> QED BY <1>1, <1>2, <2>1, <2>5, FlowSet DEF x, y, Late
<1>7. CASE ParseError(r) # Blank /\ Set(r, [pc |-> "release", err |-> ParseError(r), got |-> NoAnswer, hold |-> hold, cut |-> cut])
  <2> DEFINE f == [pc |-> "release", err |-> ParseError(r), got |-> NoAnswer, hold |-> hold, cut |-> cut]
             x == Patch(req[r], f)
  <2>1. /\ DOMAIN f = {"pc", "err", "got", "hold", "cut"} /\ f.pc = "release" /\ f.err = ParseError(r)
        /\ f.hold = hold /\ f.cut = cut /\ Set(r, f)
    BY <1>7
  <2> HIDE DEF f
  <2>2. x.err = ParseError(r) /\ x.hold = hold /\ x.cut = cut
    BY <2>1, SetFields
  <2>3. ~Cut(x) => hold \in {"committed", "none"}
    BY <1>5, <2>2 DEF Cut, Paid
  <2>4. x.err # Blank /\ Closed(x)
    BY <1>7, <2>2, <2>3 DEF Closed
  <2> QED BY <1>1, <1>2, <2>1, <2>4, FlowRaise DEF y
<1> QED BY <1>4, <1>6, <1>7

\* The save keeps what was settled and parsed.
LEMMA FlowPersistSuccess ==
  ASSUME GuardInv, FlowInv, NEW r \in Requests, PersistSuccess(r)
  PROVE  FlowInv'
<1> DEFINE y == req[r]
           f == [pc |-> "store"]
           x == Patch(req[r], f)
<1>1. y.pc = "save" /\ result' = result /\ cast' = cast
  BY DEF PersistSuccess, At, redis
<1>2. DOMAIN f = {"pc"} /\ f.pc = "store" /\ Set(r, f)
  BY DEF PersistSuccess, Goto
<1>3. Flow(r, y)
  BY DEF FlowInv
<1> HIDE DEF f, y
<1>4. /\ x.pc = "store" /\ x.hold = y.hold /\ (Cut(x) <=> Cut(y)) /\ x.err = y.err /\ x.got = y.got
      /\ x.out = y.out /\ x.gave = y.gave
  BY <1>2, SetFields DEF y
<1> HIDE DEF x
<1>5. Flow(r, x)
  BY <1>1, <1>3, <1>4 DEF Flow, Late, Before, Guarded
<1> QED BY <1>1, <1>2, <1>5, FlowSet DEF x, y, Late

\* The result stored is one the parser accepted.
LEMMA ResultsCached ==
  ASSUME GuardInv, FlowInv, NEW r \in Requests, NEW x, Becomes(r, x), cast' = cast,
         result' \in {result, Cache(r)}, x.pc \in Late, Accepted(req[r].got)
  PROVE  Results'
<1>1. \A q \in Requests : req[q].pc \in Late => req'[q].pc \in Late
  BY DEF Becomes
<1>2. CASE result' = result
  BY <1>1, <1>2, ResultsKept DEF FlowInv
<1>3. CASE result' = Cache(r)
  <2> DEFINE d0 == Digest(r)
             new == [by |-> r, out |-> Output(r), ttl |-> ResultTicks]
  <2>1. d0 \in Digests /\ \A q \in Requests : Digest(q)' = Digest(q)
    BY DigestIn, DigestKept DEF GuardInv
  <2>2. result' = [result EXCEPT ![d0] = new]
    BY <1>3 DEF Cache
  <2>3. DOMAIN new = {"by", "out", "ttl"} /\ new.by = r /\ new.out = Output(r) /\ new.ttl \in Nat
    BY TimersOrdered
  <2>4. Approved(new.out, PairOf[r])
    BY <2>3, OutputApproved DEF Output
  <2>5. req'[r].pc \in Late
    BY DEF Becomes
  <2>6. Results
    BY DEF FlowInv
  <2> HIDE DEF d0, new
  <2>7. DOMAIN result' = Digests /\ result'[d0] = new /\ \A d \in Digests : d # d0 => result'[d] = result[d]
    BY <2>1, <2>2, <2>6 DEF Results
  <2>8. ASSUME NEW d \in Digests
        PROVE  /\ DOMAIN result'[d] = {"by", "out", "ttl"} /\ result'[d].ttl \in Nat
               /\ Cached(d)' => /\ result'[d].by \in Requests /\ Digest(result'[d].by) = d
                                /\ Approved(result'[d].out, PairOf[result'[d].by])
                                /\ req'[result'[d].by].pc \in Late
    <3>1. CASE d = d0
      BY <2>3, <2>4, <2>5, <2>7, <3>1 DEF d0
    <3>2. CASE d # d0
      BY <1>1, <2>6, <2>7, <3>2 DEF Results, Cached
    <3> QED BY <3>1, <3>2
  <2> QED BY <2>1, <2>7, <2>8 DEF Results, Approved
<1> QED BY <1>2, <1>3

\* A step that ends the call and may write its output to the cache.
LEMMA FlowCached ==
  ASSUME GuardInv, FlowInv, NEW r \in Requests, NEW f, Set(r, f), cast' = cast,
         result' \in {result, Cache(r)}, Accepted(req[r].got), req[r].pc \notin Late,
         "gave" \notin DOMAIN f, Flow(r, Patch(req[r], f)), Patch(req[r], f).pc \in Late
  PROVE  FlowInv'
<1> DEFINE x == Patch(req[r], f)
<1>1. Becomes(r, x) /\ x.gave = req[r].gave
  BY SetFields
<1>2. req[r].gave = {}
  BY DEF FlowInv, Flow, Late
<1>3. Flow(r, x) /\ x.pc \in Late
  OBVIOUS
<1> HIDE DEF x
<1>4. Handed(r, x)
  BY <1>1, <1>2 DEF Handed
<1>5. Results'
  BY <1>1, <1>3, ResultsCached
<1>6. \A q \in Requests : Flow(q, req'[q]) /\ Handed(q, req'[q])
  BY <1>1, <1>3, <1>4 DEF Becomes, FlowInv
<1> QED BY <1>5, <1>6, FlowAll

\* store_result caches the output of a settled, parsed answer.
LEMMA FlowStoreResult ==
  ASSUME GuardInv, FlowInv, NEW r \in Requests, StoreResult(r)
  PROVE  FlowInv'
<1> DEFINE y == req[r]
           f == [pc |-> "release"]
           x == Patch(req[r], f)
<1>1. y.pc = "store" /\ result' \in {result, Cache(r)} /\ cast' = cast
  BY DEF StoreResult, At, tables
<1>2. DOMAIN f = {"pc"} /\ f.pc = "release" /\ Set(r, f)
  BY DEF StoreResult, Goto
<1>3. Flow(r, y)
  BY DEF FlowInv
<1> HIDE DEF f, y
<1>4. /\ x.pc = "release" /\ x.hold = y.hold /\ (Cut(x) <=> Cut(y)) /\ x.err = y.err /\ x.got = y.got
      /\ x.out = y.out /\ x.gave = y.gave
  BY <1>2, SetFields DEF y
<1> HIDE DEF x
<1>5. Paid(r) \in {"committed", "none"}
  BY DEF Paid
<1>6. Flow(r, x) /\ Accepted(y.got)
  BY <1>1, <1>3, <1>4, <1>5 DEF Flow, Late, Before, Guarded, Closed
<1> QED BY <1>1, <1>2, <1>4, <1>6, FlowCached DEF x, y, Late

\* The release returns that output or passes the exception on.
LEMMA FlowRelease ==
  ASSUME GuardInv, FlowInv, NEW r \in Requests, Release(r)
  PROVE  FlowInv'
<1> DEFINE y == req[r]
<1>1. y.pc = "release" /\ result' = result /\ cast' = cast
  BY DEF Release, At, tables
<1>2. \/ y.err = Blank /\ Ended(r, Blank, Status(r, Blank), {[by |-> r, out |-> Output(r)]})
      \/ y.err # Blank /\ Escapes(r, y.err)
  BY DEF Release, Blank
<1>3. Flow(r, y) /\ Closed(y)
  BY <1>1 DEF FlowInv, Flow, Late
<1>4. CASE y.err = Blank /\ Ended(r, Blank, Status(r, Blank), {[by |-> r, out |-> Output(r)]})
  <2> DEFINE h == [by |-> r, out |-> Output(r)]
  <2>1. Accepted(y.got) /\ (~Cut(y) => y.hold = Paid(r))
    BY <1>1, <1>3, <1>4 DEF Flow
  <2>2. h.by = r /\ Approved(h.out, PairOf[r])
    BY <2>1, OutputApproved DEF Output
  <2>3. Ended(r, Blank, Status(r, Blank), {h}) /\ Status(r, Blank) # Blank
    BY <1>4, StatusGiven
  <2>4. Paid(r) \in {"committed", "none"}
    BY DEF Paid
  <2> HIDE DEF h
  <2>5. EndsWell(r, Blank, {h})
    BY <2>1, <2>2, <2>4 DEF EndsWell, y
  <2> QED BY <1>1, <2>3, <2>5, FlowEnded
<1>5. CASE y.err # Blank /\ Escapes(r, y.err)
  <2> DEFINE f == [pc |-> "fail", err |-> y.err, left |-> 0, wait |-> 0, handle |-> "none"]
             x == Patch(req[r], f)
  <2>1. /\ DOMAIN f = {"pc", "err", "left", "wait", "handle"} /\ f.pc = "fail" /\ f.err = y.err /\ Set(r, f)
    BY <1>5 DEF Escapes
  <2> HIDE DEF f, y
  <2>2. /\ x.pc = "fail" /\ x.err = y.err /\ x.hold = y.hold /\ (Cut(x) <=> Cut(y))
        /\ x.out = y.out /\ x.gave = y.gave
    BY <2>1, SetFields DEF y
  <2> HIDE DEF x
  <2>3. Flow(r, x)
    BY <1>1, <1>3, <1>5, <2>2 DEF Flow, Closed, Before, Guarded
  <2> QED BY <1>1, <2>1, <2>2, <2>3, FlowSet DEF x, y, Late
<1> QED BY <1>2, <1>4, <1>5

\* A failure ends the request without an answer.
LEMMA FlowFails ==
  ASSUME GuardInv, FlowInv, NEW r \in Requests, Fails(r)
  PROVE  FlowInv'
<1>1. req[r].pc = "fail" /\ result' = result /\ cast' = cast
  BY DEF Fails, At, redis
<1>2. Ended(r, req[r].err, Status(r, req[r].err), {})
  BY DEF Fails
<1>3. Closed(req[r])
  BY <1>1 DEF FlowInv, Flow, Late
<1>4. EndsWell(r, req[r].err, {})
  BY <1>3 DEF Closed, EndsWell
<1>5. Status(r, req[r].err) # Blank
  BY StatusGiven
<1> QED BY <1>1, <1>2, <1>4, <1>5, FlowEnded

\* The total timeout cuts the request short; the SET it interrupts may have happened.
LEMMA FlowTimeout ==
  ASSUME GuardInv, FlowInv, NEW r \in Requests, Timeout(r)
  PROVE  FlowInv'
<1> DEFINE y == req[r]
           to == IF y.pc \in Executing THEN "release" ELSE "fail"
           f == [ pc |-> to, wait |-> 0, handle |-> IF y.pc \in Executing THEN y.handle ELSE "none",
                  err |-> "TimeoutError", cut |-> TRUE, got |-> NoAnswer, tries |-> 0, told |-> Blank ]
           x == Patch(req[r], f)
<1>1. /\ y.pc \in Guarded \cup Executing \cup {"release"} /\ cast' = cast
      /\ result' = result \/ (y.pc = "store" /\ result' = Cache(r))
  BY DEF Timeout, Timed, tables
<1>2. Set(r, f)
  BY DEF Timeout, Blank
<1>3. /\ DOMAIN f = {"pc", "wait", "handle", "err", "cut", "got", "tries", "told"}
      /\ f.pc = to /\ f.err = "TimeoutError" /\ f.cut = TRUE
  OBVIOUS
<1>4. to \in {"release", "fail"} /\ (y.pc \in Executing => to = "release")
  OBVIOUS
<1>5. Flow(r, y)
  BY DEF FlowInv
<1>6. y.pc # "done"
  BY <1>1 DEF Guarded, Executing
<1> HIDE DEF f, y, to
<1>7. x.pc = to /\ x.err = "TimeoutError" /\ x.cut = f.cut /\ x.out = y.out /\ x.gave = y.gave
  BY <1>2, <1>3, SetFields DEF y
<1>8. Cut(x)
  BY <1>3, <1>7 DEF Cut
<1> HIDE DEF x
<1>9. Flow(r, x)
  BY <1>4, <1>5, <1>6, <1>7, <1>8, BlankApart DEF Flow, Closed, Before, Guarded
<1>10. CASE result' = result
  BY <1>1, <1>2, <1>3, <1>4, <1>6, <1>7, <1>9, <1>10, FlowSet DEF x, y, Late
<1>11. CASE y.pc = "store" /\ result' = Cache(r)
  <2>1. Accepted(req[r].got) /\ req[r].pc \notin Late
    BY <1>5, <1>11 DEF Flow, y, Late
  <2> QED BY <1>1, <1>2, <1>3, <1>4, <1>7, <1>9, <1>11, <2>1, FlowCached DEF x, Late
<1> QED BY <1>1, <1>10, <1>11

\* A record that only aged.
LEMMA FlowSame ==
  ASSUME NEW r, NEW y, NEW x, Flow(r, y), Handed(r, y), x.pc = y.pc, x.hold = y.hold, x.cut = y.cut,
         x.err = y.err, x.got = y.got, x.out = y.out, x.gave = y.gave
  PROVE  Flow(r, x) /\ Handed(r, x)
<1>1. Cut(x) <=> Cut(y)
  BY DEF Cut
<1>2. Flow(r, x)
  BY <1>1 DEF Flow, Closed
<1>3. Handed(r, x)
  BY <1>1 DEF Handed
<1> QED BY <1>2, <1>3

\* Cached results age; nothing else changes.
LEMMA FlowTick ==
  ASSUME GuardInv, FlowInv, Tick
  PROVE  FlowInv'
<1>1. cast' = cast /\ result' = Aged(result, NoResult)
  BY DEF Tick, tables
<1>2. ASSUME NEW q \in Requests
      PROVE  /\ req'[q].pc = req[q].pc /\ req'[q].hold = req[q].hold /\ req'[q].cut = req[q].cut
             /\ req'[q].err = req[q].err /\ req'[q].got = req[q].got /\ req'[q].out = req[q].out
             /\ req'[q].gave = req[q].gave
  <2>1. req'[q] = [req[q] EXCEPT !.left = IF Timed(q) THEN Down(@) ELSE @, !.wait = Down(@)]
    BY DEF Tick
  <2>2. DOMAIN req[q] = Fields
    BY DEF GuardInv, Shape
  <2> QED BY <2>1, <2>2 DEF Fields
<1>3. ASSUME NEW q \in Requests PROVE Flow(q, req'[q]) /\ Handed(q, req'[q])
  <2>1. Flow(q, req[q]) /\ Handed(q, req[q])
    BY DEF FlowInv
  <2> QED BY <1>2, <2>1, FlowSame
<1>4. DOMAIN NoResult = {"by", "out", "ttl"} /\ NoResult.ttl = 0
  BY DEF NoResult
<1>5. Results
  BY DEF FlowInv
<1>6. ASSUME NEW d \in Digests
      PROVE  /\ DOMAIN result'[d] = {"by", "out", "ttl"} /\ result'[d].ttl \in Nat
             /\ result'[d].ttl > 0 => result[d].ttl > 0 /\ result'[d].by = result[d].by /\ result'[d].out = result[d].out
  <2> DEFINE z == result[d]
  <2>1. result'[d] = IF z.ttl <= 1 THEN NoResult ELSE [z EXCEPT !.ttl = @ - 1]
    BY <1>1 DEF Aged
  <2>2. z.ttl \in Nat /\ DOMAIN z = {"by", "out", "ttl"}
    BY <1>5 DEF Results
  <2>3. CASE z.ttl <= 1
    BY <1>4, <2>1, <2>2, <2>3, SMTT(30)
  <2>4. CASE z.ttl > 1
    BY <2>1, <2>2, <2>4, SMTT(30)
  <2> QED BY <2>2, <2>3, <2>4, SMTT(30)
<1>7. \A q \in Requests : Digest(q)' = Digest(q)
  BY <1>1, DigestKept
<1>8. Results'
  <2>1. DOMAIN result' = Digests
    BY <1>1 DEF Aged
  <2>2. ASSUME NEW d \in Digests, Cached(d)'
        PROVE  /\ result'[d].by \in Requests /\ Digest(result'[d].by) = d
               /\ Approved(result'[d].out, PairOf[result'[d].by])
               /\ req'[result'[d].by].pc \in Late
    BY <1>2, <1>5, <1>6, <2>2 DEF Results, Cached
  <2> QED BY <1>6, <1>7, <2>1, <2>2 DEF Results, Approved
<1> QED BY <1>1, <1>3, <1>8, FlowAll

\* A restart cuts every running request short.
LEMMA FlowCrash ==
  ASSUME GuardInv, FlowInv, Crash
  PROVE  FlowInv'
<1>1. cast' = cast /\ result' = result
  BY DEF Crash, tables
<1>2. ASSUME NEW q \in Requests, Running(q)
      PROVE  Flow(q, req'[q]) /\ Handed(q, req'[q]) /\ req'[q].pc = "done"
  <2> DEFINE x == [Fresh EXCEPT !.pc = "done", !.out = "lost", !.hold = req[q].hold, !.cut = TRUE, !.saw = req[q].saw]
  <2>1. req'[q] = x
    BY <1>2 DEF Crash
  <2>2. x.pc = "done" /\ x.out = "lost" /\ x.cut = TRUE /\ x.gave = {}
    BY FreshFields DEF Fresh, Fields
  <2> HIDE DEF x
  <2>3. Cut(x)
    BY <2>2 DEF Cut
  <2>4. Flow(q, x) /\ Handed(q, x)
    BY <2>2, <2>3, BlankApart DEF Flow, Closed, Handed, Before, Guarded
  <2> QED BY <2>1, <2>2, <2>4
<1>3. ASSUME NEW q \in Requests, ~Running(q) PROVE req'[q] = req[q]
  BY <1>3 DEF Crash
<1>4. \A q \in Requests : Flow(q, req'[q]) /\ Handed(q, req'[q])
  BY <1>2, <1>3 DEF FlowInv
<1>5. \A q \in Requests : req[q].pc \in Late => req'[q].pc \in Late
  BY <1>2, <1>3 DEF Late
<1>6. Results'
  BY <1>1, <1>5, ResultsKept DEF FlowInv
<1> QED BY <1>1, <1>4, <1>6, FlowAll

\* At the start nothing is held, answered or cached.
LEMMA FlowInit == Init => FlowInv
<1> SUFFICES ASSUME Init PROVE FlowInv
  OBVIOUS
<1>1. ASSUME NEW q \in Requests
      PROVE  req[q].pc = "idle" /\ req[q].hold = "none" /\ req[q].cut = FALSE /\ req[q].gave = {}
  BY DEF Init, Fresh
<1>2. ASSUME NEW q \in Requests PROVE req[q].err = Blank /\ req[q].out = Blank
  BY DEF Init, Fresh, Blank
<1>3. ASSUME NEW q \in Requests PROVE ~Cut(req[q])
  BY <1>1 DEF Cut
<1>4. ASSUME NEW q \in Requests PROVE Flow(q, req[q]) /\ Handed(q, req[q])
  BY <1>1, <1>2, <1>3 DEF Flow, Handed, Late
<1>5. ASSUME NEW d \in Digests PROVE DOMAIN result[d] = {"by", "out", "ttl"} /\ result[d].ttl = 0
  BY DEF Init, NoResult
<1>6. DOMAIN result = Digests
  BY DEF Init
<1>7. Results
  BY <1>5, <1>6, SMTT(30) DEF Results, Cached
<1> QED BY <1>4, <1>7 DEF FlowInv

\* Every step keeps the flow.
LEMMA FlowStep ==
  ASSUME GuardInv, FlowInv, [Next]_vars
  PROVE  FlowInv'
<1>1. ASSUME NEW r \in Requests, RateLimit(r) \/ Enter(r)
      PROVE  FlowInv'
  BY <1>1, FlowRateLimit, FlowContext
<1>2. ASSUME NEW r \in Requests, Prepare(r)
      PROVE  FlowInv'
  BY <1>2, FlowBill, FlowAnalyze, FlowPersist, FlowCommitTa, FlowContext DEF Prepare
<1>3. ASSUME NEW r \in Requests, Process(r)
      PROVE  FlowInv'
  BY <1>3, FlowCheckCached, FlowAcquire, FlowAwaitResult, FlowReserve, FlowCallFails, FlowCallReturns,
     FlowRefund, FlowSettle, FlowPersistSuccess, FlowStoreResult, FlowRelease, FlowFails, FlowTimeout
     DEF Process
<1>4. CASE Tick
  BY <1>4, FlowTick
<1>5. CASE Crash
  BY <1>5, FlowCrash
<1>6. CASE UNCHANGED vars
  <2>1. cast' = cast /\ req' = req /\ result' = result
    BY <1>6 DEF vars
  <2>2. Results'
    BY <2>1, ResultsKept DEF FlowInv
  <2> QED BY <2>1, <2>2, FlowAll DEF FlowInv
<1> QED BY <1>1, <1>2, <1>3, <1>4, <1>5, <1>6 DEF Next

\* Flow, what was handed out, and the cache agree in every reachable state.
THEOREM CycleFlowInv == Spec => [](GuardInv /\ FlowInv)
BY GuardInit, GuardStep, FlowInit, FlowStep, PTL DEF Spec

\* Whatever fails and however requests interleave, a request that was not cut short
\* has closed its reservation: committed when the model answered, refunded when it
\* did not (_execute around metering.refund and metering.commit).
THEOREM HoldIsSettled == Spec => []HoldSettled
<1>1. ASSUME GuardInv, FlowInv PROVE HoldSettled
  <2>1. ASSUME NEW r \in Requests, At(r, "done"), ~Cut(req[r])
        PROVE  /\ req[r].hold # "held"
               /\ req[r].hold = "refunded" => req[r].err # Blank /\ req[r].err # "LLMSchemaViolationError"
               /\ Metered(r) /\ (\E g \in req[r].gave : g.by = r) => req[r].hold = "committed"
    <3>1. Closed(req[r]) /\ Handed(r, req[r])
      BY <1>1, <2>1 DEF FlowInv, Flow, At, Late
    <3>2. ASSUME Metered(r), NEW g \in req[r].gave, g.by = r PROVE req[r].hold = "committed"
      <4>1. req[r].hold = Paid(r)
        BY <2>1, <3>1, <3>2 DEF Handed
      <4> QED BY <3>2, <4>1 DEF Paid
    <3>3. /\ req[r].hold # "held"
          /\ req[r].hold = "refunded" => req[r].err # Blank /\ req[r].err # "LLMSchemaViolationError"
      BY <2>1, <3>1 DEF Closed
    <3> QED BY <3>2, <3>3
  <2>2. ASSUME NEW r \in Requests, ~req[r].cut PROVE ~Cut(req[r])
    BY <2>2 DEF Cut
  <2> QED BY <2>1, <2>2 DEF HoldSettled, Blank
<1> QED BY <1>1, CycleFlowInv, PTL

\* Every answer given, from the cache too, was computed for the same user and
\* symbol by a request whose answer was parsed (compute_digest, store_result).
THEOREM AnswersAreOwn == Spec => []AnswerIsOwn
<1>1. ASSUME GuardInv, FlowInv PROVE AnswerIsOwn
  <2>1. ASSUME NEW r \in Requests, NEW g \in req[r].gave
        PROVE  UserOf(g.by) = UserOf(r) /\ PairOf[g.by] = PairOf[r] /\ g.out.symbol = PairOf[r]
    <3>1. Digest(g.by) = Digest(r) /\ Approved(g.out, PairOf[r])
      BY <1>1 DEF FlowInv, Handed
    <3> QED BY <3>1 DEF Digest, Approved
  <2>2. ASSUME NEW d \in Digests, Cached(d)
        PROVE  req[result[d].by].out # Blank \/ At(result[d].by, "release") \/ At(result[d].by, "fail")
    <3>1. result[d].by \in Requests /\ req[result[d].by].pc \in Late
      BY <1>1, <2>2 DEF FlowInv, Results
    <3>2. Flow(result[d].by, req[result[d].by])
      BY <1>1, <3>1 DEF FlowInv
    <3> QED BY <3>1, <3>2 DEF Flow, Late, At
  <2> QED BY <2>1, <2>2 DEF AnswerIsOwn, Blank
<1> QED BY <1>1, CycleFlowInv, PTL

\* Every approved trade that reaches a caller satisfies the rulebook, for any text
\* the model may write (validators.py with output_mapper.py).
THEOREM ApprovedAreComplete == Spec => []ApprovedIsComplete
<1>1. ASSUME FlowInv PROVE ApprovedIsComplete
  BY <1>1 DEF FlowInv, Handed, Approved, ApprovedIsComplete
<1> QED BY <1>1, CycleFlowInv, PTL

-----------------------------------------------------------------------------
(* The store: rows, snapshots and audit log *)

Writing == {"smc", "snd", "commit"}
Unwritten == {"idle", "bill", "ta", "snapshots", "smc", "snd", "commit"}
Analysing == {"snapshots", "smc", "snd", "commit", "context"}
Tfs(snaps) == {s.tf : s \in snaps}
Mine(all, r) == {w \in all : w.by = r}

\* The open transaction of r's record y.
TxOK(r, y) ==
  /\ DOMAIN y.tx = {"rows", "snaps", "state"}
  /\ \A v \in y.tx.rows : v.by = r
  /\ \A v, w \in y.tx.rows : SameSetup(v, w) => v = w
  /\ \A s \in y.tx.snaps : s.by = r
  /\ y.pc \notin Writing => y.tx = NoTx
  /\ y.pc \in Writing /\ y.tx.state = "ok" => Tfs(y.tx.snaps) = Timeframes
  /\ y.pc \in Analysing => y.found \in Findings

\* Every candidate of user u's analysis r has its row among those given.
Covered(u, r, cands, all) ==
  \A i \in DOMAIN cands : \E w \in all : SameSetup(w, RowOf(cands[i], u, r))

\* What r's record y promises of the store t.
Keeps(u, t, r, y) ==
  /\ y.pc \in Unwritten => Mine(t.rows, r) = {} /\ Mine(t.snaps, r) = {}
  /\ y.pc \in {"snd", "commit"} /\ y.tx.state = "ok" => Covered(u, r, y.found.smc, t.rows \cup y.tx.rows)
  /\ y.pc = "commit" /\ y.tx.state = "ok" => Covered(u, r, y.found.snd, t.rows \cup y.tx.rows)
  /\ y.pc = "context" /\ Mine(t.snaps, r) # {} =>
       Covered(u, r, y.found.smc, t.rows) /\ Covered(u, r, y.found.snd, t.rows)
  /\ Mine(t.rows, r) # {} => Tfs(Mine(t.snaps, r)) = Timeframes
Kept(r, y) == Keeps(UserOf(r), ta, r, y)

\* Each knows that the other was open.
Met(p, q) == q \in req[p].saw /\ p \in req[q].saw

Audited == \A log \in audits : log.id \in DOMAIN rows
Overlaps ==
  /\ \A p, q \in Requests : p # q /\ Open(p) /\ Open(q) => Met(p, q)
  /\ \A r \in Requests : \A v \in req[r].tx.rows, w \in ta.rows : SameSetup(v, w) => Met(r, w.by)
  /\ \A v, w \in ta.rows : v # w /\ SameSetup(v, w) => v.by # w.by /\ Met(v.by, w.by)

StoreInv ==
  /\ Audited
  /\ \A w \in ta.rows : w.by \in Requests
  /\ \A r \in Requests : TxOK(r, req[r]) /\ Kept(r, req[r])
  /\ Overlaps

\* A step of the record y to x that writes nothing.
Calm(y, x) ==
  /\ x.saw = y.saw
  /\ \/ x.pc = y.pc /\ x.tx = y.tx /\ x.found = y.found
     \/ x.pc \notin Analysing /\ x.tx = NoTx /\ (x.pc \in Unwritten => y.pc \in Unwritten)

\* A calm step keeps what the record promises.
LEMMA CalmKeeps ==
  ASSUME NEW u, NEW t, NEW r, NEW y, NEW x, TxOK(r, y), Keeps(u, t, r, y), Calm(y, x)
  PROVE  TxOK(r, x) /\ Keeps(u, t, r, x)
<1>1. CASE x.pc = y.pc /\ x.tx = y.tx /\ x.found = y.found
  BY <1>1 DEF TxOK, Keeps
<1>2. CASE x.pc \notin Analysing /\ x.tx = NoTx /\ (x.pc \in Unwritten => y.pc \in Unwritten)
  <2>1. DOMAIN NoTx = {"rows", "snaps", "state"} /\ NoTx.rows = {} /\ NoTx.snaps = {}
    BY DEF NoTx
  <2>2. TxOK(r, x)
    BY <1>2, <2>1 DEF TxOK, Analysing, Writing
  <2>3. Keeps(u, t, r, x)
    BY <1>2 DEF Keeps, Analysing
  <2> QED BY <2>2, <2>3
<1> QED BY <1>1, <1>2 DEF Calm

\* Nor does a step in which every record is calm break the rest.
LEMMA StoreCalm ==
  ASSUME StoreInv, cast' = cast, ta' = ta, Audited', \A q \in Requests : Calm(req[q], req'[q])
  PROVE  StoreInv'
<1>1. ASSUME NEW q \in Requests PROVE (TxOK(q, req[q]) /\ Kept(q, req[q]))'
  <2>1. TxOK(q, req[q]) /\ Keeps(UserOf(q), ta, q, req[q]) /\ UserOf(q)' = UserOf(q)
    BY DEF StoreInv, Kept, UserOf
  <2>2. TxOK(q, req'[q]) /\ Keeps(UserOf(q), ta, q, req'[q])
    BY <2>1, CalmKeeps
  <2> QED BY <2>1, <2>2 DEF Kept
<1>2. ASSUME NEW q \in Requests
      PROVE  /\ req'[q].saw = req[q].saw /\ (Open(q)' => Open(q))
             /\ req'[q].tx = req[q].tx \/ req'[q].tx.rows = {}
  BY SMTT(30) DEF Calm, Open, Analysing, NoTx
<1>3. ASSUME NEW p \in Requests, NEW q \in Requests PROVE Met(p, q)' <=> Met(p, q)
  BY <1>2 DEF Met
<1>4. Overlaps'
  <2>1. \A p, q \in Requests : p # q /\ Open(p)' /\ Open(q)' => Met(p, q)'
    BY <1>2, <1>3 DEF StoreInv, Overlaps
  <2>2. \A r \in Requests : \A v \in req'[r].tx.rows, w \in ta.rows : SameSetup(v, w) => Met(r, w.by)'
    BY <1>2, <1>3 DEF StoreInv, Overlaps
  <2>3. \A v, w \in ta.rows : v # w /\ SameSetup(v, w) => v.by # w.by /\ Met(v.by, w.by)'
    BY <1>3 DEF StoreInv, Overlaps
  <2> QED BY <2>1, <2>2, <2>3 DEF Overlaps, SameSetup
<1>5. \A w \in ta'.rows : w.by \in Requests
  BY DEF StoreInv
<1> QED BY <1>1, <1>4, <1>5 DEF StoreInv

\* The processor's part of a request: nothing of the analysis is pending.
After == Guarded \cup Executing \cup {"release", "fail", "done"}

\* A step of r that writes no row of the analysis.
Away(r) == Becomes(r, req'[r]) /\ Calm(req[r], req'[r]) /\ cast' = cast /\ ta' = ta

\* A step of one request that writes no row of the analysis.
LEMMA StoreAway ==
  ASSUME StoreInv, NEW r \in Requests, Away(r), Audited'
  PROVE  StoreInv'
<1>1. \A q \in Requests : Calm(req[q], req'[q])
  BY DEF Away, Becomes, Calm
<1> QED BY <1>1, StoreCalm DEF Away

\* The audit log and the rows unchanged.
LEMMA AuditedKept == ASSUME Audited, audits' = audits, rows' = rows PROVE Audited'
BY DEF Audited

\* The end of a request drops its transaction.
LEMMA EndedAway ==
  ASSUME GuardInv, NEW r \in Requests, NEW e, NEW o, NEW g, Ended(r, e, o, g), cast' = cast, ta' = ta
  PROVE  Away(r)
<1>1. Shape
  BY DEF GuardInv
<1>2. Becomes(r, req'[r]) /\ req'[r].pc = "done" /\ req'[r].saw = req[r].saw /\ req'[r].tx = NoTx
  BY <1>1, EndedOne
<1> QED BY <1>2 DEF Away, Calm, Analysing, Unwritten

\* A step of a request outside the analysis.
LEMMA SetAway ==
  ASSUME GuardInv, StoreInv, NEW r \in Requests, NEW f, Set(r, f), cast' = cast, ta' = ta,
         DOMAIN f \cap {"tx", "saw"} = {},
         \/ "pc" \in DOMAIN f /\ f.pc \in After /\ req[r].pc \notin Writing
         \/ "pc" \in DOMAIN f /\ f.pc \in {"bill", "ta"} /\ req[r].pc \in {"idle", "bill"}
         \/ "pc" \notin DOMAIN f /\ req[r].pc \in After
  PROVE  Away(r)
<1> DEFINE x == Patch(req[r], f)
           y == req[r]
<1>1. Becomes(r, x)
  BY SetOne DEF GuardInv
<1>2. DOMAIN y = Fields
  BY DEF GuardInv, Shape
<1>3. x.pc = (IF "pc" \in DOMAIN f THEN f.pc ELSE y.pc) /\ x.tx = y.tx /\ x.saw = y.saw
  BY <1>2 DEF Patch, Fields
<1>4. TxOK(r, y)
  BY DEF StoreInv
<1> HIDE DEF x, y
<1>5. /\ y.pc \notin Writing
      /\ x.pc \in After \/ (x.pc \in {"bill", "ta"} /\ y.pc \in {"idle", "bill"})
  BY <1>3 DEF y, After, Writing, Guarded, Executing
<1>6. x.tx = NoTx
  BY <1>3, <1>4, <1>5 DEF TxOK
<1>7. Calm(y, x)
  BY <1>3, <1>5, <1>6 DEF Calm, After, Analysing, Unwritten, Guarded, Executing
<1>8. req'[r] = x
  BY <1>1 DEF Becomes
<1> QED BY <1>1, <1>7, <1>8 DEF Away, y

\* The same, when only the place changes.
LEMMA GotoAway ==
  ASSUME GuardInv, StoreInv, NEW r \in Requests, NEW to, Goto(r, to), cast' = cast, ta' = ta,
         \/ to \in After /\ req[r].pc \notin Writing
         \/ to \in {"bill", "ta"} /\ req[r].pc \in {"idle", "bill"}
  PROVE  Away(r)
<1> DEFINE f == [pc |-> to]
<1>1. DOMAIN f = {"pc"} /\ f.pc = to /\ Set(r, f)
  BY DEF Goto
<1> HIDE DEF f
<1> QED BY <1>1, SetAway

\* The same, for an exception that leaves the guard.
LEMMA EscapesAway ==
  ASSUME GuardInv, StoreInv, NEW r \in Requests, NEW e, Escapes(r, e), cast' = cast, ta' = ta, req[r].pc \in After
  PROVE  Away(r)
<1> DEFINE f == [pc |-> "fail", err |-> e, left |-> 0, wait |-> 0, handle |-> "none"]
<1>1. DOMAIN f = {"pc", "err", "left", "wait", "handle"} /\ f.pc = "fail" /\ Set(r, f)
  BY DEF Escapes
<1>2. "fail" \in After /\ req[r].pc \notin Writing
  BY DEF After, Writing, Guarded, Executing
<1> HIDE DEF f
<1> QED BY <1>1, <1>2, SetAway

\* The rate limiter and the billing write no row of the analysis.
LEMMA StoreRateLimit ==
  ASSUME GuardInv, StoreInv, NEW r \in Requests, RateLimit(r) \/ Bill(r)
  PROVE  StoreInv'
<1>1. req[r].pc \in {"idle", "bill"} /\ cast' = cast /\ ta' = ta /\ rows' = rows /\ audits' = audits
  BY DEF RateLimit, Bill, At, tables
<1>2. \/ \E to \in {"bill", "ta"} : Goto(r, to)
      \/ \E e, o : Ended(r, e, o, {})
  BY DEF RateLimit, Bill
<1>3. Away(r)
  BY <1>1, <1>2, GotoAway, EndedAway
<1> QED BY <1>1, <1>3, StoreAway, AuditedKept DEF StoreInv

\* Nor does the request's way to the guard.
LEMMA StoreContext ==
  ASSUME GuardInv, StoreInv, NEW r \in Requests, Context(r) \/ Enter(r)
  PROVE  StoreInv'
<1>1. req[r].pc \in {"context", "idle"} /\ cast' = cast /\ ta' = ta /\ rows' = rows /\ audits' = audits
  BY DEF Context, Enter, At, tables
<1>2. req[r].pc \notin Writing /\ "check" \in After
  BY <1>1 DEF Writing, After, Guarded
<1>3. \/ \E some : Set(r, [pc |-> "check", left |-> TotalTicks, some |-> some, found |-> NoFound])
      \/ \E some : Set(r, [pc |-> "check", left |-> TotalTicks, some |-> some])
      \/ \E e, o : Ended(r, e, o, {})
  BY DEF Context, Enter
<1>4. ASSUME NEW some, Set(r, [pc |-> "check", left |-> TotalTicks, some |-> some, found |-> NoFound])
      PROVE  Away(r)
  <2> DEFINE f == [pc |-> "check", left |-> TotalTicks, some |-> some, found |-> NoFound]
  <2>1. DOMAIN f = {"pc", "left", "some", "found"} /\ f.pc = "check" /\ Set(r, f)
    BY <1>4
  <2> HIDE DEF f
  <2> QED BY <1>1, <1>2, <2>1, SetAway
<1>5. ASSUME NEW some, Set(r, [pc |-> "check", left |-> TotalTicks, some |-> some])
      PROVE  Away(r)
  <2> DEFINE f == [pc |-> "check", left |-> TotalTicks, some |-> some]
  <2>1. DOMAIN f = {"pc", "left", "some"} /\ f.pc = "check" /\ Set(r, f)
    BY <1>5
  <2> HIDE DEF f
  <2> QED BY <1>1, <1>2, <2>1, SetAway
<1>6. Away(r)
  BY <1>1, <1>3, <1>4, <1>5, EndedAway
<1> QED BY <1>1, <1>6, StoreAway, AuditedKept DEF StoreInv

\* Nor the lock.
LEMMA AwayAcquire ==
  ASSUME GuardInv, StoreInv, NEW r \in Requests, Acquire(r)
  PROVE  Away(r)
<1>1. req[r].pc = "acquire" /\ cast' = cast /\ ta' = ta
  BY DEF Acquire, At, tables
<1>2. req[r].pc \in After /\ req[r].pc \notin Writing /\ {"await", "execute"} \subseteq After
  BY <1>1 DEF After, Writing, Guarded, Executing
<1>3. \/ Set(r, [pc |-> "await", wait |-> AwaitTicks])
      \/ \E handle : Set(r, [pc |-> "execute", handle |-> handle])
  BY DEF Acquire
<1>4. ASSUME Set(r, [pc |-> "await", wait |-> AwaitTicks])
      PROVE  Away(r)
  <2> DEFINE f == [pc |-> "await", wait |-> AwaitTicks]
  <2>1. DOMAIN f = {"pc", "wait"} /\ f.pc = "await" /\ Set(r, f)
    BY <1>4
  <2> HIDE DEF f
  <2> QED BY <1>1, <1>2, <2>1, SetAway
<1>5. ASSUME NEW handle, Set(r, [pc |-> "execute", handle |-> handle])
      PROVE  Away(r)
  <2> DEFINE f == [pc |-> "execute", handle |-> handle]
  <2>1. DOMAIN f = {"pc", "handle"} /\ f.pc = "execute" /\ Set(r, f)
    BY <1>5
  <2> HIDE DEF f
  <2> QED BY <1>1, <1>2, <2>1, SetAway
<1> QED BY <1>1, <1>2, <1>3, <1>4, <1>5

\* Nor the reservation.
LEMMA AwayReserve ==
  ASSUME GuardInv, StoreInv, NEW r \in Requests, Reserve(r)
  PROVE  Away(r)
<1>1. req[r].pc = "execute" /\ cast' = cast /\ ta' = ta
  BY DEF Reserve, At, tables
<1>2. req[r].pc \in After /\ req[r].pc \notin Writing /\ {"release", "call"} \subseteq After
  BY <1>1 DEF After, Writing, Guarded, Executing
<1>3. \/ \E e : Raise(r, e)
      \/ Goto(r, "call")
      \/ Set(r, [pc |-> "call", hold |-> "held"])
      \/ \E hold : Set(r, [pc |-> "release", err |-> "ReadTimeout", hold |-> hold, cut |-> TRUE])
  BY DEF Reserve
<1>4. ASSUME Set(r, [pc |-> "call", hold |-> "held"])
      PROVE  Away(r)
  <2> DEFINE f == [pc |-> "call", hold |-> "held"]
  <2>1. DOMAIN f = {"pc", "hold"} /\ f.pc = "call" /\ Set(r, f)
    BY <1>4
  <2> HIDE DEF f
  <2> QED BY <1>1, <1>2, <2>1, SetAway
<1>5. ASSUME NEW hold, Set(r, [pc |-> "release", err |-> "ReadTimeout", hold |-> hold, cut |-> TRUE])
      PROVE  Away(r)
  <2> DEFINE f == [pc |-> "release", err |-> "ReadTimeout", hold |-> hold, cut |-> TRUE]
  <2>1. DOMAIN f = {"pc", "err", "hold", "cut"} /\ f.pc = "release" /\ Set(r, f)
    BY <1>5
  <2> HIDE DEF f
  <2> QED BY <1>1, <1>2, <2>1, SetAway
<1>6. ASSUME NEW e, Set(r, [pc |-> "release", err |-> e])
      PROVE  Away(r)
  <2> DEFINE f == [pc |-> "release", err |-> e]
  <2>1. DOMAIN f = {"pc", "err"} /\ f.pc = "release" /\ Set(r, f)
    BY <1>6
  <2> HIDE DEF f
  <2> QED BY <1>1, <1>2, <2>1, SetAway
<1> QED BY <1>1, <1>2, <1>3, <1>4, <1>5, <1>6, GotoAway DEF Raise

\* Nor a failed attempt.
LEMMA AwayCallFails ==
  ASSUME GuardInv, StoreInv, NEW r \in Requests, CallFails(r)
  PROVE  Away(r)
<1>1. req[r].pc = "call" /\ cast' = cast /\ ta' = ta
  BY DEF CallFails, At, tables
<1>2. req[r].pc \in After /\ req[r].pc \notin Writing /\ {"refund"} \subseteq After
  BY <1>1 DEF After, Writing, Guarded, Executing
<1>3. \/ Set(r, [tries |-> req[r].tries + 1])
      \/ \E e, told : Set(r, [pc |-> "refund", tries |-> 0, err |-> e, told |-> told])
  BY DEF CallFails
<1>4. ASSUME Set(r, [tries |-> req[r].tries + 1])
      PROVE  Away(r)
  <2> DEFINE f == [tries |-> req[r].tries + 1]
  <2>1. DOMAIN f = {"tries"} /\ Set(r, f)
    BY <1>4
  <2> HIDE DEF f
  <2> QED BY <1>1, <1>2, <2>1, SetAway
<1>5. ASSUME NEW e, NEW told, Set(r, [pc |-> "refund", tries |-> 0, err |-> e, told |-> told])
      PROVE  Away(r)
  <2> DEFINE f == [pc |-> "refund", tries |-> 0, err |-> e, told |-> told]
  <2>1. DOMAIN f = {"pc", "tries", "err", "told"} /\ f.pc = "refund" /\ Set(r, f)
    BY <1>5
  <2> HIDE DEF f
  <2> QED BY <1>1, <1>2, <2>1, SetAway
<1> QED BY <1>1, <1>2, <1>3, <1>4, <1>5

\* Nor an attempt that ends.
LEMMA AwayCallReturns ==
  ASSUME GuardInv, StoreInv, NEW r \in Requests, CallReturns(r)
  PROVE  Away(r)
<1>1. req[r].pc = "call" /\ cast' = cast /\ ta' = ta
  BY DEF CallReturns, At, tables
<1>2. req[r].pc \in After /\ req[r].pc \notin Writing /\ {"refund", "settle"} \subseteq After
  BY <1>1 DEF After, Writing, Guarded, Executing
<1>3. \/ Set(r, [pc |-> "refund", tries |-> 0, err |-> "LLMTruncatedError"])
      \/ \E o : Set(r, [pc |-> "settle", tries |-> 0, got |-> o])
  BY DEF CallReturns
<1>4. ASSUME Set(r, [pc |-> "refund", tries |-> 0, err |-> "LLMTruncatedError"])
      PROVE  Away(r)
  <2> DEFINE f == [pc |-> "refund", tries |-> 0, err |-> "LLMTruncatedError"]
  <2>1. DOMAIN f = {"pc", "tries", "err"} /\ f.pc = "refund" /\ Set(r, f)
    BY <1>4
  <2> HIDE DEF f
  <2> QED BY <1>1, <1>2, <2>1, SetAway
<1>5. ASSUME NEW o, Set(r, [pc |-> "settle", tries |-> 0, got |-> o])
      PROVE  Away(r)
  <2> DEFINE f == [pc |-> "settle", tries |-> 0, got |-> o]
  <2>1. DOMAIN f = {"pc", "tries", "got"} /\ f.pc = "settle" /\ Set(r, f)
    BY <1>5
  <2> HIDE DEF f
  <2> QED BY <1>1, <1>2, <2>1, SetAway
<1> QED BY <1>1, <1>2, <1>3, <1>4, <1>5

\* Nor the refund.
LEMMA AwayRefund ==
  ASSUME GuardInv, StoreInv, NEW r \in Requests, Refund(r)
  PROVE  Away(r)
<1>1. req[r].pc = "refund" /\ cast' = cast /\ ta' = ta
  BY DEF Refund, At, tables
<1>2. req[r].pc \in After /\ req[r].pc \notin Writing /\ {"release"} \subseteq After
  BY <1>1 DEF After, Writing, Guarded, Executing
<1>3. \/ \E hold : Set(r, [pc |-> "release", hold |-> hold])
      \/ Set(r, [pc |-> "release", cut |-> TRUE])
  BY DEF Refund
<1>4. ASSUME NEW hold, Set(r, [pc |-> "release", hold |-> hold])
      PROVE  Away(r)
  <2> DEFINE f == [pc |-> "release", hold |-> hold]
  <2>1. DOMAIN f = {"pc", "hold"} /\ f.pc = "release" /\ Set(r, f)
    BY <1>4
  <2> HIDE DEF f
  <2> QED BY <1>1, <1>2, <2>1, SetAway
<1>5. ASSUME Set(r, [pc |-> "release", cut |-> TRUE])
      PROVE  Away(r)
  <2> DEFINE f == [pc |-> "release", cut |-> TRUE]
  <2>1. DOMAIN f = {"pc", "cut"} /\ f.pc = "release" /\ Set(r, f)
    BY <1>5
  <2> HIDE DEF f
  <2> QED BY <1>1, <1>2, <2>1, SetAway
<1> QED BY <1>1, <1>2, <1>3, <1>4, <1>5

\* Nor the settlement.
LEMMA AwaySettle ==
  ASSUME GuardInv, StoreInv, NEW r \in Requests, Settle(r)
  PROVE  Away(r)
<1>1. req[r].pc = "settle" /\ cast' = cast /\ ta' = ta
  BY DEF Settle, At, tables
<1>2. req[r].pc \in After /\ req[r].pc \notin Writing /\ {"save", "release"} \subseteq After
  BY <1>1 DEF After, Writing, Guarded, Executing
<1>3. \E hold, cut : \/ Set(r, [pc |-> "save", hold |-> hold, cut |-> cut])
                     \/ Set(r, [pc |-> "release", err |-> ParseError(r), got |-> NoAnswer, hold |-> hold, cut |-> cut])
  BY DEF Settle
<1>4. ASSUME NEW hold, NEW cut, Set(r, [pc |-> "save", hold |-> hold, cut |-> cut])
      PROVE  Away(r)
  <2> DEFINE f == [pc |-> "save", hold |-> hold, cut |-> cut]
  <2>1. DOMAIN f = {"pc", "hold", "cut"} /\ f.pc = "save" /\ Set(r, f)
    BY <1>4
  <2> HIDE DEF f
  <2> QED BY <1>1, <1>2, <2>1, SetAway
<1>5. ASSUME NEW hold, NEW cut, Set(r, [pc |-> "release", err |-> ParseError(r), got |-> NoAnswer, hold |-> hold, cut |-> cut])
      PROVE  Away(r)
  <2> DEFINE f == [pc |-> "release", err |-> ParseError(r), got |-> NoAnswer, hold |-> hold, cut |-> cut]
  <2>1. DOMAIN f = {"pc", "err", "got", "hold", "cut"} /\ f.pc = "release" /\ Set(r, f)
    BY <1>5
  <2> HIDE DEF f
  <2> QED BY <1>1, <1>2, <2>1, SetAway
<1> QED BY <1>1, <1>2, <1>3, <1>4, <1>5

\* Nor the timeout.
LEMMA AwayTimeout ==
  ASSUME GuardInv, StoreInv, NEW r \in Requests, Timeout(r)
  PROVE  Away(r)
<1> DEFINE y == req[r]
           to == IF y.pc \in Executing THEN "release" ELSE "fail"
           f == [ pc |-> to, wait |-> 0, handle |-> IF y.pc \in Executing THEN y.handle ELSE "none",
                  err |-> "TimeoutError", cut |-> TRUE, got |-> NoAnswer, tries |-> 0, told |-> Blank ]
<1>1. y.pc \in After /\ y.pc \notin Writing /\ cast' = cast /\ ta' = ta
  BY DEF Timeout, Timed, tables, After, Writing, Guarded, Executing
<1>2. Set(r, f)
  BY DEF Timeout, Blank
<1>3. DOMAIN f = {"pc", "wait", "handle", "err", "cut", "got", "tries", "told"} /\ f.pc = to /\ to \in After
  BY DEF After
<1> HIDE DEF f, to
<1> QED BY <1>1, <1>2, <1>3, SetAway

\* Nor what is left of the processor.
LEMMA AwayAnswered ==
  ASSUME GuardInv, StoreInv, NEW r \in Requests,
         CheckCached(r) \/ AwaitResult(r) \/ PersistSuccess(r) \/ StoreResult(r) \/ Release(r) \/ Fails(r)
  PROVE  Away(r)
<1>1. req[r].pc \in {"check", "await", "save", "store", "release", "fail"} /\ cast' = cast /\ ta' = ta
  BY DEF CheckCached, AwaitResult, PersistSuccess, StoreResult, Release, Fails, At, tables
<1>2. req[r].pc \in After /\ req[r].pc \notin Writing /\ {"acquire", "store", "release"} \subseteq After
  BY <1>1 DEF After, Writing, Guarded, Executing
<1>3. \/ \E to \in {"acquire", "store", "release"} : Goto(r, to)
      \/ \E e : Escapes(r, e)
      \/ \E e, o, g : Ended(r, e, o, g)
  BY DEF CheckCached, AwaitResult, PersistSuccess, StoreResult, Release, Fails
<1> QED BY <1>1, <1>2, <1>3, GotoAway, EscapesAway, EndedAway

\* An upsert never removes a row.
LEMMA UpsertGrows ==
  ASSUME NEW row, rows' = Upsert(row)
  PROVE  DOMAIN rows \cup {row.id} \subseteq DOMAIN rows'
<1>1. CASE row.id \in DOMAIN rows
  <2>1. DOMAIN rows' = DOMAIN rows
    BY <1>1 DEF Upsert
  <2> QED BY <1>1, <2>1
<1>2. CASE row.id \notin DOMAIN rows
  BY <1>2 DEF Upsert
<1> QED BY <1>1, <1>2

\* _persist_success writes the audit entry with its row; no step removes a row.
LEMMA ProcessAudited ==
  ASSUME Audited, NEW r \in Requests, Process(r)
  PROVE  Audited'
<1>1. CASE PersistSuccess(r)
  <2> DEFINE o == req[r].got
             row == AnalysisRecord(o, PairOf[r], UserOf(r))
             log == AuditRecord(o, PairOf[r], UserOf(r), Warnings(o, TRUE))
  <2>1. \/ rows' = Upsert(row) /\ audits' = audits \cup {log}
        \/ rows' = rows /\ audits' = audits
    BY <1>1 DEF PersistSuccess
  <2>2. log.id = row.id
    BY DEF AnalysisRecord, AuditRecord
  <2> HIDE DEF row, log
  <2> QED BY <2>1, <2>2, UpsertGrows, AuditedKept DEF Audited
<1>2. CASE Fails(r)
  <2>1. audits' = audits /\ (rows' = rows \/ \E row : rows' = Upsert(row))
    BY <1>2 DEF Fails
  <2> QED BY <2>1, UpsertGrows DEF Audited
<1>3. CASE ~PersistSuccess(r) /\ ~Fails(r)
  <2>1. rows' = rows /\ audits' = audits
    BY <1>3 DEF Process, CheckCached, Acquire, AwaitResult, Reserve, CallFails, CallReturns, Refund, Settle,
                StoreResult, Release, Timeout, tables
  <2> QED BY <2>1, AuditedKept
<1> QED BY <1>1, <1>2, <1>3

\* The processor keeps the store's promises.
LEMMA StoreProcess ==
  ASSUME GuardInv, StoreInv, NEW r \in Requests, Process(r)
  PROVE  StoreInv'
<1>1. Away(r)
  BY AwayAcquire, AwayReserve, AwayCallFails, AwayCallReturns, AwayRefund, AwaySettle, AwayTimeout, AwayAnswered
     DEF Process
<1> QED BY <1>1, StoreAway, ProcessAudited DEF StoreInv

\* Time changes no row.
LEMMA StoreTick ==
  ASSUME GuardInv, StoreInv, Tick
  PROVE  StoreInv'
<1>1. cast' = cast /\ ta' = ta /\ rows' = rows /\ audits' = audits
  BY DEF Tick, tables
<1>2. ASSUME NEW q \in Requests PROVE Calm(req[q], req'[q])
  <2>1. req'[q] = [req[q] EXCEPT !.left = IF Timed(q) THEN Down(@) ELSE @, !.wait = Down(@)]
    BY DEF Tick
  <2>2. DOMAIN req[q] = Fields
    BY DEF GuardInv, Shape
  <2>3. /\ req'[q].pc = req[q].pc /\ req'[q].tx = req[q].tx /\ req'[q].found = req[q].found
        /\ req'[q].saw = req[q].saw
    BY <2>1, <2>2 DEF Fields
  <2> QED BY <2>3 DEF Calm
<1> QED BY <1>1, <1>2, StoreCalm, AuditedKept DEF StoreInv

\* A restart rolls the open transactions back.
LEMMA StoreCrash ==
  ASSUME GuardInv, StoreInv, Crash
  PROVE  StoreInv'
<1>1. cast' = cast /\ ta' = ta /\ rows' = rows /\ audits' = audits
  BY DEF Crash, tables
<1>2. ASSUME NEW q \in Requests, Running(q) PROVE Calm(req[q], req'[q])
  <2> DEFINE x == [Fresh EXCEPT !.pc = "done", !.out = "lost", !.hold = req[q].hold, !.cut = TRUE, !.saw = req[q].saw]
  <2>1. req'[q] = x
    BY <1>2 DEF Crash
  <2>2. x.pc = "done" /\ x.tx = NoTx /\ x.saw = req[q].saw
    BY FreshFields DEF Fresh, Fields
  <2> HIDE DEF x
  <2> QED BY <2>1, <2>2 DEF Calm, Analysing, Unwritten
<1>3. ASSUME NEW q \in Requests, ~Running(q) PROVE Calm(req[q], req'[q])
  BY <1>3 DEF Crash, Calm
<1> QED BY <1>1, <1>2, <1>3, StoreCalm, AuditedKept DEF StoreInv

\* The store starts empty.
LEMMA StoreInit == Init => StoreInv
<1> SUFFICES ASSUME Init PROVE StoreInv
  OBVIOUS
<1>1. ta.rows = {} /\ ta.snaps = {} /\ audits = {}
  BY DEF Init
<1>2. ASSUME NEW r \in Requests PROVE req[r].pc = "idle" /\ req[r].tx = NoTx
  BY DEF Init, Fresh
<1>3. DOMAIN NoTx = {"rows", "snaps", "state"} /\ NoTx.rows = {} /\ NoTx.snaps = {}
  BY DEF NoTx
<1>4. ASSUME NEW r \in Requests PROVE TxOK(r, req[r]) /\ Kept(r, req[r])
  <2> DEFINE y == req[r]
  <2>1. y.pc = "idle" /\ y.tx = NoTx
    BY <1>2
  <2> HIDE DEF y
  <2>2. TxOK(r, y)
    BY <1>3, <2>1 DEF TxOK, Writing, Analysing
  <2>3. Kept(r, y)
    BY <1>1, <2>1 DEF Kept, Keeps, Mine
  <2> QED BY <2>2, <2>3 DEF y
<1>5. Overlaps
  BY <1>1, <1>2, <1>3 DEF Overlaps, Open
<1> QED BY <1>1, <1>4, <1>5 DEF StoreInv, Audited

\* An analysis that starts learns which are open, and they learn of it.
LEMMA StoreAnalyze ==
  ASSUME GuardInv, StoreInv, NEW r \in Requests, Analyze(r)
  PROVE  StoreInv'
<1>1. req[r].pc \in {"ta", "idle"} /\ cast' = cast /\ ta' = ta /\ rows' = rows /\ audits' = audits
  BY DEF Analyze, At, tables
<1>2. CASE Ended(r, Blank, "completed", {})
  <2>1. Away(r)
    BY <1>1, <1>2, EndedAway
  <2> QED BY <1>1, <2>1, StoreAway, AuditedKept DEF StoreInv
<1>3. CASE ~Ended(r, Blank, "completed", {})
  <2>1. PICK f \in Findings :
          req' = [q \in Requests |->
                    IF q = r THEN [req[r] EXCEPT !.pc = "snapshots", !.found = f,
                                                 !.saw = @ \cup {p \in Requests : Open(p)}]
                    ELSE IF Open(q) THEN [req[q] EXCEPT !.saw = @ \cup {r}] ELSE req[q]]
    BY <1>3 DEF Analyze, Blank
  <2> DEFINE opened == {p \in Requests : Open(p)}
  <2>2. /\ req'[r].pc = "snapshots" /\ req'[r].found = f /\ req'[r].tx = req[r].tx
        /\ req'[r].saw = req[r].saw \cup opened
    <3>1. DOMAIN req[r] = Fields
      BY DEF GuardInv, Shape
    <3>2. req'[r] = [req[r] EXCEPT !.pc = "snapshots", !.found = f, !.saw = @ \cup opened]
      BY <2>1
    <3> HIDE DEF opened
    <3> QED BY <3>1, <3>2 DEF Fields
  <2>3. ASSUME NEW q \in Requests, q # r
        PROVE  /\ req'[q].pc = req[q].pc /\ req'[q].found = req[q].found /\ req'[q].tx = req[q].tx
               /\ req'[q].saw = IF Open(q) THEN req[q].saw \cup {r} ELSE req[q].saw
    <3>1. DOMAIN req[q] = Fields
      BY DEF GuardInv, Shape
    <3>2. req'[q] = IF Open(q) THEN [req[q] EXCEPT !.saw = @ \cup {r}] ELSE req[q]
      BY <2>1, <2>3
    <3> QED BY <3>1, <3>2 DEF Fields
  <2>4. ASSUME NEW q \in Requests PROVE TxOK(q, req'[q]) /\ Keeps(UserOf(q), ta, q, req'[q])
    <3> DEFINE y == req[q]
               x == req'[q]
    <3>1. TxOK(q, y) /\ Keeps(UserOf(q), ta, q, y)
      BY DEF StoreInv, Kept
    <3>2. CASE q = r
      <4>1. x.pc = "snapshots" /\ x.found \in Findings /\ x.tx = y.tx /\ y.pc \in {"ta", "idle"}
        BY <1>1, <2>2, <3>2
      <4> HIDE DEF x, y
      <4>2. TxOK(q, x)
        BY <3>1, <4>1 DEF TxOK, Writing
      <4>3. Keeps(UserOf(q), ta, q, x)
        BY <3>1, <4>1 DEF Keeps, Unwritten
      <4> QED BY <4>2, <4>3 DEF x
    <3>3. CASE q # r
      <4>1. x.pc = y.pc /\ x.found = y.found /\ x.tx = y.tx
        BY <2>3, <3>3
      <4> HIDE DEF x, y
      <4> QED BY <3>1, <4>1 DEF TxOK, Keeps, x
    <3> QED BY <3>2, <3>3
  <2>5. \A q \in Requests : UserOf(q)' = UserOf(q)
    BY <1>1 DEF UserOf
  <2>6. \A q \in Requests : (TxOK(q, req[q]) /\ Kept(q, req[q]))'
    BY <1>1, <2>4, <2>5 DEF Kept
  <2>7. \A p, q \in Requests : Met(p, q) => Met(p, q)'
    BY <2>2, <2>3 DEF Met
  <2>8. \A q \in Requests : /\ req'[q].tx = req[q].tx
                            /\ q # r => (Open(q)' <=> Open(q))
    BY <2>2, <2>3 DEF Open
  <2>9. \A q \in Requests \ {r} : Open(q) => Met(r, q)' /\ Met(q, r)'
    BY <2>2, <2>3 DEF Met
  <2>10. Overlaps /\ \A w \in ta.rows : w.by \in Requests
    BY DEF StoreInv
  <2>11. Overlaps'
    <3>1. \A p, q \in Requests : p # q /\ Open(p)' /\ Open(q)' => Met(p, q)'
      BY <2>7, <2>8, <2>9, <2>10, SMTT(30) DEF Overlaps
    <3>2. \A q \in Requests : \A v \in req'[q].tx.rows, w \in ta.rows : SameSetup(v, w) => Met(q, w.by)'
      BY <2>7, <2>8, <2>10 DEF Overlaps
    <3>3. \A v, w \in ta.rows : v # w /\ SameSetup(v, w) => v.by # w.by /\ Met(v.by, w.by)'
      BY <2>7, <2>10 DEF Overlaps
    <3> QED BY <1>1, <3>1, <3>2, <3>3 DEF Overlaps
  <2> QED BY <1>1, <2>6, <2>10, <2>11, AuditedKept DEF StoreInv
<1> QED BY <1>2, <1>3

\* A statement of r's transaction, whose record becomes x.
LEMMA StoreWrite ==
  ASSUME GuardInv, StoreInv, NEW r \in Requests, NEW x, Becomes(r, x), cast' = cast, ta' = ta, Audited',
         Open(r), x.pc \in Writing, x.saw = req[r].saw, TxOK(r, x), Keeps(UserOf(r), ta, r, x),
         \A v \in x.tx.rows, w \in ta.rows : SameSetup(v, w) => v \in req[r].tx.rows
  PROVE  StoreInv'
<1>1. \A q \in Requests : req'[q].saw = req[q].saw /\ (Open(q)' <=> Open(q))
  BY DEF Becomes, Open, Writing
<1>2. \A p, q \in Requests : Met(p, q)' <=> Met(p, q)
  BY <1>1 DEF Met
<1>3. \A q \in Requests : UserOf(q)' = UserOf(q)
  BY DEF UserOf
<1>4. \A q \in Requests : (TxOK(q, req[q]) /\ Kept(q, req[q]))'
  BY <1>3 DEF Becomes, StoreInv, Kept
<1>5. Overlaps /\ \A w \in ta.rows : w.by \in Requests
  BY DEF StoreInv
<1>6. Overlaps'
  <2>1. \A p, q \in Requests : p # q /\ Open(p)' /\ Open(q)' => Met(p, q)'
    BY <1>1, <1>2, <1>5 DEF Overlaps
  <2>2. ASSUME NEW q \in Requests, NEW v \in req'[q].tx.rows, NEW w \in ta.rows, SameSetup(v, w)
        PROVE  Met(q, w.by)'
    <3>1. v \in req[q].tx.rows
      BY <2>2 DEF Becomes
    <3> QED BY <1>2, <1>5, <2>2, <3>1 DEF Overlaps
  <2>3. \A v, w \in ta.rows : v # w /\ SameSetup(v, w) => v.by # w.by /\ Met(v.by, w.by)'
    BY <1>2, <1>5 DEF Overlaps
  <2> QED BY <2>1, <2>2, <2>3 DEF Overlaps
<1> QED BY <1>4, <1>5, <1>6 DEF StoreInv

\* The next statement, with the transaction t.
NextTx(r, to, t) == Set(r, [pc |-> to, tx |-> t])

\* The record after a statement.
LEMMA NextTxFields ==
  ASSUME GuardInv, NEW r \in Requests, NEW to, NEW t, NextTx(r, to, t)
  PROVE  LET x == Patch(req[r], [pc |-> to, tx |-> t])
         IN /\ Becomes(r, x) /\ x.pc = to /\ x.tx = t /\ x.found = req[r].found /\ x.saw = req[r].saw
<1> DEFINE f == [pc |-> to, tx |-> t]
           x == Patch(req[r], f)
<1>1. DOMAIN f = {"pc", "tx"} /\ f.pc = to /\ f.tx = t
  OBVIOUS
<1>2. Becomes(r, x)
  BY SetOne DEF GuardInv, NextTx
<1>3. DOMAIN req[r] = Fields
  BY DEF GuardInv, Shape
<1> HIDE DEF f
<1>4. x.pc = to /\ x.tx = t /\ x.found = req[r].found /\ x.saw = req[r].saw
  BY <1>1, <1>3 DEF Patch, Fields
<1> QED BY <1>2, <1>4 DEF f

\* A statement that fails, or runs on a transaction that has failed.
LEMMA StoreFailed ==
  ASSUME GuardInv, StoreInv, NEW r \in Requests, NEW to \in Writing, NEW t, NextTx(r, to, t),
         cast' = cast, ta' = ta, Audited', Open(r), DOMAIN t = {"rows", "snaps", "state"},
         t.rows = req[r].tx.rows, t.snaps = req[r].tx.snaps, t.state # "ok"
  PROVE  StoreInv'
<1> DEFINE x == Patch(req[r], [pc |-> to, tx |-> t])
           y == req[r]
<1>1. Becomes(r, x) /\ x.pc = to /\ x.tx = t /\ x.found = y.found /\ x.saw = y.saw
  BY NextTxFields, SMTT(30)
<1>2. TxOK(r, y) /\ Keeps(UserOf(r), ta, r, y) /\ y.pc \in Unwritten \cap Analysing
  BY DEF StoreInv, Kept, Open, Unwritten, Analysing
<1>3. t.rows = y.tx.rows /\ t.snaps = y.tx.snaps
  OBVIOUS
<1> HIDE DEF x, y
<1>4. TxOK(r, x)
  BY <1>1, <1>2, <1>3 DEF TxOK, Writing, Analysing
<1>5. Keeps(UserOf(r), ta, r, x)
  BY <1>1, <1>2 DEF Keeps, Writing
<1> QED BY <1>1, <1>3, <1>4, <1>5, StoreWrite DEF y

\* One statement of the analysis: it works, or it fails.
LEMMA StatementTx ==
  ASSUME GuardInv, StoreInv, NEW r \in Requests, NEW from \in {"snapshots", "smc", "snd"}, NEW to \in Writing,
         NEW works, Statement(r, from, to, works)
  PROVE  /\ req[r].pc = from /\ cast' = cast /\ ta' = ta /\ Audited' /\ Open(r)
         /\ (req[r].tx.state = "ok" /\ NextTx(r, to, works)) \/ StoreInv'
<1> DEFINE tx == req[r].tx
<1>1. req[r].pc = from /\ cast' = cast /\ ta' = ta /\ rows' = rows /\ audits' = audits
  BY DEF Statement, At, tables
<1>2. Audited' /\ Open(r)
  BY <1>1, AuditedKept DEF StoreInv, Open
<1>3. \/ tx.state = "ok" /\ NextTx(r, to, works)
      \/ tx.state # "ok" /\ NextTx(r, to, tx)
      \/ \E kind \in {"aborted", "broken"} : NextTx(r, to, Fail(tx, kind))
  BY DEF Statement, NextTx
<1>4. DOMAIN tx = {"rows", "snaps", "state"}
  BY DEF StoreInv, TxOK
<1>5. CASE tx.state # "ok" /\ NextTx(r, to, tx)
  BY <1>1, <1>2, <1>4, <1>5, StoreFailed
<1>6. ASSUME NEW kind \in {"aborted", "broken"}, NextTx(r, to, Fail(tx, kind))
      PROVE  StoreInv'
  <2> DEFINE t == Fail(tx, kind)
  <2>1. DOMAIN t = {"rows", "snaps", "state"} /\ t.rows = tx.rows /\ t.snaps = tx.snaps /\ t.state # "ok"
    BY <1>4 DEF Fail
  <2>2. NextTx(r, to, t)
    BY <1>6
  <2> HIDE DEF t
  <2> QED BY <1>1, <1>2, <2>1, <2>2, StoreFailed
<1> QED BY <1>1, <1>2, <1>3, <1>5, <1>6

\* The first statement adds a snapshot of every timeframe.
LEMMA StorePersistSnapshots ==
  ASSUME GuardInv, StoreInv, NEW r \in Requests, PersistSnapshots(r)
  PROVE  StoreInv'
<1> DEFINE y == req[r]
           t == CreateSnapshots(y.tx, ta.snaps, UserOf(r), PairOf[r], Timeframes, r)
<1>1. Statement(r, "snapshots", "smc", t)
  BY DEF PersistSnapshots
<1>2. "smc" \in Writing
  BY DEF Writing
<1> HIDE DEF t
<1>3. /\ y.pc = "snapshots" /\ cast' = cast /\ ta' = ta /\ Audited' /\ Open(r)
      /\ (y.tx.state = "ok" /\ NextTx(r, "smc", t)) \/ StoreInv'
  BY <1>1, <1>2, StatementTx
<1>4. CASE y.tx.state = "ok" /\ NextTx(r, "smc", t)
  <2> DEFINE x == Patch(req[r], [pc |-> "smc", tx |-> t])
  <2>1. Becomes(r, x) /\ x.pc = "smc" /\ x.tx = t /\ x.found = y.found /\ x.saw = y.saw
    BY <1>4, NextTxFields, SMTT(30)
  <2>2. TxOK(r, y) /\ Keeps(UserOf(r), ta, r, y)
    BY DEF StoreInv, Kept
  <2> HIDE DEF x
  <2>3. y.tx = NoTx /\ y.found \in Findings
    BY <1>3, <2>2 DEF TxOK, Writing, Analysing
  <2>4. DOMAIN t = {"rows", "snaps", "state"} /\ t.rows = {} /\ Tfs(t.snaps) = Timeframes /\ \A s \in t.snaps : s.by = r
    <3> DEFINE snap(tf) == [user |-> UserOf(r), sym |-> PairOf[r], tf |-> tf, by |-> r,
                            version |-> 1 + LatestVersion(ta.snaps, UserOf(r), PairOf[r], tf)]
    <3>1. \A tf : snap(tf).by = r /\ snap(tf).tf = tf
      OBVIOUS
    <3>2. t = [NoTx EXCEPT !.snaps = {snap(tf) : tf \in Timeframes}]
      BY <2>3 DEF t, CreateSnapshots
    <3> HIDE DEF snap
    <3>3. DOMAIN t = {"rows", "snaps", "state"} /\ t.rows = {} /\ t.snaps = {snap(tf) : tf \in Timeframes}
      BY <3>2 DEF NoTx
    <3> QED BY <3>1, <3>3, SMTT(30) DEF Tfs
  <2>5. TxOK(r, x)
    BY <2>1, <2>3, <2>4 DEF TxOK, Writing
  <2>6. Keeps(UserOf(r), ta, r, x)
    BY <1>3, <2>1, <2>2 DEF Keeps, Unwritten
  <2> QED BY <1>2, <1>3, <2>1, <2>4, <2>5, <2>6, StoreWrite
<1> QED BY <1>3, <1>4

\* More rows cover the same candidates.
LEMMA CoveredMore ==
  ASSUME NEW u, NEW r, NEW cands, NEW few, NEW many, few \subseteq many, Covered(u, r, cands, few)
  PROVE  Covered(u, r, cands, many)
BY DEF Covered

\* The commit of r's transaction, whose record becomes x.
LEMMA StoreCommit ==
  ASSUME GuardInv, StoreInv, NEW r \in Requests, NEW x, Becomes(r, x), cast' = cast, Audited',
         req[r].pc = "commit", req[r].tx.state = "ok",
         ta' = [rows |-> ta.rows \cup req[r].tx.rows, snaps |-> ta.snaps \cup req[r].tx.snaps],
         x.saw = req[r].saw, x.tx = NoTx, x.pc \in {"context", "done"},
         x.pc = "context" => x.found = req[r].found
  PROVE  StoreInv'
<1> DEFINE y == req[r]
           u == UserOf(r)
<1>1. ta'.rows = ta.rows \cup y.tx.rows /\ ta'.snaps = ta.snaps \cup y.tx.snaps
  OBVIOUS
<1>2. TxOK(r, y) /\ Keeps(u, ta, r, y) /\ y.pc = "commit" /\ y.tx.state = "ok"
  BY DEF StoreInv, Kept
<1>3. /\ \A v \in y.tx.rows : v.by = r
      /\ \A s \in y.tx.snaps : s.by = r
      /\ \A v, w \in y.tx.rows : SameSetup(v, w) => v = w
      /\ Tfs(y.tx.snaps) = Timeframes /\ y.found \in Findings
  BY <1>2 DEF TxOK, Writing, Analysing
<1>4. /\ Mine(ta.rows, r) = {} /\ Mine(ta.snaps, r) = {}
      /\ Covered(u, r, y.found.smc, ta'.rows) /\ Covered(u, r, y.found.snd, ta'.rows)
  BY <1>1, <1>2 DEF Keeps, Unwritten
<1>5. x.saw = y.saw /\ x.tx = NoTx /\ x.pc \in {"context", "done"} /\ (x.pc = "context" => x.found = y.found)
  OBVIOUS
<1>6. NoTx.rows = {} /\ NoTx.snaps = {} /\ DOMAIN NoTx = {"rows", "snaps", "state"}
  BY DEF NoTx
<1> HIDE DEF y, u
<1>7. TxOK(r, x)
  BY <1>3, <1>5, <1>6 DEF TxOK, Writing, Analysing
<1>8. Keeps(u, ta', r, x)
  <2>1. Mine(ta'.snaps, r) = y.tx.snaps
    BY <1>1, <1>3, <1>4 DEF Mine
  <2> QED BY <1>3, <1>4, <1>5, <2>1 DEF Keeps, Unwritten
<1>9. ASSUME NEW q \in Requests, q # r PROVE TxOK(q, req[q]) /\ Keeps(UserOf(q), ta', q, req[q])
  <2>1. TxOK(q, req[q]) /\ Keeps(UserOf(q), ta, q, req[q])
    BY DEF StoreInv, Kept
  <2>2. Mine(ta'.rows, q) = Mine(ta.rows, q) /\ Mine(ta'.snaps, q) = Mine(ta.snaps, q)
    BY <1>1, <1>3, <1>9 DEF Mine
  <2>3. ta.rows \subseteq ta'.rows /\ ta.rows \cup req[q].tx.rows \subseteq ta'.rows \cup req[q].tx.rows
    BY <1>1
  <2>4. \A cands : /\ Covered(UserOf(q), q, cands, ta.rows) => Covered(UserOf(q), q, cands, ta'.rows)
                   /\ Covered(UserOf(q), q, cands, ta.rows \cup req[q].tx.rows) =>
                        Covered(UserOf(q), q, cands, ta'.rows \cup req[q].tx.rows)
    BY <2>3, CoveredMore
  <2> HIDE DEF Becomes
  <2> QED BY <2>1, <2>2, <2>4 DEF Keeps
<1>10. \A q \in Requests : UserOf(q)' = UserOf(q)
  BY DEF UserOf
<1>11. \A q \in Requests : (TxOK(q, req[q]) /\ Kept(q, req[q]))'
  BY <1>7, <1>8, <1>9, <1>10 DEF Becomes, Kept, u
<1>12. \A q \in Requests : req'[q].saw = req[q].saw /\ (Open(q)' => Open(q) /\ q # r)
  BY <1>5 DEF Becomes, Open, y
<1>13. \A p, q \in Requests : Met(p, q)' <=> Met(p, q)
  BY <1>12 DEF Met
<1>14. Overlaps /\ Open(r) /\ \A w \in ta.rows : w.by \in Requests
  BY DEF StoreInv, Open
<1>15. \A w \in ta'.rows : w.by \in Requests
  BY <1>1, <1>3, <1>14
<1>16. Overlaps'
  <2>1. \A p, q \in Requests : p # q /\ Open(p)' /\ Open(q)' => Met(p, q)'
    BY <1>12, <1>13, <1>14 DEF Overlaps
  <2>2. ASSUME NEW q \in Requests, NEW v \in req'[q].tx.rows, NEW w \in ta'.rows, SameSetup(v, w)
        PROVE  Met(q, w.by)'
    <3>1. q # r /\ req'[q] = req[q]
      BY <1>5, <1>6, <2>2 DEF Becomes
    <3>2. TxOK(q, req[q]) /\ v \in req[q].tx.rows
      BY <2>2, <3>1 DEF StoreInv
    <3>3. Open(q)
      BY <1>6, <3>2 DEF TxOK, Open, Writing
    <3>4. CASE w \in ta.rows
      BY <1>13, <1>14, <2>2, <3>2, <3>4 DEF Overlaps
    <3>5. CASE w \in y.tx.rows
      BY <1>3, <1>13, <1>14, <3>1, <3>3, <3>5 DEF Overlaps
    <3> QED BY <1>1, <3>4, <3>5
  <2>3. ASSUME NEW v \in y.tx.rows, NEW w \in ta.rows, SameSetup(v, w) \/ SameSetup(w, v)
        PROVE  v.by # w.by /\ Met(v.by, w.by)' /\ Met(w.by, v.by)'
    <3>1. SameSetup(v, w)
      BY <2>3 DEF SameSetup
    <3>2. v.by = r /\ w.by # r /\ w.by \in Requests
      BY <1>3, <1>4, <1>14 DEF Mine
    <3>3. Met(r, w.by)
      BY <1>14, <3>1 DEF Overlaps, y
    <3> QED BY <1>13, <3>2, <3>3 DEF Met
  <2>4. ASSUME NEW v \in ta'.rows, NEW w \in ta'.rows, v # w, SameSetup(v, w)
        PROVE  v.by # w.by /\ Met(v.by, w.by)'
    <3>1. CASE v \in ta.rows /\ w \in ta.rows
      BY <1>13, <1>14, <2>4, <3>1 DEF Overlaps
    <3>2. CASE v \in y.tx.rows /\ w \in y.tx.rows
      BY <1>3, <2>4, <3>2
    <3>3. CASE v \in y.tx.rows /\ w \in ta.rows
      BY <2>3, <2>4, <3>3
    <3>4. CASE v \in ta.rows /\ w \in y.tx.rows
      BY <2>3, <2>4, <3>4
    <3> QED BY <1>1, <3>1, <3>2, <3>3, <3>4
  <2> QED BY <2>1, <2>2, <2>4 DEF Overlaps
<1> QED BY <1>11, <1>15, <1>16 DEF StoreInv

\* COMMIT makes the whole transaction durable, or nothing of it.
LEMMA StoreCommitTa ==
  ASSUME GuardInv, StoreInv, NEW r \in Requests, CommitTa(r)
  PROVE  StoreInv'
<1> DEFINE y == req[r]
<1>1. y.pc = "commit" /\ cast' = cast /\ rows' = rows /\ audits' = audits
  BY DEF CommitTa, At
<1>2. Audited'
  BY <1>1, AuditedKept DEF StoreInv
<1>3. \/ /\ ta' = [rows |-> ta.rows \cup y.tx.rows, snaps |-> ta.snaps \cup y.tx.snaps] /\ y.tx.state = "ok"
         /\ Ended(r, Blank, "completed", {}) \/ Set(r, [pc |-> "context", tx |-> NoTx])
      \/ ta' = ta /\ y.tx.state # "ok" /\ (Ended(r, Blank, "completed", {}) \/ Set(r, [pc |-> "context", tx |-> NoTx]))
      \/ ta' = ta /\ Ended(r, Blank, "completed", {})
  BY DEF CommitTa, Durable, Blank
<1>4. CASE ta' = ta /\ Ended(r, Blank, "completed", {})
  <2>1. Away(r)
    BY <1>1, <1>4, EndedAway
  <2> QED BY <1>2, <2>1, StoreAway
<1>5. ASSUME Ended(r, Blank, "completed", {})
      PROVE  /\ Becomes(r, req'[r]) /\ req'[r].pc = "done" /\ req'[r].tx = NoTx /\ req'[r].saw = y.saw
  <2>1. Shape
    BY DEF GuardInv
  <2> QED BY <1>5, <2>1, EndedOne
<1>6. ASSUME Set(r, [pc |-> "context", tx |-> NoTx])
      PROVE  /\ Becomes(r, req'[r]) /\ req'[r].pc = "context" /\ req'[r].tx = NoTx
             /\ req'[r].saw = y.saw /\ req'[r].found = y.found
  <2> DEFINE x == Patch(req[r], [pc |-> "context", tx |-> NoTx])
  <2>1. Becomes(r, x) /\ x.pc = "context" /\ x.tx = NoTx /\ x.saw = y.saw /\ x.found = y.found
    BY <1>6, NextTxFields, SMTT(30) DEF NextTx
  <2> HIDE DEF x
  <2> QED BY <2>1 DEF Becomes
<1>7. CASE /\ ta' = [rows |-> ta.rows \cup y.tx.rows, snaps |-> ta.snaps \cup y.tx.snaps] /\ y.tx.state = "ok"
           /\ Ended(r, Blank, "completed", {}) \/ Set(r, [pc |-> "context", tx |-> NoTx])
  BY <1>1, <1>2, <1>5, <1>6, <1>7, StoreCommit
<1>8. CASE ta' = ta /\ y.tx.state # "ok" /\ Set(r, [pc |-> "context", tx |-> NoTx])
  <2> DEFINE x == req'[r]
  <2>1. Becomes(r, x) /\ x.pc = "context" /\ x.tx = NoTx /\ x.saw = y.saw /\ x.found = y.found
    BY <1>6, <1>8
  <2>2. TxOK(r, y) /\ Keeps(UserOf(r), ta, r, y)
    BY DEF StoreInv, Kept
  <2>3. NoTx.rows = {} /\ NoTx.snaps = {} /\ DOMAIN NoTx = {"rows", "snaps", "state"}
    BY DEF NoTx
  <2> HIDE DEF x, y
  <2>4. TxOK(r, x)
    BY <1>1, <2>1, <2>2, <2>3 DEF TxOK, Writing, Analysing
  <2>5. Keeps(UserOf(r), ta, r, x)
    BY <1>1, <2>1, <2>2 DEF Keeps, Unwritten
  <2>6. \A q \in Requests : req'[q].saw = req[q].saw /\ (Open(q)' => Open(q)) /\ req'[q].tx.rows \subseteq req[q].tx.rows
    BY <2>1, <2>3 DEF Becomes, Open, y
  <2>7. \A q \in Requests : UserOf(q)' = UserOf(q)
    BY <1>1 DEF UserOf
  <2>8. \A q \in Requests : (TxOK(q, req[q]) /\ Kept(q, req[q]))'
    BY <1>8, <2>1, <2>4, <2>5, <2>7 DEF Becomes, StoreInv, Kept
  <2>9. \A p, q \in Requests : Met(p, q)' <=> Met(p, q)
    BY <2>6 DEF Met
  <2>10. Overlaps /\ \A w \in ta.rows : w.by \in Requests
    BY DEF StoreInv
  <2>11. Overlaps'
    BY <1>8, <2>6, <2>9, <2>10 DEF Overlaps
  <2> QED BY <1>2, <1>8, <2>8, <2>10, <2>11 DEF StoreInv
<1> QED BY <1>3, <1>4, <1>7, <1>8
-----------------------------------------------------------------------------
(* The deduplication *)

INSTANCE WellFoundedInduction

\* A nonempty set of naturals has a least element.
LEMMA LeastNatural ==
  ASSUME NEW T, T \subseteq Nat, T # {}
  PROVE  \E x \in T : \A y \in T : ~(y < x)
<1> DEFINE R == OpToRel(<, Nat)
<1>1. \E x \in T : \A y \in T : ~(<<y, x>> \in R)
  <2>1. IsWellFoundedOn(R, Nat)
    BY NatLessThanWellFounded
  <2> HIDE DEF R
  <2> QED BY <2>1, WFMin
<1>2. \A x, y \in T : <<y, x>> \in R <=> y < x
  BY DEF OpToRel
<1> QED BY <1>1, <1>2

\* A row has its candidate's key.
LEMMA RowFields ==
  ASSUME NEW c, NEW u, NEW r
  PROVE  LET w == RowOf(c, u, r)
         IN w.by = r /\ w.user = u /\ w.sym = c.sym /\ DedupKey(w) = DedupKey(c)
BY DEF RowOf, DedupKey

\* Two rows are the same setup when user and key agree.
LEMMA SetupIsKey ==
  ASSUME NEW v, NEW w
  PROVE  SameSetup(v, w) <=> v.user = w.user /\ DedupKey(v) = DedupKey(w)
BY DEF SameSetup, DedupKey

\* The key holds the symbol.
LEMMA KeySymbol ==
  ASSUME NEW v, NEW w, DedupKey(v) = DedupKey(w)
  PROVE  v.sym = w.sym
BY DEF DedupKey

\* What the insert adds to a transaction tx over the rows old, giving t: one row for
\* each new key, and none for a key that the read found.
Inserted(u, r, old, tx, cands, t) ==
  /\ DOMAIN t = {"rows", "snaps", "state"} /\ t.snaps = tx.snaps /\ t.state = tx.state
  /\ tx.rows \subseteq t.rows
  /\ \A v \in t.rows : v \in tx.rows \/ (v.by = r /\ \A w \in old \cup tx.rows : ~SameSetup(v, w))
  /\ \A v, w \in t.rows : SameSetup(v, w) => v = w \/ (v \in tx.rows /\ w \in tx.rows)
  /\ Covered(u, r, cands, old \cup t.rows)

\* bulk_create_smc_candidates and bulk_create_snd_candidates insert as described.
LEMMA BulkFacts ==
  ASSUME NEW u, NEW r, NEW old, NEW tx, NEW cands, Len(cands) \in Nat, DOMAIN cands = 1..Len(cands),
         DOMAIN tx = {"rows", "snaps", "state"}
  PROVE  Inserted(u, r, old, tx, cands, BulkCreate(tx, ExistingKeys(old, tx, cands, u), cands, u, r))
<1> DEFINE keys0 == ExistingKeys(old, tx, cands, u)
           t == BulkCreate(tx, keys0, cands, u, r)
           all == old \cup tx.rows
           fresh == FreshCandidates(keys0, cands)
           row(i) == RowOf(cands[i], u, r)
<1>1. /\ DOMAIN t = {"rows", "snaps", "state"} /\ t.snaps = tx.snaps /\ t.state = tx.state
      /\ t.rows = tx.rows \cup {row(i) : i \in fresh}
  BY DEF BulkCreate
<1>2. \A i : row(i).by = r /\ row(i).user = u /\ row(i).sym = cands[i].sym /\ DedupKey(row(i)) = DedupKey(cands[i])
  BY RowFields, SMTT(30)
<1>3. \A i \in DOMAIN cands, w \in all :
        w.user = u /\ DedupKey(w) = DedupKey(cands[i]) => DedupKey(cands[i]) \in keys0
  <2> SUFFICES ASSUME NEW i \in DOMAIN cands, NEW w \in all, w.user = u, DedupKey(w) = DedupKey(cands[i])
               PROVE  DedupKey(w) \in keys0
    OBVIOUS
  <2>1. cands[i].sym = w.sym
    BY KeySymbol
  <2> QED BY <2>1 DEF ExistingKeys
<1>4. \A k \in keys0 : \E w \in all : w.user = u /\ DedupKey(w) = k
  BY DEF ExistingKeys
<1>5. fresh = {i \in DOMAIN cands : /\ DedupKey(cands[i]) \notin keys0
                                    /\ \A j \in 1..(i - 1) : DedupKey(cands[j]) # DedupKey(cands[i])}
  BY DEF FreshCandidates
<1> HIDE DEF keys0, t, fresh, row
<1>6. ASSUME NEW i \in fresh PROVE i \in DOMAIN cands /\ \A w \in all : ~SameSetup(row(i), w) /\ ~SameSetup(w, row(i))
  BY <1>2, <1>3, <1>5, SetupIsKey
<1>7. ASSUME NEW i \in fresh, NEW j \in fresh, SameSetup(row(i), row(j)) PROVE i = j
  <2>1. DedupKey(cands[i]) = DedupKey(cands[j])
    BY <1>2, <1>7, SetupIsKey
  <2>2. i \in 1..Len(cands) /\ j \in 1..Len(cands)
    BY <1>5
  <2>3. ~(i < j) /\ ~(j < i)
    BY <1>5, <2>1, <2>2, SMTT(30)
  <2> QED BY <2>2, <2>3, SMTT(30)
<1>8. \A v \in t.rows : v \in tx.rows \/ (v.by = r /\ \A w \in all : ~SameSetup(v, w))
  BY <1>1, <1>2, <1>6, SMTT(30)
<1>9. \A v, w \in t.rows : SameSetup(v, w) => v = w \/ (v \in tx.rows /\ w \in tx.rows)
  BY <1>1, <1>6, <1>7, SMTT(30)
<1>10. Covered(u, r, cands, old \cup t.rows)
  <2> SUFFICES ASSUME NEW i \in DOMAIN cands PROVE \E w \in old \cup t.rows : SameSetup(w, row(i))
    BY DEF Covered, row
  <2>1. CASE DedupKey(cands[i]) \in keys0
    BY <1>1, <1>2, <1>4, <2>1, SetupIsKey
  <2>2. CASE DedupKey(cands[i]) \notin keys0
    <3> DEFINE same == {j \in 1..Len(cands) : DedupKey(cands[j]) = DedupKey(cands[i])}
    <3>1. same \subseteq Nat /\ i \in same
      BY SMTT(30)
    <3>2. PICK j \in same : \A k \in same : ~(k < j)
      BY <3>1, LeastNatural
    <3>3. j \in fresh
      BY <1>5, <2>2, <3>2, SMTT(30)
    <3>4. SameSetup(row(j), row(i))
      BY <1>2, <3>2, SetupIsKey
    <3> QED BY <1>1, <3>3, <3>4
  <2> QED BY <2>1, <2>2
<1>11. tx.rows \subseteq t.rows
  BY <1>1
<1> QED BY <1>1, <1>8, <1>9, <1>10, <1>11 DEF Inserted, t, keys0

\* The rows of one list are added to the open transaction.
LEMMA StoreStored ==
  ASSUME GuardInv, StoreInv, NEW r \in Requests, NEW from \in {"smc", "snd"}, NEW to \in {"snd", "commit"},
         from = "smc" => to = "snd", from = "snd" => to = "commit",
         Statement(r, from, to, Stored(r, IF from = "smc" THEN req[r].found.smc ELSE req[r].found.snd))
  PROVE  StoreInv'
<1> DEFINE y == req[r]
           u == UserOf(r)
           cands == IF from = "smc" THEN y.found.smc ELSE y.found.snd
           t == Stored(r, cands)
<1>1. /\ y.pc = from /\ cast' = cast /\ ta' = ta /\ Audited' /\ Open(r)
      /\ (y.tx.state = "ok" /\ NextTx(r, to, t)) \/ StoreInv'
  <2>1. to \in Writing
    BY DEF Writing
  <2> HIDE DEF t
  <2> QED BY <2>1, StatementTx DEF t
<1>2. CASE y.tx.state = "ok" /\ NextTx(r, to, t)
  <2> DEFINE x == Patch(req[r], [pc |-> to, tx |-> t])
  <2>1. TxOK(r, y) /\ Keeps(u, ta, r, y)
    BY DEF StoreInv, Kept
  <2>2. y.found \in Findings /\ DOMAIN y.tx = {"rows", "snaps", "state"} /\ y.pc \in Writing
    BY <1>1, <2>1 DEF TxOK, Analysing, Writing
  <2>3. Len(cands) \in Nat /\ DOMAIN cands = 1..Len(cands)
    BY <2>2, FindingsLists
  <2>4. t = BulkCreate(y.tx, ExistingKeys(ta.rows, y.tx, cands, u), cands, u, r)
    BY DEF Stored
  <2> HIDE DEF t, cands
  <2>5a. Inserted(u, r, ta.rows, y.tx, cands, t)
    BY <2>2, <2>3, <2>4, BulkFacts
  <2>5. /\ DOMAIN t = {"rows", "snaps", "state"} /\ t.snaps = y.tx.snaps /\ t.state = y.tx.state
        /\ y.tx.rows \subseteq t.rows
        /\ \A v \in t.rows : v \in y.tx.rows \/ (v.by = r /\ \A w \in ta.rows \cup y.tx.rows : ~SameSetup(v, w))
        /\ \A v, w \in t.rows : SameSetup(v, w) => v = w \/ (v \in y.tx.rows /\ w \in y.tx.rows)
        /\ Covered(u, r, cands, ta.rows \cup t.rows)
    BY <2>5a DEF Inserted
  <2>6. Becomes(r, x) /\ x.pc = to /\ x.tx = t /\ x.found = y.found /\ x.saw = y.saw
    BY <1>2, NextTxFields, SMTT(30)
  <2> HIDE DEF x, u
  <2>7. TxOK(r, x)
    BY <1>2, <2>1, <2>2, <2>5, <2>6 DEF TxOK, Writing
  <2>8. from = "snd" => Covered(u, r, y.found.smc, ta.rows \cup t.rows)
    <3>1. from = "snd" => Covered(u, r, y.found.smc, ta.rows \cup y.tx.rows)
      BY <1>1, <1>2, <2>1 DEF Keeps
    <3>2. ta.rows \cup y.tx.rows \subseteq ta.rows \cup t.rows
      BY <2>5
    <3> QED BY <3>1, <3>2, CoveredMore
  <2>9. (from = "smc" => cands = y.found.smc) /\ (from = "snd" => cands = y.found.snd)
    BY DEF cands
  <2>10. y.pc \in Unwritten
    BY <1>1 DEF Unwritten
  <2>11. Keeps(u, ta, r, x)
    BY <1>2, <2>1, <2>5, <2>6, <2>8, <2>9, <2>10 DEF Keeps
  <2>12. to \in Writing
    BY DEF Writing
  <2>13. \A v \in x.tx.rows, w \in ta.rows : SameSetup(v, w) => v \in y.tx.rows
    BY <2>5, <2>6
  <2> QED BY <1>1, <2>6, <2>7, <2>11, <2>12, <2>13, StoreWrite DEF u
<1> QED BY <1>1, <1>2

\* The three statement groups keep the store's promises.
LEMMA StorePersist ==
  ASSUME GuardInv, StoreInv, NEW r \in Requests, PersistSnapshots(r) \/ PersistSmc(r) \/ PersistSnd(r)
  PROVE  StoreInv'
<1>1. CASE PersistSmc(r)
  BY <1>1, StoreStored DEF PersistSmc
<1>2. CASE PersistSnd(r)
  BY <1>2, StoreStored DEF PersistSnd
<1> QED BY <1>1, <1>2, StorePersistSnapshots

\* Every step keeps the store's promises.
LEMMA StoreStep ==
  ASSUME GuardInv, StoreInv, [Next]_vars
  PROVE  StoreInv'
<1>1. ASSUME NEW r \in Requests, RateLimit(r) \/ Enter(r)
      PROVE  StoreInv'
  BY <1>1, StoreRateLimit, StoreContext
<1>2. ASSUME NEW r \in Requests, Prepare(r)
      PROVE  StoreInv'
  BY <1>2, StoreRateLimit, StoreAnalyze, StorePersist, StoreCommitTa, StoreContext DEF Prepare
<1>3. ASSUME NEW r \in Requests, Process(r)
      PROVE  StoreInv'
  BY <1>3, StoreProcess
<1>4. CASE Tick
  BY <1>4, StoreTick
<1>5. CASE Crash
  BY <1>5, StoreCrash
<1>6. CASE UNCHANGED vars
  <2>1. cast' = cast /\ ta' = ta /\ rows' = rows /\ audits' = audits /\ req' = req
    BY <1>6 DEF vars
  <2>2. \A q \in Requests : Calm(req[q], req'[q])
    BY <2>1 DEF Calm
  <2> QED BY <2>1, <2>2, StoreCalm, AuditedKept DEF StoreInv
<1> QED BY <1>1, <1>2, <1>3, <1>4, <1>5, <1>6 DEF Next

\* Transactions, rows, snapshots and audit log agree in every reachable state.
THEOREM CycleStoreInv == Spec => [](GuardInv /\ StoreInv)
BY GuardInit, GuardStep, StoreInit, StoreStep, PTL DEF Spec

\* Two rows of one setup come from two analyses that were open at the same time,
\* for any number of analyses: without an overlap the read of the committed keys
\* prevents the duplicate (_fetch_existing_dedup_keys).
THEOREM DuplicatesDidOverlap == Spec => []DuplicatesOverlapped
<1>1. ASSUME StoreInv PROVE DuplicatesOverlapped
  BY <1>1 DEF StoreInv, Overlaps, Met, DuplicatesOverlapped
<1> QED BY <1>1, CycleStoreInv, PTL

\* No analysis is stored in part, whichever statement failed, and no decision is
\* audited without its row (_persist_all_results, _persist_success).
THEOREM AnalysesAreWhole == Spec => []AnalysisStoredWhole
<1>1. ASSUME StoreInv PROVE AnalysisStoredWhole
  <2>1. ASSUME NEW r \in Requests PROVE Keeps(UserOf(r), ta, r, req[r])
    BY <1>1 DEF StoreInv, Kept
  <2>2. ASSUME NEW r \in Requests, Mine(ta.rows, r) # {} PROVE {s.tf : s \in Mine(ta.snaps, r)} = Timeframes
    BY <2>1, <2>2 DEF Keeps, Tfs
  <2>3. ASSUME NEW r \in Requests, Mine(ta.snaps, r) # {}, At(r, "context"),
               NEW cands \in {req[r].found.smc, req[r].found.snd}, NEW i \in DOMAIN cands
        PROVE  \E w \in ta.rows : SameSetup(w, RowOf(cands[i], UserOf(r), r))
    <3>1. Covered(UserOf(r), r, cands, ta.rows)
      BY <2>1, <2>3 DEF Keeps, At
    <3> QED BY <2>3, <3>1 DEF Covered
  <2>4. Audited
    BY <1>1 DEF StoreInv
  <2> QED BY <2>2, <2>3, <2>4 DEF AnalysisStoredWhole, Audited, Mine
<1> QED BY <1>1, CycleStoreInv, PTL
=============================================================================
