------------------------ MODULE OrderExecutionProofs ------------------------
(***************************************************************************)
(* Proofs about OrderExecution for any set of orders, any assignment of    *)
(* keys and modes, any number of restarts.  Every theorem names the faults *)
(* it excludes; all others may strike between any two steps.               *)
(*                                                                         *)
(* The argument is the same each time: the property is too weak to be      *)
(* carried through a step, so an inductive invariant that also says what   *)
(* goroutines, handlers and the restore loop are about to do is carried    *)
(* instead, one step of the proof per action.                              *)
(***************************************************************************)
EXTENDS OrderExecution, TLAPS

\* Most leaves are first-order; those that need arithmetic or records cite SMT.
USE ZenonT(30)

-----------------------------------------------------------------------------
(***************************************************************************)
(* Types.                                                                  *)
(***************************************************************************)

\* The state main builds before it reads a row has the declared types.
LEMMA TypeInit == Init => TypeOK
BY SMTT(30), ExecutionConfig DEF Init, TypeOK, Procs, RpcOver, RpcBusy, RowStates,
   BrokerStates, WatcherStates, Outcomes

\* Every step of handlers, watchers, broker and process keeps the types.
LEMMA TypeNext == TypeOK /\ [Next]_vars => TypeOK'
<1> SUFFICES ASSUME TypeOK, [Next]_vars PROVE TypeOK' OBVIOUS
<1> USE ExecutionConfig DEF TypeOK, Procs, RpcOver, RpcBusy, RowStates,
        BrokerStates, WatcherStates, Outcomes
<1>1. ASSUME NEW o \in Orders, TryClaim(o) PROVE TypeOK'
  BY SMTT(30), <1>1 DEF TryClaim, procVars, watcherVars
<1>2. ASSUME NEW o \in Orders, LatencyBreach(o) PROVE TypeOK'
  BY <1>2 DEF LatencyBreach, procVars, watcherVars
<1>3. ASSUME NEW o \in Orders, FetchExisting(o) PROVE TypeOK'
  BY <1>3 DEF FetchExisting, procVars, watcherVars
<1>4. ASSUME NEW o \in Orders, PlaceLimitOrder(o) PROVE TypeOK'
  BY <1>4 DEF PlaceLimitOrder, procVars, watcherVars
<1>5. ASSUME NEW o \in Orders, LimitReply(o) PROVE TypeOK'
  BY SMTT(30), <1>5 DEF LimitReply, procVars, watcherVars
<1>6. ASSUME NEW o \in Orders, RecordResult(o) PROVE TypeOK'
  BY SMTT(30), <1>6 DEF RecordResult, procVars, watcherVars
<1>7. ASSUME NEW o \in Orders, ArmStart(o) PROVE TypeOK'
  BY SMTT(30), <1>7 DEF ArmStart, Spawn, FirstState, procVars
<1>8. ASSUME NEW o \in Orders, ArmInsert(o) PROVE TypeOK'
  BY <1>8 DEF ArmInsert, procVars
<1>9. ASSUME NEW o \in Orders, CheckLimitFillAndHandoff(o) PROVE TypeOK'
  BY <1>9 DEF CheckLimitFillAndHandoff, watcherRest, procVars, Goto, Decide
<1>10. ASSUME NEW o \in Orders, TtlElapsed(o) PROVE TypeOK'
  BY <1>10 DEF TtlElapsed, watcherRest, procVars, Goto, Decide,
     HandleTimeout, CancelOrder
<1>11. ASSUME NEW o \in Orders, ExitSilently(o) PROVE TypeOK'
  BY <1>11 DEF ExitSilently, watcherRest, procVars, Goto
<1>12. ASSUME NEW o \in Orders, ConfirmTimeout(o) PROVE TypeOK'
  BY <1>12 DEF ConfirmTimeout, watcherRest, procVars, Goto, Decide,
     HandleTimeout, CancelOrder
<1>13. ASSUME NEW o \in Orders, FireMarketOrder(o) PROVE TypeOK'
  BY <1>13 DEF FireMarketOrder, watcherRest, procVars, Goto
<1>14. ASSUME NEW o \in Orders, MarketFilled(o) PROVE TypeOK'
  BY <1>14 DEF MarketFilled, watcherRest, procVars, Goto, Decide
<1>15. ASSUME NEW o \in Orders, MarketRejected(o) PROVE TypeOK'
  BY <1>15 DEF MarketRejected, watcherRest, procVars, Goto, Decide
<1>16. ASSUME NEW o \in Orders, MarketError(o) PROVE TypeOK'
  BY SMTT(30), <1>16 DEF MarketError, watcherRest, procVars, Goto, Decide
<1>17. ASSUME NEW o \in Orders, NotifyExecutionCompleted(o) PROVE TypeOK'
  BY <1>17 DEF NotifyExecutionCompleted, watcherRest, procVars, Goto
<1>18. ASSUME NEW o \in Orders, OnWatcherDone(o) PROVE TypeOK'
  BY <1>18 DEF OnWatcherDone, watcherRest, procVars, Goto
<1>19. ASSUME NEW o \in Orders, DeleteRecord(o) PROVE TypeOK'
  BY <1>19 DEF DeleteRecord, procVars, Goto
<1>20. ASSUME NEW o \in Orders, CheckNewsAndCancel(o) PROVE TypeOK'
  BY SMTT(30), <1>20 DEF CheckNewsAndCancel, watcherRest, procVars, Goto, Decide,
     CancelOrder
<1>21. ASSUME NEW o \in Orders, CheckHaltAndCancel(o) PROVE TypeOK'
  BY <1>21 DEF CheckHaltAndCancel, watcherRest, procVars, Goto, Decide,
     CancelOrder
<1>22. ASSUME NEW o \in Orders, PriceInZone(o) PROVE TypeOK'
  BY <1>22 DEF PriceInZone, watcherRest, procVars, Goto
<1>23. ASSUME NEW o \in Orders, Confirmed(o) PROVE TypeOK'
  BY <1>23 DEF Confirmed, watcherRest, procVars, Goto
<1>24. ASSUME NEW o \in Orders, FireBlocked(o) PROVE TypeOK'
  BY <1>24 DEF FireBlocked, watcherRest, procVars, Goto, Decide
<1>25. ASSUME NEW o \in Orders, Expire(o) PROVE TypeOK'
  BY <1>25 DEF Expire, procVars, watcherVars
<1>26. ASSUME NEW o \in Orders, BrokerAccept(o) PROVE TypeOK'
  BY SMTT(30), <1>26 DEF BrokerAccept, brokerRest, procVars, watcherVars
<1>27. ASSUME NEW o \in Orders, BrokerRefuse(o) PROVE TypeOK'
  BY SMTT(30), <1>27 DEF BrokerRefuse, brokerRest, procVars, watcherVars
<1>28. ASSUME NEW o \in Orders, BrokerFill(o) PROVE TypeOK'
  BY SMTT(30), <1>28 DEF BrokerFill, brokerRest, procVars, watcherVars
<1>29. ASSUME NEW o \in Orders, CancelPendingOrder(o) PROVE TypeOK'
  BY <1>29 DEF CancelPendingOrder, brokerRest, procVars, watcherVars,
     CancelOrder
<1>30. ASSUME NEW o \in Orders, RestoreDrop(o) PROVE TypeOK'
  BY <1>30 DEF RestoreDrop, Decide
<1>31. ASSUME NEW o \in Orders, RestoreArm(o) PROVE TypeOK'
  BY <1>31 DEF RestoreArm, Spawn, FirstState
<1>32. ASSUME NEW k \in Keys, GarbageCollect(k) PROVE TypeOK'
  BY <1>32 DEF GarbageCollect, procVars, watcherVars
<1>33. CASE BeginShutdown
  BY <1>33 DEF BeginShutdown, watcherVars
<1>34. CASE CancelWatchers
  BY <1>34 DEF CancelWatchers, watcherVars
<1>35. CASE Exit
  BY <1>35 DEF Exit, Die
<1>36. CASE Boot
  BY SMTT(30), <1>36 DEF Boot, watcherVars
<1>37. CASE Serve
  BY <1>37 DEF Serve, watcherVars
<1>38. CASE Sigterm
  BY <1>38 DEF Sigterm, watcherVars
<1>39. CASE Crash
  BY <1>39 DEF Crash, Die
<1>40. CASE UNCHANGED vars BY <1>40 DEF vars
<1> QED BY <1>1, <1>2, <1>3, <1>4, <1>5, <1>6, <1>7, <1>8, <1>9, <1>10, <1>11,
     <1>12, <1>13, <1>14, <1>15, <1>16, <1>17, <1>18, <1>19, <1>20,
     <1>21, <1>22, <1>23, <1>24, <1>25, <1>26, <1>27, <1>28, <1>29,
     <1>30, <1>31, <1>32, <1>33, <1>34, <1>35, <1>36, <1>37, <1>38,
     <1>39, <1>40
  DEF Next, Handler, WatcherGoesOn, WatcherIsTold, BrokerAnswers, Process

-----------------------------------------------------------------------------
(***************************************************************************)
(* A watcher that has left its run loop has decided, unless shutdown sent  *)
(* it away; and then the flag is set, so onWatcherDone keeps the row.      *)
(***************************************************************************)
DecidedInv ==
    \A o \in Orders :
        /\ w[o] \in {"notify", "deleting"} => outcome[o] # "armed"
        /\ w[o] = "exit" /\ outcome[o] = "armed" => proc = "cancelled"

\* No step of a watcher reaches onWatcherDone undecided before m.cancel().
LEMMA DecidedNext == TypeOK /\ DecidedInv /\ [Next]_vars => DecidedInv'
<1> SUFFICES ASSUME TypeOK, DecidedInv, [Next]_vars PROVE DecidedInv' OBVIOUS
<1> USE ExecutionConfig DEF TypeOK, DecidedInv
<1>1. ASSUME NEW o \in Orders, TryClaim(o) PROVE DecidedInv'
  BY <1>1 DEF TryClaim, procVars, watcherVars
<1>2. ASSUME NEW o \in Orders, LatencyBreach(o) PROVE DecidedInv'
  BY <1>2 DEF LatencyBreach, procVars, watcherVars
<1>3. ASSUME NEW o \in Orders, FetchExisting(o) PROVE DecidedInv'
  BY <1>3 DEF FetchExisting, procVars, watcherVars
<1>4. ASSUME NEW o \in Orders, PlaceLimitOrder(o) PROVE DecidedInv'
  BY <1>4 DEF PlaceLimitOrder, procVars, watcherVars
<1>5. ASSUME NEW o \in Orders, LimitReply(o) PROVE DecidedInv'
  BY <1>5 DEF LimitReply, procVars, watcherVars
<1>6. ASSUME NEW o \in Orders, RecordResult(o) PROVE DecidedInv'
  BY <1>6 DEF RecordResult, procVars, watcherVars
<1>7. ASSUME NEW o \in Orders, ArmStart(o) PROVE DecidedInv'
  BY SMTT(30), <1>7 DEF ArmStart, Spawn, FirstState, procVars, ShuttingDown
<1>8. ASSUME NEW o \in Orders, ArmInsert(o) PROVE DecidedInv'
  BY <1>8 DEF ArmInsert, procVars
<1>9. ASSUME NEW o \in Orders, CheckLimitFillAndHandoff(o) PROVE DecidedInv'
  BY <1>9 DEF CheckLimitFillAndHandoff, watcherRest, procVars, Goto, Decide
<1>10. ASSUME NEW o \in Orders, TtlElapsed(o) PROVE DecidedInv'
  BY <1>10 DEF TtlElapsed, watcherRest, procVars, Goto, Decide,
     HandleTimeout, CancelOrder
<1>11. ASSUME NEW o \in Orders, ExitSilently(o) PROVE DecidedInv'
  BY <1>11 DEF ExitSilently, watcherRest, procVars, Goto
<1>12. ASSUME NEW o \in Orders, ConfirmTimeout(o) PROVE DecidedInv'
  BY <1>12 DEF ConfirmTimeout, watcherRest, procVars, Goto, Decide,
     HandleTimeout, CancelOrder
<1>13. ASSUME NEW o \in Orders, FireMarketOrder(o) PROVE DecidedInv'
  BY <1>13 DEF FireMarketOrder, watcherRest, procVars, Goto
<1>14. ASSUME NEW o \in Orders, MarketFilled(o) PROVE DecidedInv'
  BY <1>14 DEF MarketFilled, watcherRest, procVars, Goto, Decide
<1>15. ASSUME NEW o \in Orders, MarketRejected(o) PROVE DecidedInv'
  BY <1>15 DEF MarketRejected, watcherRest, procVars, Goto, Decide
<1>16. ASSUME NEW o \in Orders, MarketError(o) PROVE DecidedInv'
  BY <1>16 DEF MarketError, watcherRest, procVars, Goto, Decide
<1>17. ASSUME NEW o \in Orders, NotifyExecutionCompleted(o) PROVE DecidedInv'
  BY <1>17 DEF NotifyExecutionCompleted, watcherRest, procVars, Goto
<1>18. ASSUME NEW o \in Orders, OnWatcherDone(o) PROVE DecidedInv'
  BY <1>18 DEF OnWatcherDone, watcherRest, procVars, Goto, ShuttingDown
<1>19. ASSUME NEW o \in Orders, DeleteRecord(o) PROVE DecidedInv'
  BY <1>19 DEF DeleteRecord, procVars, Goto
<1>20. ASSUME NEW o \in Orders, CheckNewsAndCancel(o) PROVE DecidedInv'
  BY <1>20 DEF CheckNewsAndCancel, watcherRest, procVars, Goto, Decide,
     CancelOrder
<1>21. ASSUME NEW o \in Orders, CheckHaltAndCancel(o) PROVE DecidedInv'
  BY <1>21 DEF CheckHaltAndCancel, watcherRest, procVars, Goto, Decide,
     CancelOrder
<1>22. ASSUME NEW o \in Orders, PriceInZone(o) PROVE DecidedInv'
  BY <1>22 DEF PriceInZone, watcherRest, procVars, Goto
<1>23. ASSUME NEW o \in Orders, Confirmed(o) PROVE DecidedInv'
  BY <1>23 DEF Confirmed, watcherRest, procVars, Goto
<1>24. ASSUME NEW o \in Orders, FireBlocked(o) PROVE DecidedInv'
  BY <1>24 DEF FireBlocked, watcherRest, procVars, Goto, Decide
<1>25. ASSUME NEW o \in Orders, Expire(o) PROVE DecidedInv'
  BY <1>25 DEF Expire, procVars, watcherVars
<1>26. ASSUME NEW o \in Orders, BrokerAccept(o) PROVE DecidedInv'
  BY <1>26 DEF BrokerAccept, brokerRest, procVars, watcherVars
<1>27. ASSUME NEW o \in Orders, BrokerRefuse(o) PROVE DecidedInv'
  BY <1>27 DEF BrokerRefuse, brokerRest, procVars, watcherVars
<1>28. ASSUME NEW o \in Orders, BrokerFill(o) PROVE DecidedInv'
  BY <1>28 DEF BrokerFill, brokerRest, procVars, watcherVars
<1>29. ASSUME NEW o \in Orders, CancelPendingOrder(o) PROVE DecidedInv'
  BY <1>29 DEF CancelPendingOrder, brokerRest, procVars, watcherVars,
     CancelOrder
<1>30. ASSUME NEW o \in Orders, RestoreDrop(o) PROVE DecidedInv'
  BY <1>30 DEF RestoreDrop, Decide
<1>31. ASSUME NEW o \in Orders, RestoreArm(o) PROVE DecidedInv'
  BY <1>31 DEF RestoreArm, Spawn, FirstState
<1>32. ASSUME NEW k \in Keys, GarbageCollect(k) PROVE DecidedInv'
  BY <1>32 DEF GarbageCollect, procVars, watcherVars
<1>33. CASE BeginShutdown
  BY <1>33 DEF BeginShutdown, watcherVars
<1>34. CASE CancelWatchers
  BY <1>34 DEF CancelWatchers, watcherVars
<1>35. CASE Exit
  BY <1>35 DEF Exit, Die
<1>36. CASE Boot
  BY <1>36 DEF Boot, watcherVars
<1>37. CASE Serve
  BY <1>37 DEF Serve, watcherVars
<1>38. CASE Sigterm
  BY <1>38 DEF Sigterm, watcherVars
<1>39. CASE Crash
  BY <1>39 DEF Crash, Die
<1>40. CASE UNCHANGED vars BY <1>40 DEF vars
<1> QED BY <1>1, <1>2, <1>3, <1>4, <1>5, <1>6, <1>7, <1>8, <1>9, <1>10, <1>11,
     <1>12, <1>13, <1>14, <1>15, <1>16, <1>17, <1>18, <1>19, <1>20,
     <1>21, <1>22, <1>23, <1>24, <1>25, <1>26, <1>27, <1>28, <1>29,
     <1>30, <1>31, <1>32, <1>33, <1>34, <1>35, <1>36, <1>37, <1>38,
     <1>39, <1>40
  DEF Next, Handler, WatcherGoesOn, WatcherIsTold, BrokerAnswers, Process

-----------------------------------------------------------------------------
(***************************************************************************)
(* Handlers run only before the flag is set, so Arm is never refused; Arm  *)
(* has its row before the handler answers; the restore loop holds rows of  *)
(* orders that have no goroutine yet.                                      *)
(***************************************************************************)
DurableInv ==
    /\ \A o \in Orders :
          /\ rpc[o] \in RpcBusy => proc \in {"up", "draining"}
          /\ rpc[o] \in {"arming", "armed", "done"} => outcome[o] # "none"
          /\ rpc[o] \in {"armed", "done"} /\ outcome[o] = "armed" => o \in recs
          /\ o \in toRestore => o \in recs /\ w[o] = "none"
          /\ proc = "down" => w[o] = "none"
    /\ proc # "booting" => toRestore = {}

\* Arm, onWatcherDone, shutdown and restore preserve DurableInv.
LEMMA DurableNext ==
    ASSUME "insertErr" \notin Faults
    PROVE  TypeOK /\ DecidedInv /\ DurableInv /\ [Next]_vars => DurableInv'
<1> SUFFICES ASSUME TypeOK, DecidedInv, DurableInv, [Next]_vars PROVE DurableInv' OBVIOUS
<1> USE ExecutionConfig DEF TypeOK, DecidedInv, DurableInv, RpcBusy
<1>1. ASSUME NEW o \in Orders, TryClaim(o) PROVE DurableInv'
  BY SMTT(30), <1>1 DEF TryClaim, procVars, watcherVars
<1>2. ASSUME NEW o \in Orders, LatencyBreach(o) PROVE DurableInv'
  BY <1>2 DEF LatencyBreach, procVars, watcherVars
<1>3. ASSUME NEW o \in Orders, FetchExisting(o) PROVE DurableInv'
  BY <1>3 DEF FetchExisting, procVars, watcherVars
<1>4. ASSUME NEW o \in Orders, PlaceLimitOrder(o) PROVE DurableInv'
  BY <1>4 DEF PlaceLimitOrder, procVars, watcherVars
<1>5. ASSUME NEW o \in Orders, LimitReply(o) PROVE DurableInv'
  BY SMTT(30), <1>5 DEF LimitReply, procVars, watcherVars
<1>6. ASSUME NEW o \in Orders, RecordResult(o) PROVE DurableInv'
  BY <1>6 DEF RecordResult, procVars, watcherVars
<1>7. ASSUME NEW o \in Orders, ArmStart(o) PROVE DurableInv'
  BY SMTT(30), <1>7 DEF ArmStart, Spawn, FirstState, procVars, ShuttingDown
<1>8. ASSUME NEW o \in Orders, ArmInsert(o) PROVE DurableInv'
  BY <1>8 DEF ArmInsert, procVars
<1>9. ASSUME NEW o \in Orders, CheckLimitFillAndHandoff(o) PROVE DurableInv'
  BY <1>9 DEF CheckLimitFillAndHandoff, watcherRest, procVars, Goto, Decide
<1>10. ASSUME NEW o \in Orders, TtlElapsed(o) PROVE DurableInv'
  BY <1>10 DEF TtlElapsed, watcherRest, procVars, Goto, Decide,
     HandleTimeout, CancelOrder
<1>11. ASSUME NEW o \in Orders, ExitSilently(o) PROVE DurableInv'
  BY <1>11 DEF ExitSilently, watcherRest, procVars, Goto
<1>12. ASSUME NEW o \in Orders, ConfirmTimeout(o) PROVE DurableInv'
  BY <1>12 DEF ConfirmTimeout, watcherRest, procVars, Goto, Decide,
     HandleTimeout, CancelOrder
<1>13. ASSUME NEW o \in Orders, FireMarketOrder(o) PROVE DurableInv'
  BY <1>13 DEF FireMarketOrder, watcherRest, procVars, Goto
<1>14. ASSUME NEW o \in Orders, MarketFilled(o) PROVE DurableInv'
  BY <1>14 DEF MarketFilled, watcherRest, procVars, Goto, Decide
<1>15. ASSUME NEW o \in Orders, MarketRejected(o) PROVE DurableInv'
  BY <1>15 DEF MarketRejected, watcherRest, procVars, Goto, Decide
<1>16. ASSUME NEW o \in Orders, MarketError(o) PROVE DurableInv'
  BY <1>16 DEF MarketError, watcherRest, procVars, Goto, Decide
<1>17. ASSUME NEW o \in Orders, NotifyExecutionCompleted(o) PROVE DurableInv'
  BY <1>17 DEF NotifyExecutionCompleted, watcherRest, procVars, Goto
<1>18. ASSUME NEW o \in Orders, OnWatcherDone(o) PROVE DurableInv'
  BY <1>18 DEF OnWatcherDone, watcherRest, procVars, Goto
<1>19. ASSUME NEW o \in Orders, DeleteRecord(o) PROVE DurableInv'
  BY <1>19 DEF DeleteRecord, procVars, Goto
<1>20. ASSUME NEW o \in Orders, CheckNewsAndCancel(o) PROVE DurableInv'
  BY <1>20 DEF CheckNewsAndCancel, watcherRest, procVars, Goto, Decide,
     CancelOrder
<1>21. ASSUME NEW o \in Orders, CheckHaltAndCancel(o) PROVE DurableInv'
  BY <1>21 DEF CheckHaltAndCancel, watcherRest, procVars, Goto, Decide,
     CancelOrder
<1>22. ASSUME NEW o \in Orders, PriceInZone(o) PROVE DurableInv'
  BY <1>22 DEF PriceInZone, watcherRest, procVars, Goto
<1>23. ASSUME NEW o \in Orders, Confirmed(o) PROVE DurableInv'
  BY <1>23 DEF Confirmed, watcherRest, procVars, Goto
<1>24. ASSUME NEW o \in Orders, FireBlocked(o) PROVE DurableInv'
  BY <1>24 DEF FireBlocked, watcherRest, procVars, Goto, Decide
<1>25. ASSUME NEW o \in Orders, Expire(o) PROVE DurableInv'
  BY <1>25 DEF Expire, procVars, watcherVars
<1>26. ASSUME NEW o \in Orders, BrokerAccept(o) PROVE DurableInv'
  BY <1>26 DEF BrokerAccept, brokerRest, procVars, watcherVars
<1>27. ASSUME NEW o \in Orders, BrokerRefuse(o) PROVE DurableInv'
  BY <1>27 DEF BrokerRefuse, brokerRest, procVars, watcherVars
<1>28. ASSUME NEW o \in Orders, BrokerFill(o) PROVE DurableInv'
  BY <1>28 DEF BrokerFill, brokerRest, procVars, watcherVars
<1>29. ASSUME NEW o \in Orders, CancelPendingOrder(o) PROVE DurableInv'
  BY <1>29 DEF CancelPendingOrder, brokerRest, procVars, watcherVars,
     CancelOrder
<1>30. ASSUME NEW o \in Orders, RestoreDrop(o) PROVE DurableInv'
  BY <1>30 DEF RestoreDrop, Decide
<1>31. ASSUME NEW o \in Orders, RestoreArm(o) PROVE DurableInv'
  BY <1>31 DEF RestoreArm, Spawn, FirstState
<1>32. ASSUME NEW k \in Keys, GarbageCollect(k) PROVE DurableInv'
  BY <1>32 DEF GarbageCollect, procVars, watcherVars
<1>33. CASE BeginShutdown
  BY <1>33 DEF BeginShutdown, watcherVars, RpcBusy
<1>34. CASE CancelWatchers
  BY <1>34 DEF CancelWatchers, watcherVars
<1>35. CASE Exit
  BY <1>35 DEF Exit, Die, RpcBusy
<1>36. CASE Boot
  BY <1>36 DEF Boot, watcherVars
<1>37. CASE Serve
  BY <1>37 DEF Serve, watcherVars
<1>38. CASE Sigterm
  BY <1>38 DEF Sigterm, watcherVars
<1>39. CASE Crash
  BY <1>39 DEF Crash, Die, RpcBusy
<1>40. CASE UNCHANGED vars BY <1>40 DEF vars
<1> QED BY <1>1, <1>2, <1>3, <1>4, <1>5, <1>6, <1>7, <1>8, <1>9, <1>10, <1>11,
     <1>12, <1>13, <1>14, <1>15, <1>16, <1>17, <1>18, <1>19, <1>20,
     <1>21, <1>22, <1>23, <1>24, <1>25, <1>26, <1>27, <1>28, <1>29,
     <1>30, <1>31, <1>32, <1>33, <1>34, <1>35, <1>36, <1>37, <1>38,
     <1>39, <1>40
  DEF Next, Handler, WatcherGoesOn, WatcherIsTold, BrokerAnswers, Process

-----------------------------------------------------------------------------
(***************************************************************************)
(* The order being armed under Manager.mu has a goroutine that cannot pass *)
(* onWatcherDone; at boot a row is watched or still to be visited.         *)
(***************************************************************************)
WatchedInv ==
    /\ mu # Free => w[mu] \notin {"none", "deleting"}
    /\ proc \in {"booting", "up", "draining"} =>
          \A o \in recs : w[o] # "none" \/ o \in toRestore
    /\ proc # "booting" => toRestore = {}

\* Arm, onWatcherDone and the restore loop preserve WatchedInv.
LEMMA WatchedNext ==
    ASSUME "deleteErr" \notin Faults, "bootSkip" \notin Faults
    PROVE  TypeOK /\ WatchedInv /\ [Next]_vars => WatchedInv'
<1> SUFFICES ASSUME TypeOK, WatchedInv, [Next]_vars PROVE WatchedInv' OBVIOUS
<1> USE ExecutionConfig DEF TypeOK, WatchedInv
<1>1. ASSUME NEW o \in Orders, TryClaim(o) PROVE WatchedInv'
  BY <1>1 DEF TryClaim, procVars, watcherVars
<1>2. ASSUME NEW o \in Orders, LatencyBreach(o) PROVE WatchedInv'
  BY <1>2 DEF LatencyBreach, procVars, watcherVars
<1>3. ASSUME NEW o \in Orders, FetchExisting(o) PROVE WatchedInv'
  BY <1>3 DEF FetchExisting, procVars, watcherVars
<1>4. ASSUME NEW o \in Orders, PlaceLimitOrder(o) PROVE WatchedInv'
  BY <1>4 DEF PlaceLimitOrder, procVars, watcherVars
<1>5. ASSUME NEW o \in Orders, LimitReply(o) PROVE WatchedInv'
  BY <1>5 DEF LimitReply, procVars, watcherVars
<1>6. ASSUME NEW o \in Orders, RecordResult(o) PROVE WatchedInv'
  BY <1>6 DEF RecordResult, procVars, watcherVars
<1>7. ASSUME NEW o \in Orders, ArmStart(o) PROVE WatchedInv'
  BY SMTT(30), <1>7 DEF ArmStart, Spawn, FirstState, procVars, ShuttingDown
<1>8. ASSUME NEW o \in Orders, ArmInsert(o) PROVE WatchedInv'
  BY <1>8 DEF ArmInsert, procVars
<1>9. ASSUME NEW o \in Orders, CheckLimitFillAndHandoff(o) PROVE WatchedInv'
  BY <1>9 DEF CheckLimitFillAndHandoff, watcherRest, procVars, Goto, Decide
<1>10. ASSUME NEW o \in Orders, TtlElapsed(o) PROVE WatchedInv'
  BY <1>10 DEF TtlElapsed, watcherRest, procVars, Goto, Decide,
     HandleTimeout, CancelOrder
<1>11. ASSUME NEW o \in Orders, ExitSilently(o) PROVE WatchedInv'
  BY <1>11 DEF ExitSilently, watcherRest, procVars, Goto
<1>12. ASSUME NEW o \in Orders, ConfirmTimeout(o) PROVE WatchedInv'
  BY <1>12 DEF ConfirmTimeout, watcherRest, procVars, Goto, Decide,
     HandleTimeout, CancelOrder
<1>13. ASSUME NEW o \in Orders, FireMarketOrder(o) PROVE WatchedInv'
  BY <1>13 DEF FireMarketOrder, watcherRest, procVars, Goto
<1>14. ASSUME NEW o \in Orders, MarketFilled(o) PROVE WatchedInv'
  BY <1>14 DEF MarketFilled, watcherRest, procVars, Goto, Decide
<1>15. ASSUME NEW o \in Orders, MarketRejected(o) PROVE WatchedInv'
  BY <1>15 DEF MarketRejected, watcherRest, procVars, Goto, Decide
<1>16. ASSUME NEW o \in Orders, MarketError(o) PROVE WatchedInv'
  BY <1>16 DEF MarketError, watcherRest, procVars, Goto, Decide
<1>17. ASSUME NEW o \in Orders, NotifyExecutionCompleted(o) PROVE WatchedInv'
  BY <1>17 DEF NotifyExecutionCompleted, watcherRest, procVars, Goto
<1>18. ASSUME NEW o \in Orders, OnWatcherDone(o) PROVE WatchedInv'
  BY <1>18 DEF OnWatcherDone, watcherRest, procVars, Goto, ShuttingDown
<1>19. ASSUME NEW o \in Orders, DeleteRecord(o) PROVE WatchedInv'
  BY <1>19 DEF DeleteRecord, procVars, Goto
<1>20. ASSUME NEW o \in Orders, CheckNewsAndCancel(o) PROVE WatchedInv'
  BY <1>20 DEF CheckNewsAndCancel, watcherRest, procVars, Goto, Decide,
     CancelOrder
<1>21. ASSUME NEW o \in Orders, CheckHaltAndCancel(o) PROVE WatchedInv'
  BY <1>21 DEF CheckHaltAndCancel, watcherRest, procVars, Goto, Decide,
     CancelOrder
<1>22. ASSUME NEW o \in Orders, PriceInZone(o) PROVE WatchedInv'
  BY <1>22 DEF PriceInZone, watcherRest, procVars, Goto
<1>23. ASSUME NEW o \in Orders, Confirmed(o) PROVE WatchedInv'
  BY <1>23 DEF Confirmed, watcherRest, procVars, Goto
<1>24. ASSUME NEW o \in Orders, FireBlocked(o) PROVE WatchedInv'
  BY <1>24 DEF FireBlocked, watcherRest, procVars, Goto, Decide
<1>25. ASSUME NEW o \in Orders, Expire(o) PROVE WatchedInv'
  BY <1>25 DEF Expire, procVars, watcherVars
<1>26. ASSUME NEW o \in Orders, BrokerAccept(o) PROVE WatchedInv'
  BY <1>26 DEF BrokerAccept, brokerRest, procVars, watcherVars
<1>27. ASSUME NEW o \in Orders, BrokerRefuse(o) PROVE WatchedInv'
  BY <1>27 DEF BrokerRefuse, brokerRest, procVars, watcherVars
<1>28. ASSUME NEW o \in Orders, BrokerFill(o) PROVE WatchedInv'
  BY <1>28 DEF BrokerFill, brokerRest, procVars, watcherVars
<1>29. ASSUME NEW o \in Orders, CancelPendingOrder(o) PROVE WatchedInv'
  BY <1>29 DEF CancelPendingOrder, brokerRest, procVars, watcherVars,
     CancelOrder
<1>30. ASSUME NEW o \in Orders, RestoreDrop(o) PROVE WatchedInv'
  BY <1>30 DEF RestoreDrop, Decide
<1>31. ASSUME NEW o \in Orders, RestoreArm(o) PROVE WatchedInv'
  BY <1>31 DEF RestoreArm, Spawn, FirstState
<1>32. ASSUME NEW k \in Keys, GarbageCollect(k) PROVE WatchedInv'
  BY <1>32 DEF GarbageCollect, procVars, watcherVars
<1>33. CASE BeginShutdown
  BY <1>33 DEF BeginShutdown, watcherVars
<1>34. CASE CancelWatchers
  BY <1>34 DEF CancelWatchers, watcherVars
<1>35. CASE Exit
  BY <1>35 DEF Exit, Die
<1>36. CASE Boot
  BY <1>36 DEF Boot, watcherVars
<1>37. CASE Serve
  BY <1>37 DEF Serve, watcherVars
<1>38. CASE Sigterm
  BY <1>38 DEF Sigterm, watcherVars
<1>39. CASE Crash
  BY <1>39 DEF Crash, Die
<1>40. CASE UNCHANGED vars BY <1>40 DEF vars
<1> QED BY <1>1, <1>2, <1>3, <1>4, <1>5, <1>6, <1>7, <1>8, <1>9, <1>10, <1>11,
     <1>12, <1>13, <1>14, <1>15, <1>16, <1>17, <1>18, <1>19, <1>20,
     <1>21, <1>22, <1>23, <1>24, <1>25, <1>26, <1>27, <1>28, <1>29,
     <1>30, <1>31, <1>32, <1>33, <1>34, <1>35, <1>36, <1>37, <1>38,
     <1>39, <1>40
  DEF Next, Handler, WatcherGoesOn, WatcherIsTold, BrokerAnswers, Process

-----------------------------------------------------------------------------
(***************************************************************************)
(* The claim of a LIMIT signal: whoever got past TryClaim, or has a broker *)
(* order, is alone with it, and the row that says so stays.                *)
(***************************************************************************)
Holds(o) ==
    \/ rpc[o] \in {"claimed", "placing", "placed", "recorded", "arming", "armed",
                   "done", "rejected", "failed"}
    \/ broker[o] # "none"

LimitInv ==
    /\ \A o \in Orders : Mode[o] = "LIMIT" =>
          /\ w[o] \notin {"poll", "confirm", "gate", "firing"}
          /\ fills[o] = IF broker[o] = "filled" THEN 1 ELSE 0
          /\ rpc[o] \in {"new", "fetching", "claimed", "duplicate"} => broker[o] = "none"
    /\ \A o \in Orders : Key[o] \in LimitKeys =>
          /\ Holds(o) \/ rpc[o] = "fetching" => idem[Key[o]] # "none"
          /\ Holds(o) => \A p \in Orders \ {o} : Key[p] = Key[o] => ~Holds(p)

\* Claims, retries, crashes and the broker preserve LimitInv.
LEMMA LimitNext ==
    ASSUME "idemErr" \notin Faults, "gc" \notin Faults
    PROVE  TypeOK /\ LimitInv /\ [Next]_vars => LimitInv'
<1> SUFFICES ASSUME TypeOK, LimitInv, [Next]_vars PROVE LimitInv' OBVIOUS
<1> USE ExecutionConfig DEF TypeOK, LimitInv, Holds, LimitKeys
<1>1. ASSUME NEW o \in Orders, TryClaim(o) PROVE LimitInv'
  BY SMTT(30), <1>1 DEF TryClaim, procVars, watcherVars
<1>2. ASSUME NEW o \in Orders, LatencyBreach(o) PROVE LimitInv'
  BY SMTT(30), <1>2 DEF LatencyBreach, procVars, watcherVars
<1>3. ASSUME NEW o \in Orders, FetchExisting(o) PROVE LimitInv'
  BY SMTT(30), <1>3 DEF FetchExisting, procVars, watcherVars
<1>4. ASSUME NEW o \in Orders, PlaceLimitOrder(o) PROVE LimitInv'
  BY SMTT(30), <1>4 DEF PlaceLimitOrder, procVars, watcherVars
<1>5. ASSUME NEW o \in Orders, LimitReply(o) PROVE LimitInv'
  BY SMTT(30), <1>5 DEF LimitReply, procVars, watcherVars
<1>6. ASSUME NEW o \in Orders, RecordResult(o) PROVE LimitInv'
  BY SMTT(30), <1>6 DEF RecordResult, procVars, watcherVars
<1>7. ASSUME NEW o \in Orders, ArmStart(o) PROVE LimitInv'
  BY SMTT(30), <1>7 DEF ArmStart, Spawn, FirstState, procVars, ShuttingDown
<1>8. ASSUME NEW o \in Orders, ArmInsert(o) PROVE LimitInv'
  BY SMTT(30), <1>8 DEF ArmInsert, procVars
<1>9. ASSUME NEW o \in Orders, CheckLimitFillAndHandoff(o) PROVE LimitInv'
  BY SMTT(30), <1>9 DEF CheckLimitFillAndHandoff, watcherRest, procVars, Goto, Decide
<1>10. ASSUME NEW o \in Orders, TtlElapsed(o) PROVE LimitInv'
  BY SMTT(30), <1>10 DEF TtlElapsed, watcherRest, procVars, Goto, Decide,
     HandleTimeout, CancelOrder
<1>11. ASSUME NEW o \in Orders, ExitSilently(o) PROVE LimitInv'
  BY <1>11 DEF ExitSilently, watcherRest, procVars, Goto
<1>12. ASSUME NEW o \in Orders, ConfirmTimeout(o) PROVE LimitInv'
  BY SMTT(30), <1>12 DEF ConfirmTimeout, watcherRest, procVars, Goto, Decide,
     HandleTimeout, CancelOrder
<1>13. ASSUME NEW o \in Orders, FireMarketOrder(o) PROVE LimitInv'
  BY SMTT(30), <1>13 DEF FireMarketOrder, watcherRest, procVars, Goto
<1>14. ASSUME NEW o \in Orders, MarketFilled(o) PROVE LimitInv'
  BY SMTT(30), <1>14 DEF MarketFilled, watcherRest, procVars, Goto, Decide
<1>15. ASSUME NEW o \in Orders, MarketRejected(o) PROVE LimitInv'
  BY SMTT(30), <1>15 DEF MarketRejected, watcherRest, procVars, Goto, Decide
<1>16. ASSUME NEW o \in Orders, MarketError(o) PROVE LimitInv'
  BY SMTT(30), <1>16 DEF MarketError, watcherRest, procVars, Goto, Decide, LimitKeys
<1>17. ASSUME NEW o \in Orders, NotifyExecutionCompleted(o) PROVE LimitInv'
  BY SMTT(30), <1>17 DEF NotifyExecutionCompleted, watcherRest, procVars, Goto
<1>18. ASSUME NEW o \in Orders, OnWatcherDone(o) PROVE LimitInv'
  BY SMTT(30), <1>18 DEF OnWatcherDone, watcherRest, procVars, Goto
<1>19. ASSUME NEW o \in Orders, DeleteRecord(o) PROVE LimitInv'
  BY SMTT(30), <1>19 DEF DeleteRecord, procVars, Goto
<1>20. ASSUME NEW o \in Orders, CheckNewsAndCancel(o) PROVE LimitInv'
  BY SMTT(30), <1>20 DEF CheckNewsAndCancel, watcherRest, procVars, Goto, Decide,
     CancelOrder
<1>21. ASSUME NEW o \in Orders, CheckHaltAndCancel(o) PROVE LimitInv'
  BY SMTT(30), <1>21 DEF CheckHaltAndCancel, watcherRest, procVars, Goto, Decide,
     CancelOrder
<1>22. ASSUME NEW o \in Orders, PriceInZone(o) PROVE LimitInv'
  BY <1>22 DEF PriceInZone, watcherRest, procVars, Goto
<1>23. ASSUME NEW o \in Orders, Confirmed(o) PROVE LimitInv'
  BY <1>23 DEF Confirmed, watcherRest, procVars, Goto
<1>24. ASSUME NEW o \in Orders, FireBlocked(o) PROVE LimitInv'
  BY <1>24 DEF FireBlocked, watcherRest, procVars, Goto, Decide
<1>25. ASSUME NEW o \in Orders, Expire(o) PROVE LimitInv'
  BY <1>25 DEF Expire, procVars, watcherVars
<1>26. ASSUME NEW o \in Orders, BrokerAccept(o) PROVE LimitInv'
  BY SMTT(30), <1>26 DEF BrokerAccept, brokerRest, procVars, watcherVars
<1>27. ASSUME NEW o \in Orders, BrokerRefuse(o) PROVE LimitInv'
  BY SMTT(30), <1>27 DEF BrokerRefuse, brokerRest, procVars, watcherVars
<1>28. ASSUME NEW o \in Orders, BrokerFill(o) PROVE LimitInv'
  BY SMTT(30), <1>28 DEF BrokerFill, brokerRest, procVars, watcherVars
<1>29. ASSUME NEW o \in Orders, CancelPendingOrder(o) PROVE LimitInv'
  BY SMTT(30), <1>29 DEF CancelPendingOrder, brokerRest, procVars, watcherVars,
     CancelOrder
<1>30. ASSUME NEW o \in Orders, RestoreDrop(o) PROVE LimitInv'
  BY <1>30 DEF RestoreDrop, Decide
<1>31. ASSUME NEW o \in Orders, RestoreArm(o) PROVE LimitInv'
  BY <1>31 DEF RestoreArm, Spawn, FirstState
<1>32. ASSUME NEW k \in Keys, GarbageCollect(k) PROVE LimitInv'
  BY <1>32 DEF GarbageCollect, procVars, watcherVars
<1>33. CASE BeginShutdown
  BY <1>33 DEF BeginShutdown, watcherVars
<1>34. CASE CancelWatchers
  BY <1>34 DEF CancelWatchers, watcherVars
<1>35. CASE Exit
  BY <1>35 DEF Exit, Die
<1>36. CASE Boot
  BY <1>36 DEF Boot, watcherVars
<1>37. CASE Serve
  BY <1>37 DEF Serve, watcherVars
<1>38. CASE Sigterm
  BY <1>38 DEF Sigterm, watcherVars
<1>39. CASE Crash
  BY <1>39 DEF Crash, Die
<1>40. CASE UNCHANGED vars BY <1>40 DEF vars
<1> QED BY <1>1, <1>2, <1>3, <1>4, <1>5, <1>6, <1>7, <1>8, <1>9, <1>10, <1>11,
     <1>12, <1>13, <1>14, <1>15, <1>16, <1>17, <1>18, <1>19, <1>20,
     <1>21, <1>22, <1>23, <1>24, <1>25, <1>26, <1>27, <1>28, <1>29,
     <1>30, <1>31, <1>32, <1>33, <1>34, <1>35, <1>36, <1>37, <1>38,
     <1>39, <1>40
  DEF Next, Handler, WatcherGoesOn, WatcherIsTold, BrokerAnswers, Process

-----------------------------------------------------------------------------
(***************************************************************************)
(* A LIMIT order at the broker.  A request still on its way was never      *)
(* armed; a watcher that has left its loop, other than because the         *)
(* process is going down, has seen the order filled or cancelled it.       *)
(***************************************************************************)
Unarmed(o) ==
    w[o] = "none" /\ mu # o /\ o \notin recs /\ o \notin toRestore

RestingInv ==
    \A o \in Orders :
       /\ rpc[o] \in RpcBusy => proc \in {"up", "draining"}
       /\ Mode[o] = "INSTANT" => broker[o] # "resting"
       /\ Mode[o] = "LIMIT" =>
             /\ w[o] \notin {"poll", "confirm", "gate", "firing"}
             /\ broker[o] = "sent" => rpc[o] \in {"placing", "failed", "lost"} /\ Unarmed(o)
             /\ rpc[o] \in {"new", "fetching", "claimed", "placing", "placed", "recorded"}
                   => Unarmed(o)
             /\ broker[o] = "resting" /\ o \notin expired =>
                   /\ w[o] \notin {"notify", "deleting"}
                   /\ w[o] = "exit" => ShuttingDown
                   /\ rpc[o] = "done" => o \in recs

\* Arm, the watcher's cancels, onWatcherDone and restore preserve RestingInv.
LEMMA RestingNext ==
    ASSUME "insertErr" \notin Faults, "cancelErr" \notin Faults,
           "lookalike" \notin Faults, "noToken" \notin Faults
    PROVE  TypeOK /\ RestingInv /\ [Next]_vars => RestingInv'
<1> SUFFICES ASSUME TypeOK, RestingInv, [Next]_vars PROVE RestingInv' OBVIOUS
<1> USE ExecutionConfig DEF TypeOK, RestingInv, Unarmed, RpcBusy, ShuttingDown
<1>1. ASSUME NEW o \in Orders, TryClaim(o) PROVE RestingInv'
  BY SMTT(30), <1>1 DEF TryClaim, procVars, watcherVars
<1>2. ASSUME NEW o \in Orders, LatencyBreach(o) PROVE RestingInv'
  BY SMTT(30), <1>2 DEF LatencyBreach, procVars, watcherVars
<1>3. ASSUME NEW o \in Orders, FetchExisting(o) PROVE RestingInv'
  BY SMTT(30), <1>3 DEF FetchExisting, procVars, watcherVars
<1>4. ASSUME NEW o \in Orders, PlaceLimitOrder(o) PROVE RestingInv'
  BY SMTT(30), <1>4 DEF PlaceLimitOrder, procVars, watcherVars
<1>5. ASSUME NEW o \in Orders, LimitReply(o) PROVE RestingInv'
  BY SMTT(30), <1>5 DEF LimitReply, procVars, watcherVars
<1>6. ASSUME NEW o \in Orders, RecordResult(o) PROVE RestingInv'
  BY SMTT(30), <1>6 DEF RecordResult, procVars, watcherVars
<1>7. ASSUME NEW o \in Orders, ArmStart(o) PROVE RestingInv'
  BY SMTT(30), <1>7 DEF ArmStart, Spawn, FirstState, procVars
<1>8. ASSUME NEW o \in Orders, ArmInsert(o) PROVE RestingInv'
  BY SMTT(30), <1>8 DEF ArmInsert, procVars
<1>9. ASSUME NEW o \in Orders, CheckLimitFillAndHandoff(o) PROVE RestingInv'
  BY SMTT(30), <1>9 DEF CheckLimitFillAndHandoff, watcherRest, procVars, Goto, Decide
<1>10. ASSUME NEW o \in Orders, TtlElapsed(o) PROVE RestingInv'
  BY SMTT(30), <1>10 DEF TtlElapsed, watcherRest, procVars, Goto, Decide,
     HandleTimeout, CancelOrder
<1>11. ASSUME NEW o \in Orders, ExitSilently(o) PROVE RestingInv'
  BY SMTT(30), <1>11 DEF ExitSilently, watcherRest, procVars, Goto
<1>12. ASSUME NEW o \in Orders, ConfirmTimeout(o) PROVE RestingInv'
  BY SMTT(30), <1>12 DEF ConfirmTimeout, watcherRest, procVars, Goto, Decide,
     HandleTimeout, CancelOrder
<1>13. ASSUME NEW o \in Orders, FireMarketOrder(o) PROVE RestingInv'
  BY SMTT(30), <1>13 DEF FireMarketOrder, watcherRest, procVars, Goto
<1>14. ASSUME NEW o \in Orders, MarketFilled(o) PROVE RestingInv'
  BY SMTT(30), <1>14 DEF MarketFilled, watcherRest, procVars, Goto, Decide
<1>15. ASSUME NEW o \in Orders, MarketRejected(o) PROVE RestingInv'
  BY SMTT(30), <1>15 DEF MarketRejected, watcherRest, procVars, Goto, Decide
<1>16. ASSUME NEW o \in Orders, MarketError(o) PROVE RestingInv'
  BY SMTT(30), <1>16 DEF MarketError, watcherRest, procVars, Goto, Decide
<1>17. ASSUME NEW o \in Orders, NotifyExecutionCompleted(o) PROVE RestingInv'
  BY SMTT(30), <1>17 DEF NotifyExecutionCompleted, watcherRest, procVars, Goto
<1>18. ASSUME NEW o \in Orders, OnWatcherDone(o) PROVE RestingInv'
  BY SMTT(30), <1>18 DEF OnWatcherDone, watcherRest, procVars, Goto
<1>19. ASSUME NEW o \in Orders, DeleteRecord(o) PROVE RestingInv'
  BY SMTT(30), <1>19 DEF DeleteRecord, procVars, Goto
<1>20. ASSUME NEW o \in Orders, CheckNewsAndCancel(o) PROVE RestingInv'
  BY SMTT(30), <1>20 DEF CheckNewsAndCancel, watcherRest, procVars, Goto, Decide,
     CancelOrder
<1>21. ASSUME NEW o \in Orders, CheckHaltAndCancel(o) PROVE RestingInv'
  BY SMTT(30), <1>21 DEF CheckHaltAndCancel, CtxDone, watcherRest, procVars, Goto, Decide,
     CancelOrder
<1>22. ASSUME NEW o \in Orders, PriceInZone(o) PROVE RestingInv'
  BY SMTT(30), <1>22 DEF PriceInZone, watcherRest, procVars, Goto
<1>23. ASSUME NEW o \in Orders, Confirmed(o) PROVE RestingInv'
  BY SMTT(30), <1>23 DEF Confirmed, watcherRest, procVars, Goto
<1>24. ASSUME NEW o \in Orders, FireBlocked(o) PROVE RestingInv'
  BY SMTT(30), <1>24 DEF FireBlocked, watcherRest, procVars, Goto, Decide
<1>25. ASSUME NEW o \in Orders, Expire(o) PROVE RestingInv'
  BY <1>25 DEF Expire, procVars, watcherVars
<1>26. ASSUME NEW o \in Orders, BrokerAccept(o) PROVE RestingInv'
  BY SMTT(30), <1>26 DEF BrokerAccept, brokerRest, procVars, watcherVars
<1>27. ASSUME NEW o \in Orders, BrokerRefuse(o) PROVE RestingInv'
  BY SMTT(30), <1>27 DEF BrokerRefuse, brokerRest, procVars, watcherVars
<1>28. ASSUME NEW o \in Orders, BrokerFill(o) PROVE RestingInv'
  BY SMTT(30), <1>28 DEF BrokerFill, brokerRest, procVars, watcherVars
<1>29. ASSUME NEW o \in Orders, CancelPendingOrder(o) PROVE RestingInv'
  BY SMTT(30), <1>29 DEF CancelPendingOrder, brokerRest, procVars, watcherVars,
     CancelOrder
<1>30. ASSUME NEW o \in Orders, RestoreDrop(o) PROVE RestingInv'
  BY SMTT(30), <1>30 DEF RestoreDrop, Decide
<1>31. ASSUME NEW o \in Orders, RestoreArm(o) PROVE RestingInv'
  BY SMTT(30), <1>31 DEF RestoreArm, Spawn, FirstState
<1>32. ASSUME NEW k \in Keys, GarbageCollect(k) PROVE RestingInv'
  BY <1>32 DEF GarbageCollect, procVars, watcherVars
<1>33. CASE BeginShutdown
  BY <1>33 DEF BeginShutdown, watcherVars
<1>34. CASE CancelWatchers
  BY <1>34 DEF CancelWatchers, watcherVars
<1>35. CASE Exit
  BY <1>35 DEF Exit, Die
<1>36. CASE Boot
  BY <1>36 DEF Boot, watcherVars
<1>37. CASE Serve
  BY <1>37 DEF Serve, watcherVars
<1>38. CASE Sigterm
  BY <1>38 DEF Sigterm, watcherVars
<1>39. CASE Crash
  BY <1>39 DEF Crash, Die
<1>40. CASE UNCHANGED vars BY <1>40 DEF vars
<1> QED BY <1>1, <1>2, <1>3, <1>4, <1>5, <1>6, <1>7, <1>8, <1>9, <1>10, <1>11,
     <1>12, <1>13, <1>14, <1>15, <1>16, <1>17, <1>18, <1>19, <1>20,
     <1>21, <1>22, <1>23, <1>24, <1>25, <1>26, <1>27, <1>28, <1>29,
     <1>30, <1>31, <1>32, <1>33, <1>34, <1>35, <1>36, <1>37, <1>38,
     <1>39, <1>40
  DEF Next, Handler, WatcherGoesOn, WatcherIsTold, BrokerAnswers, Process

-----------------------------------------------------------------------------
\* A row goes away in two places only: store.Delete of onWatcherDone, and the
\* restore loop of main.
LEMMA RowDeleted ==
    ASSUME [Next]_vars, NEW o \in Orders, o \in recs, o \notin recs'
    PROVE  w[o] = "deleting" \/ proc = "booting"
<1>1. ASSUME NEW q \in Orders, TryClaim(q) \/ LatencyBreach(q) \/ Handler(q) PROVE FALSE
  BY <1>1 DEF Handler, ArmInsert, ArmStart, FetchExisting, FirstState,
     LatencyBreach, LimitReply, PlaceLimitOrder, RecordResult, Spawn, TryClaim,
     procVars, watcherVars
<1>2. ASSUME NEW q \in Orders, WatcherGoesOn(q), ~DeleteRecord(q) PROVE FALSE
  BY <1>2 DEF WatcherGoesOn, CancelOrder, ConfirmTimeout,
     Decide, ExitSilently, FireMarketOrder, Goto,
     HandleTimeout, MarketError, MarketFilled, MarketRejected,
     NotifyExecutionCompleted, OnWatcherDone, TtlElapsed, procVars, watcherRest
<1>3. ASSUME NEW q \in Orders, DeleteRecord(q) PROVE w[o] = "deleting"
  BY <1>3 DEF DeleteRecord
<1>4. ASSUME NEW q \in Orders, WatcherIsTold(q) \/ Expire(q) PROVE FALSE
  BY <1>4 DEF WatcherIsTold, CancelOrder, CheckHaltAndCancel,
     CheckLimitFillAndHandoff, CheckNewsAndCancel, Confirmed, Decide, Expire, FireBlocked, Goto,
     PriceInZone, procVars, watcherRest, watcherVars
<1>5. ASSUME NEW q \in Orders,
             BrokerAnswers(q) \/ BrokerFill(q) \/ CancelPendingOrder(q)
      PROVE  FALSE
  BY <1>5 DEF BrokerAnswers, BrokerAccept, BrokerFill, BrokerRefuse,
     CancelOrder, CancelPendingOrder, brokerRest, procVars, watcherVars
<1>6. ASSUME NEW k \in Keys, GarbageCollect(k) PROVE FALSE
  BY <1>6 DEF GarbageCollect, watcherVars
<1>7. CASE Process \/ Sigterm \/ Crash
  BY <1>7 DEF Process, BeginShutdown, Boot, CancelWatchers, Crash, Decide,
     Die, Exit, FirstState, RestoreArm, RestoreDrop, Serve, Sigterm, Spawn,
     watcherVars
<1>8. CASE UNCHANGED vars BY <1>8 DEF vars
<1> QED BY <1>1, <1>2, <1>3, <1>4, <1>5, <1>6, <1>7, <1>8 DEF Next

\* The types of all tables, goroutines and handlers hold in every run.
THEOREM TypeCorrect == Spec => []TypeOK
BY TypeInit, TypeNext, PTL DEF Spec

\* onWatcherDone is never reached undecided outside a shutdown.
LEMMA DecidedInvariant == Spec => []DecidedInv
<1>1. Init => DecidedInv BY DEF Init, DecidedInv
<1> QED BY <1>1, TypeCorrect, DecidedNext, PTL DEF Spec

\* Under all faults: shutdown or crash at any moment never makes
\* onWatcherDone delete the row of an order that is still armed.
THEOREM RecordKept == Spec => RecordKeptWhileArmed
<1>1. DecidedInv /\ [Next]_vars =>
        [\A o \in Orders : o \in recs \ recs' => outcome[o] # "armed" \/ proc = "booting"]_vars
  BY RowDeleted DEF DecidedInv
<1> QED BY <1>1, DecidedInvariant, PTL DEF Spec, RecordKeptWhileArmed

\* Provided Insert succeeds: an order ExecuteTrade acknowledged has a row for
\* as long as its watcher is undecided, across shutdowns and crashes.
THEOREM Durable ==
    ASSUME "insertErr" \notin Faults
    PROVE  Spec => []AcknowledgedIsDurable
<1>1. Init => DurableInv BY DEF Init, DurableInv, RpcBusy
<1>2. DurableInv => AcknowledgedIsDurable BY DEF DurableInv,
   AcknowledgedIsDurable
<1> QED BY <1>1, <1>2, TypeCorrect, DecidedInvariant, DurableNext, PTL DEF
   Spec

\* Provided Delete succeeds and boot reads the rows: while the service takes
\* orders every row has a live goroutine, for any interleaving of Arm and
\* onWatcherDone.
THEOREM Watched ==
    ASSUME "deleteErr" \notin Faults, "bootSkip" \notin Faults
    PROVE  Spec => []RecordsAreWatched
<1>1. Init => WatchedInv BY DEF Init, WatchedInv
<1>2. WatchedInv => RecordsAreWatched BY DEF WatchedInv, RecordsAreWatched
<1> QED BY <1>1, <1>2, TypeCorrect, WatchedNext, PTL DEF Spec

\* Provided the idempotency store answers and keeps its rows: a LIMIT signal
\* makes one broker order and at most one position, for any number of
\* retries, lost replies, crashes and restarts.
THEOREM LimitOnce ==
    ASSUME "idemErr" \notin Faults, "gc" \notin Faults
    PROVE  Spec => []OneOrderPerLimitKey
<1>1. Init => LimitInv BY SMTT(30) DEF Init, LimitInv, Holds
<1>2. LimitInv => OneOrderPerLimitKey
  <2> SUFFICES ASSUME LimitInv, NEW o \in Orders, Key[o] \in LimitKeys
               PROVE  /\ fills[o] <= 1
                      /\ broker[o] # "none" => \A p \in Orders \ {o} :
                            Key[p] = Key[o] => broker[p] = "none"
    BY DEF OneOrderPerLimitKey
  <2>1. Mode[o] = "LIMIT" BY DEF LimitKeys
  <2> QED BY SMTT(30), <2>1 DEF LimitInv, Holds
<1> QED BY <1>1, <1>2, TypeCorrect, LimitNext, PTL DEF Spec

\* Provided Insert and the broker's cancel succeed, a position of another
\* order is not taken for this one's and rows carry their token: an
\* acknowledged order that rests at the broker before its timeout keeps its
\* row, whatever shutdowns, crashes and cancelled contexts do to the watcher.
THEOREM RestingKept ==
    ASSUME "insertErr" \notin Faults, "cancelErr" \notin Faults,
           "lookalike" \notin Faults, "noToken" \notin Faults
    PROVE  Spec => []RestingIsWatched
<1>1. Init => RestingInv BY SMTT(30), ExecutionConfig DEF Init, RestingInv, Unarmed, RpcBusy
<1>2. TypeOK /\ RestingInv => RestingIsWatched
  BY ExecutionConfig DEF TypeOK, RestingInv, RestingIsWatched
<1> QED BY <1>1, <1>2, TypeCorrect, RestingNext, PTL DEF Spec

=============================================================================
