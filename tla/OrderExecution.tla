--------------------------- MODULE OrderExecution ---------------------------
(***************************************************************************)
(* The life of an order in the execution service (Module B): the executor  *)
(* (executor/executor.go) with its idempotency table, the watcher manager  *)
(* and its goroutines (watcher/manager.go), the table of pending watchers, *)
(* and the process around them (cmd/execution/main.go): boot, restore of   *)
(* the pending watchers, orderly shutdown, crash.                          *)
(*                                                                         *)
(* An order is one ExecuteTrade request that passed validation and reached *)
(* Execute.  Requests with the same Key are the gateway's retries of one   *)
(* signal.  The broker and the two tables outlive the process; rpc, w and  *)
(* mu do not.                                                              *)
(***************************************************************************)
EXTENDS Naturals, FiniteSets

CONSTANTS
    Orders,        \* requests; one OrderID and one WatcherID each
    Keys,          \* idempotency keys
    Key,           \* the x-idempotency-key a request carries
    Mode,          \* "LIMIT" or "INSTANT"
    PreConfirmed,  \* INSTANT orders whose LTFConfirmed is set
    Faults,        \* the faults of FaultKinds this instance admits
    MaxStarts,     \* bound: how often the process is started
    Free           \* the manager's mutex is not held

FaultKinds ==
    { "crash",         \* the process dies between any two steps
      "shutdown",      \* SIGTERM
      "lostReply",     \* the broker acts on a request, the answer is lost
      "cancelErr",     \* CancelOrder fails although the order is resting
      "idemErr",       \* an error of the idempotency store
      "insertErr",     \* WatcherStore.Insert fails
      "deleteErr",     \* WatcherStore.Delete fails
      "noToken",       \* at boot, no service token for the order's user
      "bootSkip",      \* GetAllPending fails, or a global halt is engaged
      "gc",            \* an idempotency row outlives its 24 hours
      "longDowntime",  \* a TTL elapses while no watcher runs
      "slowExit",      \* Shutdown's 10 s deadline passes first
      "lookalike" }    \* the user has another position, same symbol and side

ASSUME ExecutionConfig ==
    /\ Key \in [Orders -> Keys]
    /\ Mode \in [Orders -> {"LIMIT", "INSTANT"}]
    /\ PreConfirmed \subseteq Orders
    /\ Faults \subseteq FaultKinds
    /\ MaxStarts \in Nat \ {0}
    /\ Free \notin Orders

VARIABLES
    proc,       \* the process: see Procs
    starts,     \* how often it was started
    rpc,        \* progress of the ExecuteTrade handler of each order
    idem,       \* execution_order_idempotency: status of a key's row
    broker,     \* the order's latest request as the broker has it
    fills,      \* how many positions the broker opened for the order
    w,          \* where the order's watcher goroutine is
    mu,         \* Manager.mu: the order being armed under it, or Free
    recs,       \* rows of execution_pending_watchers
    expired,    \* orders whose style timeout has passed
    outcome,    \* what the watcher decided last: see Outcomes
    restored,   \* orders rebuilt by restoreOrderFromRecord
    toRestore   \* rows the boot loop has still to visit

vars == <<proc, starts, rpc, idem, broker, fills, w, mu, recs, expired,
          outcome, restored, toRestore>>

Procs == {"booting", "up", "draining", "flagged", "cancelled", "down"}
RpcOver == {"done", "duplicate", "rejected", "failed", "lost"}
RpcBusy == {"fetching", "claimed", "placing", "placed", "recorded", "arming", "armed"}
RowStates == {"none", "CLAIMED", "PENDING", "WATCHING"}
BrokerStates == {"none", "sent", "resting", "filled", "cancelled", "rejected"}
WatcherStates == {"none", "limit", "poll", "confirm", "gate", "firing",
                  "notify", "exit", "deleting"}
Outcomes == {"none", "armed", "filled", "timeout", "news", "halted",
             "error", "rejected", "dropped"}

ShuttingDown == proc \in {"flagged", "cancelled"}

\* The watchers' context is done: m.cancel() was called, or the TTL passed.
CtxDone(o) == proc = "cancelled" \/ o \in expired

\* The manager's map: Arm inserts and spawns, onWatcherDone deletes.
Active == {o \in Orders : w[o] \notin {"none", "deleting"}}

Init ==
    /\ proc = "booting" /\ starts = 1
    /\ rpc = [o \in Orders |-> "new"]
    /\ idem = [k \in Keys |-> "none"]
    /\ broker = [o \in Orders |-> "none"]
    /\ fills = [o \in Orders |-> 0]
    /\ w = [o \in Orders |-> "none"]
    /\ mu = Free
    /\ recs = {} /\ expired = {} /\ restored = {} /\ toRestore = {}
    /\ outcome = [o \in Orders |-> "none"]

procVars == <<proc, starts, toRestore>>
watcherVars == <<w, mu, recs, outcome, restored>>

-----------------------------------------------------------------------------
(***************************************************************************)
(* The executor: placeLimit and handleInstant.                             *)
(***************************************************************************)

MutTryClaim(o) ==
    /\ proc = "up" /\ rpc[o] = "new"
    /\ idem' = [idem EXCEPT ![Key[o]] = "CLAIMED"]
    /\ rpc' = [rpc EXCEPT ![o] = "claimed"]
    /\ UNCHANGED <<procVars, broker, fills, watcherVars, expired>>

\* TryClaim, the INSERT ... ON CONFLICT DO NOTHING.  A store error is not
\* fatal: the executor goes on without a row.
TryClaim(o) ==
    /\ proc = "up" /\ rpc[o] = "new"
    /\ \/ /\ idem[Key[o]] = "none"
          /\ idem' = [idem EXCEPT ![Key[o]] = "CLAIMED"]
          /\ rpc' = [rpc EXCEPT ![o] = "claimed"]
       \/ /\ idem[Key[o]] # "none"
          /\ rpc' = [rpc EXCEPT ![o] = "fetching"]
          /\ UNCHANGED idem
       \/ /\ "idemErr" \in Faults
          /\ rpc' = [rpc EXCEPT ![o] = "claimed"]
          /\ UNCHANGED idem
    /\ UNCHANGED <<procVars, broker, fills, watcherVars, expired>>

\* TryClaim, the SELECT that follows a conflict.  A row deleted in between
\* is an error of fetch, and falls through like any other store error.
FetchExisting(o) ==
    /\ rpc[o] = "fetching"
    /\ rpc' = [rpc EXCEPT ![o] = IF idem[Key[o]] = "none" THEN "claimed" ELSE "duplicate"]
    /\ UNCHANGED <<procVars, idem, broker, fills, watcherVars, expired>>

PlaceLimitOrder(o) ==
    /\ rpc[o] = "claimed" /\ Mode[o] = "LIMIT"
    /\ rpc' = [rpc EXCEPT ![o] = "placing"]
    /\ broker' = [broker EXCEPT ![o] = "sent"]
    /\ UNCHANGED <<procVars, idem, fills, watcherVars, expired>>

\* PlaceLimitOrder returns.  An error leaves the claimed row as it is.
LimitReply(o) ==
    /\ rpc[o] = "placing"
    /\ \/ broker[o] \in {"resting", "filled"} /\ rpc' = [rpc EXCEPT ![o] = "placed"]
       \/ broker[o] = "rejected" /\ rpc' = [rpc EXCEPT ![o] = "rejected"]
       \/ /\ broker[o] = "none" \/ "lostReply" \in Faults
          /\ rpc' = [rpc EXCEPT ![o] = "failed"]
    /\ UNCHANGED <<procVars, idem, broker, fills, watcherVars, expired>>

\* The latency kill-switch: PlaceLimitOrder returned, but too late.  The
\* cancel runs under context.Background(), which carries no user, so
\* Bridge.stampInternalAuth refuses it before it is sent.
LatencyBreach(o) ==
    /\ rpc[o] = "placing" /\ broker[o] \in {"resting", "filled", "rejected"}
    /\ rpc' = [rpc EXCEPT ![o] = "rejected"]
    /\ UNCHANGED <<procVars, idem, broker, fills, watcherVars, expired>>

\* RecordResult is an UPDATE: it does nothing when the row is gone.
RecordResult(o) ==
    /\ \/ Mode[o] = "LIMIT" /\ rpc[o] = "placed" /\ rpc' = [rpc EXCEPT ![o] = "recorded"]
       \/ Mode[o] = "INSTANT" /\ rpc[o] = "armed" /\ rpc' = [rpc EXCEPT ![o] = "done"]
    /\ \/ idem' = [idem EXCEPT ![Key[o]] =
                     IF @ = "none" THEN @
                     ELSE IF Mode[o] = "LIMIT" THEN "PENDING" ELSE "WATCHING"]
       \/ "idemErr" \in Faults /\ UNCHANGED idem
    /\ UNCHANGED <<procVars, broker, fills, watcherVars, expired>>

-----------------------------------------------------------------------------
(***************************************************************************)
(* Manager.Arm.  It holds mu from the map insert to the end of Insert, but *)
(* the goroutine it spawns runs from the start.                            *)
(***************************************************************************)
FirstState(o) ==
    IF Mode[o] = "LIMIT" THEN "limit"
    ELSE IF o \in PreConfirmed THEN "gate" ELSE "poll"

\* The map insert and `go w.run`.
Spawn(o) ==
    /\ mu = Free
    /\ mu' = o
    /\ w' = [w EXCEPT ![o] = FirstState(o)]
    /\ outcome' = [outcome EXCEPT ![o] = "armed"]

\* Arm called by a handler.  A manager that is shutting down returns at
\* once, and the handler goes on as if the watcher had been armed.
ArmStart(o) ==
    /\ rpc[o] = IF Mode[o] = "LIMIT" THEN "recorded" ELSE "claimed"
    /\ IF ShuttingDown
       THEN /\ mu = Free
            /\ rpc' = [rpc EXCEPT ![o] = IF Mode[o] = "LIMIT" THEN "done" ELSE "armed"]
            /\ UNCHANGED <<mu, w, outcome>>
       ELSE Spawn(o) /\ rpc' = [rpc EXCEPT ![o] = "arming"]
    /\ UNCHANGED <<procVars, idem, broker, fills, recs, restored, expired>>

\* store.Insert (ON CONFLICT DO NOTHING) and the deferred Unlock.
ArmInsert(o) ==
    /\ mu = o
    /\ mu' = Free
    /\ \/ recs' = recs \union {o}
       \/ "insertErr" \in Faults /\ UNCHANGED recs
    /\ rpc' = [rpc EXCEPT ![o] =
                 IF @ # "arming" THEN @
                 ELSE IF Mode[o] = "LIMIT" THEN "done" ELSE "armed"]
    /\ UNCHANGED <<procVars, idem, broker, fills, w, outcome, restored, expired>>

-----------------------------------------------------------------------------
(***************************************************************************)
(* The broker behind mt5/bridge.go.  It places unconditionally and knows   *)
(* nothing of idempotency keys.                                            *)
(***************************************************************************)
brokerRest == <<procVars, rpc, idem, watcherVars, expired>>

\* A request arrives and is accepted.
BrokerAccept(o) ==
    /\ broker[o] = "sent"
    /\ IF Mode[o] = "LIMIT"
       THEN broker' = [broker EXCEPT ![o] = "resting"] /\ UNCHANGED fills
       ELSE /\ broker' = [broker EXCEPT ![o] = "filled"]
            /\ fills' = [fills EXCEPT ![o] = @ + 1]
    /\ UNCHANGED brokerRest

\* A request is refused, or never arrives.
BrokerRefuse(o) ==
    /\ broker[o] = "sent"
    /\ \E b \in {"rejected", "none"} : broker' = [broker EXCEPT ![o] = b]
    /\ UNCHANGED <<fills, brokerRest>>

BrokerFill(o) ==
    /\ broker[o] = "resting"
    /\ broker' = [broker EXCEPT ![o] = "filled"]
    /\ fills' = [fills EXCEPT ![o] = @ + 1]
    /\ UNCHANGED brokerRest

\* CancelOrder: only a resting order can be cancelled, and the call may
\* fail.  reach is FALSE when its context is already done.
CancelOrder(o, reach) ==
    \/ /\ reach /\ broker[o] = "resting"
       /\ broker' = [broker EXCEPT ![o] = "cancelled"]
    \/ /\ ~reach \/ broker[o] # "resting" \/ "cancelErr" \in Faults
       /\ UNCHANGED broker

\* The CancelPendingOrder RPC: it calls the broker and nothing else.
CancelPendingOrder(o) ==
    /\ proc = "up" /\ outcome[o] = "armed"
    /\ CancelOrder(o, TRUE)
    /\ UNCHANGED <<fills, brokerRest>>

-----------------------------------------------------------------------------
(***************************************************************************)
(* The watcher goroutine.                                                  *)
(***************************************************************************)
Goto(o, s) == w' = [w EXCEPT ![o] = s]
Decide(o, d) == outcome' = [outcome EXCEPT ![o] = d]
watcherRest == <<procVars, rpc, mu, recs, restored, expired, fills>>

\* runLimitTTL, fillTicker: a position is found and handed off.  Without
\* one that echoes the AnalysisID, matchFilledPosition takes the only one of
\* the symbol and direction, which need not be this order's; and it may find
\* none, so nothing makes this step happen.
CheckLimitFillAndHandoff(o) ==
    /\ w[o] = "limit" /\ ~CtxDone(o)
    /\ broker[o] = "filled" \/ "lookalike" \in Faults
    /\ Goto(o, "notify") /\ Decide(o, "filled")
    /\ UNCHANGED <<watcherRest, idem, broker>>

MutCheckNewsAndCancel(o) ==
    /\ w[o] = "limit" /\ ~CtxDone(o)
    /\ Goto(o, "exit") /\ Decide(o, "news")
    /\ UNCHANGED <<watcherRest, idem, broker>>

\* runLimitTTL, newsTicker: the gateway reports a lockout.  The watcher
\* stops whether or not its cancel succeeded.
CheckNewsAndCancel(o) ==
    /\ w[o] = "limit" /\ ~CtxDone(o)
    /\ CancelOrder(o, TRUE)
    /\ Goto(o, "exit") /\ Decide(o, "news")
    /\ UNCHANGED <<watcherRest, idem>>

\* The same for the kill switch.  Its verdict may come from the cache, so
\* this path is open even under a context that is done.
CheckHaltAndCancel(o) ==
    /\ w[o] = "limit"
    /\ CancelOrder(o, ~CtxDone(o))
    /\ Goto(o, "exit") /\ Decide(o, "halted")
    /\ UNCHANGED <<watcherRest, idem>>

\* handleTimeout: cancel a LIMIT order under a fresh context.
HandleTimeout(o) ==
    /\ IF Mode[o] = "LIMIT" THEN CancelOrder(o, TRUE) ELSE UNCHANGED broker
    /\ Goto(o, "exit") /\ Decide(o, "timeout")
    /\ UNCHANGED <<watcherRest, idem>>

MutTtlElapsed(o) ==
    /\ w[o] = "limit" /\ o \in expired
    /\ HandleTimeout(o)

\* ctx.Done() in the two run loops, ctx.Err() = DeadlineExceeded.
TtlElapsed(o) ==
    /\ w[o] \in {"limit", "poll"} /\ o \in expired
    /\ HandleTimeout(o)

MutExitSilently(o) ==
    /\ w[o] = "poll" /\ proc = "cancelled" /\ o \notin expired
    /\ Goto(o, "exit")
    /\ UNCHANGED <<watcherRest, idem, broker, outcome>>

\* ctx.Done() in the two run loops, any other error.
ExitSilently(o) ==
    /\ w[o] \in {"limit", "poll"} /\ proc = "cancelled" /\ o \notin expired
    /\ Goto(o, "exit")
    /\ UNCHANGED <<watcherRest, idem, broker, outcome>>

\* checkAndExecute: the cached tick is in the entry zone.
PriceInZone(o) ==
    /\ w[o] = "poll"
    /\ Goto(o, "confirm")
    /\ UNCHANGED <<watcherRest, idem, broker, outcome>>

\* tryConfirmAndFire: the gateway confirms the setup.
Confirmed(o) ==
    /\ w[o] = "confirm" /\ ~CtxDone(o)
    /\ Goto(o, "gate")
    /\ UNCHANGED <<watcherRest, idem, broker, outcome>>

\* ctx.Done() in confirmAndExecute: a timeout, whatever ended the context.
ConfirmTimeout(o) ==
    /\ w[o] = "confirm" /\ CtxDone(o)
    /\ HandleTimeout(o)

\* fireMarketOrder, the kill-switch gate.
FireBlocked(o) ==
    /\ w[o] = "gate"
    /\ Goto(o, "exit") /\ Decide(o, "halted")
    /\ UNCHANGED <<watcherRest, idem, broker>>

\* fireMarketOrder past the gate: the request goes out.
FireMarketOrder(o) ==
    /\ w[o] = "gate" /\ ~CtxDone(o)
    /\ Goto(o, "firing")
    /\ broker' = [broker EXCEPT ![o] = "sent"]
    /\ UNCHANGED <<watcherRest, idem, outcome>>

MarketFilled(o) ==
    /\ w[o] = "firing" /\ broker[o] = "filled"
    /\ Goto(o, "notify") /\ Decide(o, "filled")
    /\ UNCHANGED <<watcherRest, idem, broker>>

MarketRejected(o) ==
    /\ w[o] = "firing" /\ broker[o] = "rejected"
    /\ Goto(o, "exit") /\ Decide(o, "rejected")
    /\ UNCHANGED <<watcherRest, idem, broker>>

\* PlaceMarketOrder returned an error: the request did not arrive, its
\* answer was lost, or the context is done, before it was sent or after.
\* The idempotency row is deleted so that the setup can be retried: under
\* the watcher's context, and under the key of the order in memory, which a
\* restored order does not have.
MarketError(o) ==
    /\ \/ w[o] = "firing" /\ (broker[o] = "none" \/ "lostReply" \in Faults)
       \/ w[o] \in {"gate", "firing"} /\ CtxDone(o)
    /\ Goto(o, "exit") /\ Decide(o, "error")
    /\ \/ /\ idem' = [idem EXCEPT ![Key[o]] =
                        IF CtxDone(o) \/ o \in restored THEN @ ELSE "none"]
       \/ "idemErr" \in Faults /\ UNCHANGED idem
    /\ UNCHANGED <<watcherRest, broker>>

\* NotifyExecutionCompleted returns; an error is logged and ignored.
NotifyExecutionCompleted(o) ==
    /\ w[o] = "notify"
    /\ Goto(o, "exit")
    /\ UNCHANGED <<watcherRest, idem, broker, outcome>>

MutOnWatcherDone(o) ==
    /\ w[o] = "exit" /\ mu = Free
    /\ Goto(o, "deleting")
    /\ UNCHANGED <<watcherRest, idem, broker, outcome>>

MutUnlockedDone(o) ==
    /\ w[o] = "exit"
    /\ Goto(o, IF ShuttingDown THEN "none" ELSE "deleting")
    /\ UNCHANGED <<watcherRest, idem, broker, outcome>>

\* onWatcherDone, the critical section: leave the map, read shuttingDown.
OnWatcherDone(o) ==
    /\ w[o] = "exit" /\ mu = Free
    /\ Goto(o, IF ShuttingDown THEN "none" ELSE "deleting")
    /\ UNCHANGED <<watcherRest, idem, broker, outcome>>

\* onWatcherDone, store.Delete.
DeleteRecord(o) ==
    /\ w[o] = "deleting"
    /\ Goto(o, "none")
    /\ \/ recs' = recs \ {o}
       \/ "deleteErr" \in Faults /\ UNCHANGED recs
    /\ UNCHANGED <<procVars, rpc, mu, restored, expired, fills, idem, broker, outcome>>

\* The order's style timeout passes.  A context that was cancelled first
\* keeps its error, so nothing expires under "cancelled".
Expire(o) ==
    /\ o \notin expired /\ outcome[o] # "none" /\ proc # "cancelled"
    /\ w[o] # "none" \/ "longDowntime" \in Faults
    /\ expired' = expired \union {o}
    /\ UNCHANGED <<procVars, rpc, idem, broker, fills, watcherVars>>

GarbageCollect(k) ==
    /\ "gc" \in Faults /\ proc = "up" /\ idem[k] # "none"
    /\ idem' = [idem EXCEPT ![k] = "none"]
    /\ UNCHANGED <<procVars, rpc, broker, fills, watcherVars, expired>>

-----------------------------------------------------------------------------
(***************************************************************************)
(* The process: main.go and Manager.Shutdown.                              *)
(***************************************************************************)
Sigterm ==
    /\ "shutdown" \in Faults /\ proc = "up" /\ starts < MaxStarts
    /\ proc' = "draining"
    /\ UNCHANGED <<starts, toRestore, rpc, idem, broker, fills, watcherVars, expired>>

MutBeginShutdown ==
    /\ proc = "draining" /\ mu = Free
    /\ proc' = "flagged"
    /\ UNCHANGED <<starts, toRestore, rpc, idem, broker, fills, watcherVars, expired>>

\* grpcServer.GracefulStop() returns when no handler is running; Shutdown
\* then sets the flag under mu.
BeginShutdown ==
    /\ proc = "draining" /\ mu = Free
    /\ \A o \in Orders : rpc[o] \notin RpcBusy
    /\ proc' = "flagged"
    /\ UNCHANGED <<starts, toRestore, rpc, idem, broker, fills, watcherVars, expired>>

\* m.cancel()
CancelWatchers ==
    /\ proc = "flagged"
    /\ proc' = "cancelled"
    /\ UNCHANGED <<starts, toRestore, rpc, idem, broker, fills, watcherVars, expired>>

\* Whatever ends the process: goroutines and handlers are gone.
Die ==
    /\ proc' = "down"
    /\ rpc' = [o \in Orders |-> IF rpc[o] \in RpcBusy THEN "lost" ELSE rpc[o]]
    /\ w' = [o \in Orders |-> "none"]
    /\ mu' = Free
    /\ toRestore' = {}
    /\ UNCHANGED <<starts, idem, broker, fills, recs, outcome, restored, expired>>

\* Shutdown has seen an empty map, or its deadline, and main returns.
Exit ==
    /\ proc = "cancelled"
    /\ Active = {} \/ "slowExit" \in Faults
    /\ Die

Crash ==
    /\ "crash" \in Faults /\ proc # "down" /\ starts < MaxStarts
    /\ Die

\* main: connect, read the pending rows.  A request in flight when the
\* process ended has arrived or been lost by then.
Boot ==
    /\ proc = "down"
    /\ \A o \in Orders : broker[o] # "sent"
    /\ proc' = "booting"
    /\ starts' = starts + 1
    /\ \/ toRestore' = recs
       \/ "bootSkip" \in Faults /\ toRestore' = {}
    /\ UNCHANGED <<rpc, idem, broker, fills, watcherVars, expired>>

\* One turn of the restore loop: a row past its timeout, or without a
\* service token, is deleted and the broker is not told.
RestoreDrop(o) ==
    /\ proc = "booting" /\ mu = Free /\ o \in toRestore
    /\ o \in expired \/ "noToken" \in Faults
    /\ toRestore' = toRestore \ {o}
    /\ \/ recs' = recs \ {o}
       \/ "deleteErr" \in Faults /\ UNCHANGED recs
    /\ Decide(o, "dropped")
    /\ UNCHANGED <<proc, starts, rpc, idem, broker, fills, w, mu, restored, expired>>

\* The other turn: restoreOrderFromRecord and Arm.
RestoreArm(o) ==
    /\ proc = "booting" /\ o \in toRestore /\ o \notin expired
    /\ toRestore' = toRestore \ {o}
    /\ Spawn(o)
    /\ restored' = restored \union {o}
    /\ UNCHANGED <<proc, starts, rpc, idem, broker, fills, recs, expired>>

\* The listener opens once the loop is through.
Serve ==
    /\ proc = "booting" /\ toRestore = {} /\ mu = Free
    /\ proc' = "up"
    /\ UNCHANGED <<starts, toRestore, rpc, idem, broker, fills, watcherVars, expired>>

-----------------------------------------------------------------------------
Handler(o) ==
    \/ FetchExisting(o) \/ PlaceLimitOrder(o) \/ LimitReply(o)
    \/ RecordResult(o) \/ ArmStart(o) \/ ArmInsert(o)

\* What a watcher does without anybody's help ...
WatcherGoesOn(o) ==
    \/ TtlElapsed(o) \/ ExitSilently(o)
    \/ ConfirmTimeout(o) \/ FireMarketOrder(o)
    \/ MarketFilled(o) \/ MarketRejected(o) \/ MarketError(o)
    \/ NotifyExecutionCompleted(o) \/ OnWatcherDone(o) \/ DeleteRecord(o)

\* ... and what the market, the gateway or the kill switch must bring about.
WatcherIsTold(o) ==
    \/ CheckLimitFillAndHandoff(o)
    \/ CheckNewsAndCancel(o) \/ CheckHaltAndCancel(o)
    \/ PriceInZone(o) \/ Confirmed(o) \/ FireBlocked(o)

Process ==
    \/ BeginShutdown \/ CancelWatchers \/ Exit \/ Boot \/ Serve
    \/ \E o \in Orders : RestoreDrop(o) \/ RestoreArm(o)

BrokerAnswers(o) == BrokerAccept(o) \/ BrokerRefuse(o)

Next ==
    \/ \E o \in Orders :
          \/ TryClaim(o) \/ LatencyBreach(o) \/ Handler(o)
          \/ WatcherGoesOn(o) \/ WatcherIsTold(o) \/ Expire(o)
          \/ BrokerAnswers(o) \/ BrokerFill(o) \/ CancelPendingOrder(o)
    \/ \E k \in Keys : GarbageCollect(k)
    \/ Process \/ Sigterm \/ Crash

Spec == Init /\ [][Next]_vars

\* Goroutines and handlers that can go on do, the broker answers or the
\* call times out, a timeout passes, a process that ended is started again.
\* Nobody has to submit, to cancel, to confirm, to fill or to engage a halt.
Fairness ==
    /\ WF_vars(Process)
    /\ \A o \in Orders :
          /\ WF_vars(Handler(o))
          /\ WF_vars(WatcherGoesOn(o))
          /\ WF_vars(Expire(o))
          /\ WF_vars(BrokerAnswers(o))

FairSpec == Spec /\ Fairness

-----------------------------------------------------------------------------
\* Handlers, watchers, tables and broker stay within the states the code
\* gives them; a table row only ever has a status the executor writes.
TypeOK ==
    /\ proc \in Procs
    /\ starts \in Nat
    /\ rpc \in [Orders -> RpcOver \union RpcBusy \union {"new"}]
    /\ idem \in [Keys -> RowStates]
    /\ broker \in [Orders -> BrokerStates]
    /\ fills \in [Orders -> Nat]
    /\ w \in [Orders -> WatcherStates]
    /\ mu \in Orders \union {Free}
    /\ recs \subseteq Orders
    /\ expired \subseteq Orders
    /\ outcome \in [Orders -> Outcomes]
    /\ restored \subseteq Orders
    /\ toRestore \subseteq Orders

\* A row of execution_pending_watchers goes away only once its watcher has
\* come to a decision, or at boot: shutting down, at any moment, never loses
\* an armed order ("do NOT delete the database record so it can be restored
\* on startup", onWatcherDone).  The flag is set before the cancel for this.
RecordKeptWhileArmed ==
    [][\A o \in Orders :
          o \in recs \ recs' => outcome[o] # "armed" \/ proc = "booting"]_vars

\* An order answered with WATCHING or PENDING has had a watcher, and while
\* that watcher is undecided the order has its row, so a crash or a restart
\* cannot silently drop it (Arm, BeginShutdown, onWatcherDone).
AcknowledgedIsDurable ==
    \A o \in Orders : rpc[o] = "done" =>
        /\ outcome[o] # "none"
        /\ outcome[o] = "armed" => o \in recs

\* While the service takes orders, every row has a live watcher or is being
\* deleted: Arm inserts the row under the mutex that onWatcherDone needs, so
\* a watcher that finishes at once cannot delete its row before it exists.
RecordsAreWatched ==
    proc \in {"up", "draining"} => \A o \in recs : w[o] # "none"

\* An acknowledged LIMIT order that rests at the broker within its TTL has
\* its row, so some watcher is there, or will be after the restart, to take
\* it back.  (Past the TTL the restore loop may have dropped the row; and it
\* takes cancels that succeed and no lookalike position, see those faults.)
RestingIsWatched ==
    \A o \in Orders \ expired :
        rpc[o] = "done" /\ broker[o] = "resting" => o \in recs

LimitKeys == {k \in Keys : \A o \in Orders : Key[o] = k => Mode[o] = "LIMIT"}

\* One LIMIT signal makes one broker order and at most one position, however
\* often the gateway repeats it and whatever is lost or restarted in between:
\* the claim is durable before the request is sent and is never given back.
OneOrderPerLimitKey ==
    \A o \in Orders : Key[o] \in LimitKeys =>
        /\ fills[o] <= 1
        /\ broker[o] # "none" =>
              \A p \in Orders \ {o} : Key[p] = Key[o] => broker[p] = "none"

\* Positions opened, orders resting and requests on their way.
Exposed(o) == fills[o] > 0 \/ broker[o] \in {"sent", "resting"}

\* The same of any signal, INSTANT ones included: one order of a key at most
\* exposes the account, and it is filled at most once.
OneExposurePerKey ==
    \A o \in Orders :
        /\ fills[o] <= 1
        /\ \A p \in Orders \ {o} : Key[p] = Key[o] => ~(Exposed(o) /\ Exposed(p))

\* Every row of execution_pending_watchers is deleted in the end, by its
\* watcher (fill, cancel, TTL) or by the restore loop, across restarts.
RecordsDrain == \A o \in Orders : o \in recs ~> o \notin recs

\* SIGTERM ends the process without the 10 s deadline of Shutdown: the RPCs
\* finish, and every watcher leaves the map once its context is cancelled.
ShutdownCompletes == proc = "draining" ~> proc = "down"

-----------------------------------------------------------------------------
(***************************************************************************)
(* What the comments say and the code does not do.  Each of these has a    *)
(* counterexample.                                                         *)
(***************************************************************************)

\* "Same order cannot execute twice" (StatusDuplicate, constants.go): the
\* broker opens at most one position for an order.
SameOrderOnce == \A o \in Orders : fills[o] <= 1

\* "Best-effort cancel so the slow-but-accepted order does not linger as a
\* real exposure on the broker" (placeLimit): with a broker that honours
\* cancels, an order reported as rejected does not rest.
RejectedDoesNotRest == \A o \in Orders : rpc[o] = "rejected" => broker[o] # "resting"

\* "cancels the broker order when the timeout elapses" (Arm), also when it
\* elapses while the service is down: the restore loop forgets no order that
\* still rests.
TtlCancelsAcrossRestart ==
    [][\A o \in Orders :
          proc = "booting" /\ o \in recs \ recs' => broker[o] # "resting"]_vars

=============================================================================
