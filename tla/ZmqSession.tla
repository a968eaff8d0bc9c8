----------------------------- MODULE ZmqSession -----------------------------
(***************************************************************************)
(* One ZmqClient of the engine: calls of several asyncio tasks that share  *)
(* a trading and a candles REQ socket to the MT5 Expert Advisor (EA), the  *)
(* outbound token bucket and the in-flight gate in front of the trading    *)
(* socket, the PING and EA_IDENTITY exchanges a fresh socket starts with,  *)
(* timeouts, cancellation and shutdown.                                    *)
(*                                                                         *)
(* A REQ socket alternates send and recv.  A socket that was sent to and   *)
(* not received from is useless (the next send fails) and, worse, may hand *)
(* the late reply to the next caller.                                      *)
(***************************************************************************)
EXTENDS Integers, Sequences, FiniteSets

CONSTANTS
  Calls,         \* tasks that call the client, one call at a time each
  CommandsOf,    \* the commands each of them sends
  Builds,        \* the EAs it may meet: the build, and whether the token is right
  MaxInflight,   \* inflight_limit
  Burst,         \* burst_size of the outbound limiter
  MaxTroubles    \* cancellations, EA restarts and account switches, in all

ASSUME BoundsAssumption ==
  MaxInflight \in Nat \ {0} /\ Burst \in Nat \ {0} /\ MaxTroubles \in Nat

\* "none" stands for the absence of a call.
ASSUME CallsAssumption == IsFiniteSet(Calls) /\ "none" \notin Calls

ASSUME CommandsAssumption ==
  CommandsOf \in [Calls -> SUBSET {"PING", "HEALTH", "EA_CLOCK", "EA_IDENTITY",
                                  "ORDER_SEND", "change", "read", "CANDLES"}]

VARIABLES
  call,      \* the calls: where they are, their command, its effect, its result
  sock,      \* the two sockets: initialized, and whose reply it waits for
  queue,     \* the FIFO asyncio locks of the sockets; the head holds the lock
  verified,  \* _identity_verified
  permits,   \* what is left in the in-flight gate
  tokens,    \* what is left in the outbound limiter's bucket
  ea,        \* the EA: running, authenticated (one flag for all sockets), its account
  ctx,       \* the ZeroMQ context and the progress of shutdown
  checked,   \* (history) the EA's identity was asked for on this trading socket
  left       \* what remains of MaxTroubles

vars == <<call, sock, queue, verified, permits, tokens, ea, ctx, checked, left>>

None == "none"
Socks == {"trading", "candles"}
\* "read" stands for SYMBOL_INFO, ACCOUNT_INFO, POSITIONS and the like and for
\* TICK_PRICE (whose tick may be stale), "change" for ORDER_CANCEL, POSITION_MODIFY
\* and the two POSITION_CLOSEs.
Commands == {"PING", "HEALTH", "EA_CLOCK", "EA_IDENTITY", "ORDER_SEND", "change", "read", "CANDLES"}
Effects == {"ORDER_SEND", "change"}
\* The stages of a call.  In a stage of Talking a message of the call is on its
\* socket and the reply has not been received.
Talking == {"ping", "ident", "main", "reping", "retry"}
Stages == {"idle", "limit", "gate", "lock"} \cup Talking
Replies == {"ok", "error", "noauth", "match", "mismatch", "refused", "empty", "stale"}
Results == {"ok", "error", "mismatch", "timeout", "throttled", "full", "cancelled"}

SockOf(cmd) == IF cmd = "CANDLES" THEN "candles" ELSE "trading"
Holder(s) == IF queue[s] = <<>> THEN None ELSE Head(queue[s])
\* The queue of a lock after a waiter (or the holder) has left it.
Without(q, c) ==
  IF \E i \in 1..Len(q) : q[i] = c
  THEN LET k == CHOOSE i \in 1..Len(q) : q[i] = c
       IN  [i \in 1..(Len(q) - 1) |-> IF i < k THEN q[i] ELSE q[i + 1]]
  ELSE q
\* The event loop is blocked for good inside ctx.term().
Stuck == ctx = "stuck"

Idle == [at |-> "idle", cmd |-> "PING", reply |-> None, done |-> 0, res |-> None]
\* A call that ended: what an order or a change did is remembered for EffectOnce.
Ended(c, res, done) ==
  IF call[c].cmd \in Effects THEN [Idle EXCEPT !.cmd = call[c].cmd, !.res = res, !.done = done] ELSE Idle

Init ==
  /\ call = [c \in Calls |-> Idle]
  /\ sock = [s \in Socks |-> [init |-> FALSE, out |-> None]]
  /\ queue = [s \in Socks |-> <<>>]
  /\ verified = FALSE /\ checked = FALSE
  /\ permits = MaxInflight /\ tokens = Burst
  /\ \E b \in Builds, a \in {"expected", "other"} :
       ea = [up |-> TRUE, auth |-> FALSE, account |-> a, token |-> b.token, build |-> b.build]
  /\ ctx = "open"
  /\ left = MaxTroubles

-----------------------------------------------------------------------------
(* Admission: the limiter, then the gate, then the lock.                    *)

\* A method of the client is called: trading-socket commands go through the
\* limiter, CANDLES straight to the lock of its own socket.
Request(c, cmd) ==
  /\ call[c].at = "idle"
  /\ call' = [call EXCEPT ![c] = [at |-> IF cmd = "CANDLES" THEN "lock" ELSE "limit",
                                  cmd |-> cmd, reply |-> None, done |-> 0, res |-> None]]
  /\ queue' = IF cmd = "CANDLES" THEN [queue EXCEPT !["candles"] = Append(@, c)] ELSE queue
  /\ UNCHANGED <<sock, verified, permits, tokens, ea, ctx, checked, left>>

\* The call returns or raises before it is in the in-flight gate.
Refuse(c, res) ==
  /\ call' = [call EXCEPT ![c] = Ended(c, res, 0)]
  /\ UNCHANGED <<sock, queue, verified, permits, tokens, ea, ctx, checked, left>>

\* What _refill_locked may leave in the bucket, for the time that has passed: never
\* more than burst.
Refilled == tokens..Burst

\* acquire: refill, then a token is taken, or the deadline passes while there is none.
Acquire(c) ==
  /\ call[c].at = "limit"
  /\ \E t \in Refilled :
       \/ /\ t > 0
          /\ tokens' = t - 1
          /\ call' = [call EXCEPT ![c].at = "gate"]
          /\ UNCHANGED <<sock, queue, verified, permits, ea, ctx, checked, left>>
       \/ t = 0 /\ Refuse(c, "throttled")

\* _request: a permit of the gate, or ProviderTimeoutError at its deadline.
EnterGate(c) ==
  /\ call[c].at = "gate"
  /\ \/ /\ permits > 0
        /\ permits' = permits - 1
        /\ call' = [call EXCEPT ![c].at = "lock"]
        /\ queue' = [queue EXCEPT !["trading"] = Append(@, c)]
        /\ UNCHANGED <<sock, verified, tokens, ea, ctx, checked, left>>
     \/ permits = 0 /\ Refuse(c, "full")

-----------------------------------------------------------------------------
(* Under the lock of the socket.                                            *)

\* _connect_sync and _connect_candles_sync: a socket that is not initialized is
\* created, then the first message is sent: PING on a fresh socket, unless the
\* command is itself a PING or HEALTH.
Connect(c) ==
  LET s == SockOf(call[c].cmd)
      fresh == ~sock[s].init IN
  /\ call[c].at = "lock" /\ Holder(s) = c
  /\ sock' = [sock EXCEPT ![s] = [init |-> TRUE, out |-> c]]
  /\ call' = [call EXCEPT ![c].at = IF fresh /\ call[c].cmd \notin {"PING", "HEALTH"}
                                    THEN "ping" ELSE "main"]
  /\ checked' = IF s = "trading" /\ fresh THEN FALSE ELSE checked
  /\ UNCHANGED <<queue, verified, permits, tokens, ea, ctx, left>>

\* The command on the wire in each stage.
Sent(c) == CASE call[c].at \in {"ping", "reping"} -> "PING"
             [] call[c].at = "ident" -> "EA_IDENTITY"
             [] OTHER -> call[c].cmd

\* The EA's replies: PING checks the token, HEALTH needs no authentication, an
\* old build knows no EA_IDENTITY, an order it refuses comes back as an "error",
\* a change also as "success": false, a read may be empty or stale.
Answers(cmd) ==
  CASE cmd = "PING" -> IF ea.token THEN {"ok"} ELSE {"error"}
    [] cmd = "HEALTH" -> {"ok"}
    [] cmd # "PING" /\ cmd # "HEALTH" /\ ~ea.auth -> {"noauth"}
    [] cmd = "EA_IDENTITY" /\ ea.auth ->
         IF ea.build = "old" THEN {"error"}
         ELSE IF ea.account = "expected" THEN {"match"} ELSE {"mismatch"}
    [] cmd = "ORDER_SEND" /\ ea.auth -> {"ok", "error"}
    [] cmd = "change" /\ ea.auth -> {"ok", "error", "refused"}
    [] OTHER -> {"ok", "error", "empty", "stale"}

\* The EA handles a message; an order or a change it accepts takes effect.
Handled(c, reply) ==
  IF Sent(c) \in Effects /\ reply = "ok" THEN call[c].done + 1 ELSE call[c].done

EaHandles(c) ==
  /\ ea.up
  /\ call[c].at \in Talking /\ call[c].reply = None
  /\ \E reply \in Answers(Sent(c)) :
       /\ call' = [call EXCEPT ![c].reply = reply, ![c].done = Handled(c, reply)]
       /\ ea' = IF Sent(c) = "PING" /\ reply = "ok" THEN [ea EXCEPT !.auth = TRUE] ELSE ea
  /\ UNCHANGED <<sock, queue, verified, permits, tokens, ctx, checked, left>>

\* The next message of the call goes out on its socket.
Send(c, at) == call' = [call EXCEPT ![c].at = at, ![c].reply = None]

\* The lock is released and, for the trading socket, the permit is given back.
Leave(c, res) ==
  LET s == SockOf(call[c].cmd) IN
  /\ queue' = [queue EXCEPT ![s] = Tail(@)]
  /\ permits' = IF s = "trading" THEN permits + 1 ELSE permits
  /\ call' = [call EXCEPT ![c] = Ended(c, res, call[c].done)]

\* The socket is closed with linger 0 and will be created again.
Close(s) == sock' = [sock EXCEPT ![s] = [init |-> FALSE, out |-> None]]
\* The request-reply cycle is complete: the socket can be sent to again.
Keep(s) == sock' = [sock EXCEPT ![s].out = None]

\* The reply to the PING of a fresh socket: an "error" is only logged.  Identity
\* is verified next unless that was done before or the command is a light one.
Pinged(c) ==
  /\ call[c].at = "ping"
  /\ Send(c, IF SockOf(call[c].cmd) = "trading" /\ ~verified
                /\ call[c].cmd \notin {"EA_IDENTITY", "EA_CLOCK"} THEN "ident" ELSE "main")
  /\ UNCHANGED <<sock, queue, verified, permits, checked>>

\* EAIdentityVerifier.verify: a mismatch is not a ProviderResponseError, so the
\* socket is destroyed; an EA that does not know the command is let through.
Identified(c) ==
  /\ call[c].at = "ident"
  /\ IF call[c].reply = "mismatch"
     THEN /\ Close("trading") /\ verified' = FALSE
          /\ Leave(c, "mismatch") /\ UNCHANGED checked
     ELSE /\ Send(c, "main")
          /\ verified' = (call[c].reply = "match")
          /\ checked' = TRUE
          /\ UNCHANGED <<sock, queue, permits>>

\* What the methods make of a reply without an "error" key.  place_order takes
\* any such reply for an order placed or filled.
OrderOutcome(reply) == "ok"

\* Mutant: "success" is not looked at.
MutChangeOutcome(reply) == "ok"

\* cancel_order, modify_position, close_partial, close_position look at "success".
ChangeOutcome(reply) == IF reply = "refused" THEN "error" ELSE "ok"
\* The reads want a reply of the right shape; get_tick_price a fresh tick too.
ReadOutcome(reply) == IF reply = "empty" THEN "error" ELSE "ok"
AssertFresh(reply) == IF reply = "stale" THEN "error" ELSE "ok"
TickOutcome(reply) == IF ReadOutcome(reply) = "ok" THEN AssertFresh(reply) ELSE "error"
\* fetch_candles: at least one candle in the range (a stale one is out of it).
CandleOutcome(reply) == IF reply \in {"empty", "stale"} THEN "error" ELSE "ok"
\* ea_identity: verify field by field, or raise.
IdentityOutcome(reply) == IF reply = "mismatch" THEN "mismatch" ELSE "ok"
\* health_check and heartbeat_probe never raise.
HealthOutcome(reply) == "ok"
Outcome(cmd, reply) ==
  CASE cmd = "ORDER_SEND" -> OrderOutcome(reply)
    [] cmd = "change" -> ChangeOutcome(reply)
    [] cmd = "CANDLES" -> CandleOutcome(reply)
    [] cmd = "EA_IDENTITY" -> IdentityOutcome(reply)
    [] cmd \in {"PING", "HEALTH"} -> HealthOutcome(reply)
    [] OTHER -> TickOutcome(reply)

\* The reply to the command itself.  "Not authenticated" means the EA was
\* restarted: PING again, then the command once more.
Received(c) ==
  LET s == SockOf(call[c].cmd)
      reply == call[c].reply IN
  /\ call[c].at \in {"main", "retry"}
  /\ IF reply = "noauth" /\ call[c].at = "main"
     THEN Send(c, "reping") /\ UNCHANGED <<sock, queue, verified, permits, checked>>
     ELSE /\ Keep(s)
          /\ Leave(c, IF reply \in {"error", "noauth"} THEN "error" ELSE Outcome(call[c].cmd, reply))
          /\ verified' = (verified \/ reply = "match")
          /\ checked' = (checked \/ reply = "match")

\* The reply to the PING of a re-authentication.
Repinged(c) ==
  /\ call[c].at = "reping"
  /\ IF call[c].reply = "ok"
     THEN Send(c, "retry") /\ UNCHANGED <<sock, queue, permits>>
     ELSE Keep(SockOf(call[c].cmd)) /\ Leave(c, "error")
  /\ UNCHANGED <<verified, checked>>

Receive(c) ==
  /\ call[c].reply # None
  /\ Pinged(c) \/ Identified(c) \/ Received(c) \/ Repinged(c)
  /\ UNCHANGED <<tokens, ea, ctx, left>>

\* A message on a socket that is closed may still reach the EA, which handles it
\* without anybody waiting for the reply.
Late(c) == {call[c].done} \cup
           (IF call[c].reply = None /\ ea.up /\ ea.auth /\ Sent(c) \in Effects
            THEN {call[c].done + 1} ELSE {})

\* Mutant: the recv of the command itself has no deadline.
MutTimeout(c) ==
  LET s == SockOf(call[c].cmd) IN
  /\ call[c].at \in Talking \ {"main"} /\ call[c].reply = None
  /\ Close(s)
  /\ Leave(c, "timeout")
  /\ verified' = (s # "trading" /\ verified)
  /\ UNCHANGED <<tokens, ea, ctx, checked, left>>

\* A timeout of send or recv or any other error: the socket is destroyed, and on
\* the trading socket the identity is to be verified again.
Timeout(c) ==
  LET s == SockOf(call[c].cmd) IN
  /\ call[c].at \in Talking /\ call[c].reply = None
  /\ Close(s)
  /\ queue' = [queue EXCEPT ![s] = Tail(@)]
  /\ permits' = IF s = "trading" THEN permits + 1 ELSE permits
  /\ \E n \in Late(c) : call' = [call EXCEPT ![c] = Ended(c, "timeout", n)]
  /\ verified' = (s # "trading" /\ verified)
  /\ UNCHANGED <<tokens, ea, ctx, checked, left>>

\* Mutant: a call that is cancelled while it waits for the lock keeps its permit.
MutCancel(c) ==
  LET s == SockOf(call[c].cmd) IN
  /\ call[c].at # "idle"
  /\ left > 0 /\ left' = left - 1
  /\ call' = [call EXCEPT ![c] = Ended(c, "cancelled", call[c].done)]
  /\ queue' = [queue EXCEPT ![s] = Without(@, c)]
  /\ permits' = IF s = "trading" /\ call[c].at \in Talking THEN permits + 1 ELSE permits
  /\ sock' = IF call[c].at \in Talking THEN [sock EXCEPT ![s] = [init |-> FALSE, out |-> None]] ELSE sock
  /\ UNCHANGED <<verified, tokens, ea, ctx, checked>>

\* Mutant: a call that is cancelled leaves the socket as it is.
MutCancelKeeps(c) ==
  LET s == SockOf(call[c].cmd) IN
  /\ call[c].at # "idle"
  /\ left > 0 /\ left' = left - 1
  /\ call' = [call EXCEPT ![c] = Ended(c, "cancelled", call[c].done)]
  /\ queue' = [queue EXCEPT ![s] = Without(@, c)]
  /\ permits' = IF s = "trading" /\ call[c].at \in Talking \cup {"lock"} THEN permits + 1 ELSE permits
  /\ UNCHANGED <<sock, verified, tokens, ea, ctx, checked>>

\* The caller gives up: the CancelledError ends a wait for the limiter or the
\* gate, leaves the lock's queue and gives the permit back, or destroys the
\* socket (and leaves _identity_verified as it is).
Cancel(c) ==
  LET s == SockOf(call[c].cmd) IN
  /\ call[c].at # "idle"
  /\ left > 0 /\ left' = left - 1
  /\ \E n \in IF call[c].at \in Talking THEN Late(c) ELSE {call[c].done} :
       call' = [call EXCEPT ![c] = Ended(c, "cancelled", n)]
  /\ queue' = [queue EXCEPT ![s] = Without(@, c)]
  /\ permits' = IF s = "trading" /\ call[c].at \in Talking \cup {"lock"} THEN permits + 1 ELSE permits
  /\ IF call[c].at \in Talking THEN Close(s) ELSE UNCHANGED sock
  /\ UNCHANGED <<verified, tokens, ea, ctx, checked>>

-----------------------------------------------------------------------------
(* shutdown: each socket under its lock, then the context.                  *)

\* The trading socket is closed.
ShutdownTrading ==
  /\ ctx = "open" /\ queue["trading"] = <<>>
  /\ Close("trading")
  /\ ctx' = "closing"
  /\ UNCHANGED <<call, queue, verified, permits, tokens, ea, checked, left>>

\* The candles socket is closed, then ctx.term() runs, which waits for every
\* socket of the context: a trading socket created in between blocks the loop.
ShutdownCandles ==
  /\ ctx = "closing" /\ queue["candles"] = <<>>
  /\ Close("candles")
  /\ ctx' = IF sock["trading"].init THEN "stuck" ELSE "closed"
  /\ UNCHANGED <<call, queue, verified, permits, tokens, ea, checked, left>>

-----------------------------------------------------------------------------
(* The EA and the broker account behind it.                                 *)

EaStarts ==
  /\ ~ea.up
  /\ ea' = [ea EXCEPT !.up = TRUE, !.auth = FALSE]
  /\ UNCHANGED <<call, sock, queue, verified, permits, tokens, ctx, checked, left>>

\* The EA goes down (its state is lost) or its terminal is logged in to another
\* account.  A message it has not handled is answered after the restart.
EaTrouble ==
  /\ ea.up /\ left > 0 /\ left' = left - 1
  /\ \/ ea' = [ea EXCEPT !.up = FALSE, !.auth = FALSE]
     \/ \E a \in {"expected", "other"} : ea' = [ea EXCEPT !.account = a]
  /\ UNCHANGED <<call, sock, queue, verified, permits, tokens, ctx, checked>>

Step(c) == ~Stuck /\ (Acquire(c) \/ EnterGate(c) \/ Connect(c) \/ Receive(c) \/ Timeout(c))
Shutdown == ~Stuck /\ (ShutdownTrading \/ ShutdownCandles)

Next ==
  \/ \E c \in Calls : Step(c)
  \/ \E c \in Calls : ~Stuck /\ Cancel(c)
  \/ \E c \in Calls : \E cmd \in CommandsOf[c] : ~Stuck /\ Request(c, cmd)
  \/ \E c \in Calls : EaHandles(c)
  \/ Shutdown
  \/ EaStarts
  \/ EaTrouble

Spec == Init /\ [][Next]_vars
\* The event loop runs every task that is ready; asyncio.timeout bounds each wait.
FairSpec == Spec /\ \A c \in Calls : WF_vars(Step(c))

-----------------------------------------------------------------------------

Call == [at : Stages, cmd : Commands, reply : Replies \cup {None}, done : 0..2,
         res : Results \cup {None}]
TypeOK ==
  /\ call \in [Calls -> Call]
  /\ sock \in [Socks -> [init : BOOLEAN, out : Calls \cup {None}]]
  /\ \A s \in Socks : \A i \in 1..Len(queue[s]) : queue[s][i] \in Calls
  /\ verified \in BOOLEAN /\ checked \in BOOLEAN
  /\ permits \in 0..MaxInflight /\ tokens \in 0..Burst
  /\ ctx \in {"open", "closing", "closed", "stuck"} /\ left \in 0..MaxTroubles

\* No socket is left waiting for a reply nobody receives: a socket with a message
\* out belongs to the call that holds its lock and waits for that reply, whatever
\* timeouts, cancellations and restarts came before (_request_inner,
\* _request_candles).
NoPoisonedSocket ==
  \A s \in Socks : sock[s].out # None =>
    /\ sock[s].init
    /\ sock[s].out = Holder(s)
    /\ call[sock[s].out].at \in Talking

\* A permit is given back exactly once on every way out of the gate: the gate
\* lacks as many permits as there are trading calls behind it (_request's finally).
GateConserved ==
  permits + Cardinality({c \in Calls : /\ SockOf(call[c].cmd) = "trading"
                                       /\ call[c].at \in Talking \cup {"lock"}}) = MaxInflight

\* The inline retry never repeats an effect, a call that reports success had its
\* effect exactly once, and one that was throttled, found the gate full or met
\* the wrong account had none (place_order, cancel_order, close_position, ...).
EffectOnce ==
  \A c \in Calls : call[c].cmd \in Effects =>
    /\ call[c].done <= 1
    /\ call[c].res = "ok" => call[c].done = 1
    /\ call[c].res \in {"throttled", "full", "mismatch"} => call[c].done = 0

\* Every call returns or raises, while the event loop runs at all (the limiter's
\* deadline, the gate's deadline, the FIFO locks and the socket timeouts).
CallsReturn == \A c \in Calls : (call[c].at # "idle") ~> (call[c].at = "idle" \/ Stuck)

\* "one-shot identity verification on every fresh authenticated socket": no
\* effect goes out on a trading socket on which the EA was never asked.
IdentityPerSocket ==
  \A c \in Calls : (call[c].at \in {"main", "retry"} /\ call[c].cmd \in Effects) => checked
=============================================================================
