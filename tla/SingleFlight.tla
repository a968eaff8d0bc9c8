---------------------------- MODULE SingleFlight ----------------------------
(***************************************************************************)
(* What the idempotency guard of the processor promises                     *)
(* (src/src/engine/processor/idempotency.py): identical analysis calls are  *)
(* collapsed into a single LLM call.  A caller asks, takes the Redis lock   *)
(* of its key and flies (runs the LLM call), closes and unlocks.  The lock  *)
(* expires by itself after LockTicks; a caller is cancelled after           *)
(* TotalTicks.  Redis may lose a reply (the key is set, the caller does not *)
(* know), refuse a command (the caller then flies blind, as the guard is    *)
(* made to) or miss the unlock; callers may vanish with the engine.         *)
(***************************************************************************)
EXTENDS Naturals

CONSTANTS Callers, Keys, Nobody, TotalTicks, LockTicks

\* What the guard needs of its constants; a specification that instantiates this
\* module assumes it.
GuardConstants ==
  /\ Nobody \notin Callers
  /\ TotalTicks \in Nat /\ LockTicks \in Nat /\ TotalTicks < LockTicks

VARIABLES key,     \* [Callers -> Keys], the digest of what the caller asks
          stage,   \* [Callers -> Stages]
          left,    \* [Callers -> ticks until the caller is cancelled]
          holder,  \* [Keys -> the token in the lock key]
          ttl      \* [Keys -> ticks until the lock key expires, 0: no key]

sfvars == <<key, stage, left, holder, ttl>>

Stages == {"out", "asking", "flying", "blind", "closing", "gone"}
Timed == {"asking", "flying", "blind"}

SFInit ==
  /\ key \in [Callers -> Keys]
  /\ stage = [c \in Callers |-> "out"]
  /\ left = [c \in Callers |-> 0]
  /\ holder = [k \in Keys |-> Nobody]
  /\ ttl = [k \in Keys |-> 0]

Lock(c) ==
  /\ ttl[key[c]] = 0
  /\ holder' = [holder EXCEPT ![key[c]] = c]
  /\ ttl' = [ttl EXCEPT ![key[c]] = LockTicks]

Unlock(c) ==
  /\ holder[key[c]] = c
  /\ holder' = [holder EXCEPT ![key[c]] = Nobody]
  /\ ttl' = [ttl EXCEPT ![key[c]] = 0]

Move(c, from, to) == stage[c] \in from /\ stage' = [stage EXCEPT ![c] = to]
Spent(c) == left' = [left EXCEPT ![c] = 0]

Ask(c) ==
  /\ Move(c, {"out"}, "asking")
  /\ left' = [left EXCEPT ![c] = TotalTicks]
  /\ UNCHANGED <<holder, ttl>>

\* SET NX succeeds and the caller learns it.
TakeOff(c) == Move(c, {"asking"}, "flying") /\ Lock(c) /\ UNCHANGED left

\* SET NX succeeds and its reply is lost; the caller goes on asking.
LoseReply(c) == stage[c] = "asking" /\ Lock(c) /\ UNCHANGED <<stage, left>>

\* An error reply: the guard fails open.
FlyBlind(c) == Move(c, {"asking"}, "blind") /\ UNCHANGED <<left, holder, ttl>>

\* Answered from the cache, refused or cancelled, perhaps with the lock set.
GiveUp(c) ==
  /\ Move(c, {"asking"}, "gone") /\ Spent(c)
  /\ Lock(c) \/ UNCHANGED <<holder, ttl>>

Close(c) == Move(c, {"flying", "blind"}, "closing") /\ Spent(c) /\ UNCHANGED <<holder, ttl>>

\* The compare-and-delete finds the caller's token, or another, or is lost.
Land(c) ==
  /\ Move(c, {"closing"}, "gone")
  /\ Unlock(c) \/ UNCHANGED <<holder, ttl>>
  /\ UNCHANGED left

Less(n) == IF n = 0 THEN 0 ELSE n - 1

TickAll ==
  /\ \A c \in Callers : stage[c] \in Timed => left[c] > 0
  /\ left' = [c \in Callers |-> Less(left[c])]
  /\ ttl' = [k \in Keys |-> Less(ttl[k])]
  /\ holder' = [k \in Keys |-> IF ttl[k] <= 1 THEN Nobody ELSE holder[k]]
  /\ UNCHANGED stage

\* Turned away before it reaches the guard.
Skip(c) == Move(c, {"out"}, "gone") /\ UNCHANGED <<left, holder, ttl>>

\* The engine restarts: callers inside the guard are gone, and so are some that
\* had not reached it.
Vanish(c, early) == stage[c] \in {"asking", "flying", "blind", "closing"} \/ c \in early
CrashAll ==
  /\ \E early \in SUBSET {c \in Callers : stage[c] = "out"} :
       stage' = [c \in Callers |-> IF Vanish(c, early) THEN "gone" ELSE stage[c]]
  /\ left' = [c \in Callers |-> 0]
  /\ UNCHANGED <<holder, ttl>>

Step ==
  \/ \E c \in Callers : \/ Ask(c) \/ TakeOff(c) \/ LoseReply(c) \/ FlyBlind(c)
                        \/ GiveUp(c) \/ Close(c) \/ Land(c) \/ Skip(c)
  \/ TickAll \/ CrashAll

SFNext == Step /\ UNCHANGED key

SFSpec == SFInit /\ [][SFNext]_sfvars

SFTypeOK ==
  /\ key \in [Callers -> Keys]
  /\ stage \in [Callers -> Stages]
  /\ left \in [Callers -> 0..TotalTicks]
  /\ holder \in [Keys -> Callers \cup {Nobody}]
  /\ ttl \in [Keys -> 0..LockTicks]

\* Two calls that run the LLM under the guard's lock never have the same key:
\* the guard collapses identical calls into one (idempotency.py, module docstring).
OneFlight ==
  \A c, d \in Callers :
    stage[c] = "flying" /\ stage[d] = "flying" /\ key[c] = key[d] => c = d

\* The strengthening: a flying caller's token is in the lock, and the lock
\* outlasts the time the caller has left by what LockTicks exceeds TotalTicks.
FlightInv ==
  /\ SFTypeOK
  /\ \A c \in Callers :
       stage[c] = "flying" => /\ holder[key[c]] = c
                              /\ ttl[key[c]] >= left[c] + (LockTicks - TotalTicks)
=============================================================================
