----------------------------- MODULE MtWatchdog -----------------------------
(***************************************************************************)
(* The watchdog sidecar of a hosted MetaTrader pod: its poll loop over one *)
(* long-lived REQ socket, the launch tracker and the startup grace, the    *)
(* memory and CPU soft caps, and the /livez and /healthz answers the       *)
(* kubelet acts on.  The terminal, its EA, the entrypoint that respawns    *)
(* the terminal and the kubelet are the environment.                       *)
(*                                                                         *)
(* Time is counted in poll intervals: one Poll is one turn of the loop.    *)
(***************************************************************************)
EXTENDS Integers

CONSTANTS
  MaxFailures,   \* WATCHDOG_MAX_FAILURES
  Grace,         \* WATCHDOG_STARTUP_GRACE_SECONDS
  LivezGrace,    \* WATCHDOG_LIVEZ_GRACE_SECONDS
  Fresh,         \* the 30 seconds of /healthz
  CpuPolls,      \* WATCHDOG_CPU_THROTTLE_CONSECUTIVE_POLLS
  BootPolls,     \* polls a booting terminal does not answer, at least and at most
  BootMax,
  KubeletPolls,  \* the livenessProbe's 3 failures, 30 seconds apart
  MaxTroubles    \* exits, EA reloads, lost broker links, throttled or full cgroups

ASSUME WatchdogBounds ==
  /\ {MaxFailures, Grace, LivezGrace, Fresh, CpuPolls, BootPolls, BootMax, KubeletPolls} \subseteq Nat \ {0}
  /\ BootPolls <= BootMax
  /\ MaxTroubles \in Nat

VARIABLES
  mt,      \* the terminal: absent, booting, up; its age in polls
  ea,      \* what its EA would report: authenticated, connected to the broker
  probe,   \* ZmqHealthProbe: socket open, _authenticated
  st,      \* State: failures, time since last_success_ts and start_ts, last_health,
           \* time since mt_launch_ts, mt_observed_running
  cpu,     \* _consecutive_cpu_throttle_polls, and whether there is a baseline
  kubelet, \* the startupProbe of this container has passed; failed /livez since
  seen,    \* (history) the last poll found a terminal; this one was respawned
           \* before a poll missed the one before it
  killed,  \* (history) what the last poll signalled the terminal for
  quiet,   \* (history) polls since the CPU soft cap tripped
  left     \* what remains of MaxTroubles

vars == <<mt, ea, probe, st, cpu, kubelet, seen, killed, quiet, left>>

None == "none"
Never == -1
Older(t, limit) == IF t = Never \/ t = limit THEN t ELSE t + 1

Init ==
  /\ mt = [at |-> "absent", age |-> 0]
  /\ ea = [auth |-> FALSE, connected |-> TRUE]
  /\ probe = [open |-> FALSE, auth |-> FALSE]
  /\ st = [failures |-> 0, success |-> Never, up |-> 0, health |-> FALSE,
           launch |-> Never, running |-> FALSE]
  /\ cpu = [streak |-> 0, baseline |-> FALSE]
  /\ kubelet = [started |-> FALSE, bad |-> 0]
  /\ seen = [last |-> FALSE, missed |-> FALSE] /\ killed = None /\ quiet = Never
  /\ left = MaxTroubles

Present == mt.at # "absent"

-----------------------------------------------------------------------------
(* One turn of watchdog_loop.                                               *)

\* Mutant: an absent terminal is not recorded.
MutTracked ==
  LET s == [st EXCEPT !.success = Older(@, LivezGrace), !.up = Older(@, LivezGrace),
                      !.launch = Older(@, Grace)] IN
  IF Present /\ ~s.running THEN [s EXCEPT !.launch = 0, !.running = TRUE] ELSE s

\* update_mt_launch_tracker: absent to present restarts the grace clock.  The
\* clocks of the state are one poll older than at the turn before.
Tracked ==
  LET s == [st EXCEPT !.success = Older(@, LivezGrace), !.up = Older(@, LivezGrace),
                      !.launch = Older(@, Grace)] IN
  IF Present /\ ~s.running THEN [s EXCEPT !.launch = 0, !.running = TRUE]
  ELSE IF ~Present /\ s.running THEN [s EXCEPT !.running = FALSE]
  ELSE s

\* maybe_enforce_cpu_soft_cap: the first reading is the baseline; a reading
\* without CFS periods or below the fraction ends the streak; a trip restarts it.
CpuStreak(throttled) ==
  IF ~cpu.baseline \/ ~throttled THEN 0 ELSE cpu.streak + 1
CpuTrips(throttled) == CpuStreak(throttled) >= CpuPolls
CpuNext(throttled) ==
  [baseline |-> TRUE, streak |-> IF CpuTrips(throttled) THEN 0 ELSE CpuStreak(throttled)]

\* terminate_mt_processes: every terminal process is signalled and exits.
Terminate(why) ==
  /\ mt' = [at |-> "absent", age |-> 0]
  /\ ea' = [ea EXCEPT !.auth = FALSE]
  /\ killed' = IF Present THEN why ELSE None
Aged ==
  /\ mt' = IF Present THEN [mt EXCEPT !.age = Older(@, Grace)] ELSE mt
  /\ killed' = None

\* _in_startup_grace, on the tracked state.
InStartupGrace(s) == s.launch # Never /\ s.launch < Grace

\* ZmqHealthProbe.poll: open the socket, authenticate it once, ask HEALTH.  On a
\* timeout the socket is torn down.
Probed == [open |-> mt.at = "up", auth |-> mt.at = "up"]
\* The EA's flag after the poll: a PING sets it, and only a socket that is not
\* authenticated sends one.
AuthAfter == ea.auth \/ (mt.at = "up" /\ ~probe.auth)

\* The state after a probe: any reply is a success in time, but only one that is
\* connected and authenticated clears the failures.
AfterProbe(s) ==
  LET good == AuthAfter /\ ea.connected
      counted == IF mt.at = "up" /\ good THEN 0 ELSE s.failures + 1 IN
  IF mt.at = "up" THEN [s EXCEPT !.success = 0, !.health = good, !.failures = counted]
  ELSE [s EXCEPT !.failures = counted]

\* Mutant: a terminal whose EA answers is spared.
MutForcesRestart(s) == s.failures >= MaxFailures /\ ~InStartupGrace(s) /\ mt.at # "up"

\* At MAX_FAILURES the terminal is signalled, unless the grace is running.
ForcesRestart(s) == s.failures >= MaxFailures /\ ~InStartupGrace(s)
Capped(s) == IF s.failures > MaxFailures THEN [s EXCEPT !.failures = MaxFailures] ELSE s

\* do_GET: what the kubelet reads.
Livez == st.up < LivezGrace \/ (st.success # Never /\ st.success < LivezGrace)
Healthz == st.success # Never /\ st.success < Fresh /\ st.health

\* The probe part of the turn.
Probe(s) ==
  LET after == AfterProbe(s) IN
  /\ probe' = Probed
  /\ IF ForcesRestart(after)
     THEN Terminate("failures") /\ st' = [after EXCEPT !.failures = 0]
     ELSE /\ Aged /\ st' = Capped(after)
          /\ ea' = [ea EXCEPT !.auth = AuthAfter]

\* One turn (a terminal that is due to answer does so first): track, memory cap,
\* CPU cap, probe; a trip skips the probe, the memory cap's the CPU reading too.
Poll ==
  /\ ~(mt.at = "booting" /\ mt.age = BootMax)
  /\ \E full, throttled \in BOOLEAN :
      /\ (full \/ throttled) => left > 0
      /\ left' = IF full \/ throttled THEN left - 1 ELSE left
      /\ IF full
         THEN Terminate("memory") /\ st' = Tracked /\ UNCHANGED <<probe, cpu>>
         ELSE /\ cpu' = CpuNext(throttled)
              /\ IF CpuTrips(throttled)
                 THEN Terminate("cpu") /\ st' = Tracked /\ UNCHANGED probe
                 ELSE Probe(Tracked)
      /\ quiet' = IF ~full /\ CpuTrips(throttled) THEN 0 ELSE Older(quiet, CpuPolls)
      /\ seen' = [seen EXCEPT !.last = Present]
      /\ kubelet' = [kubelet EXCEPT !.bad = IF ~kubelet.started \/ Livez' THEN 0 ELSE Older(@, KubeletPolls)]

-----------------------------------------------------------------------------
(* The environment.                                                         *)

Trouble == left > 0 /\ left' = left - 1

\* The entrypoint respawns the terminal.
Respawn ==
  /\ mt.at = "absent"
  /\ mt' = [at |-> "booting", age |-> 0]
  /\ seen' = [seen EXCEPT !.missed = seen.last]
  /\ killed' = None
  /\ UNCHANGED <<ea, probe, st, cpu, kubelet, quiet, left>>

\* The terminal has logged in and its EA answers.
Booted ==
  /\ mt.at = "booting" /\ mt.age >= BootPolls
  /\ mt' = [mt EXCEPT !.at = "up"]
  /\ kubelet' = [started |-> TRUE, bad |-> 0]
  /\ killed' = None
  /\ UNCHANGED <<ea, probe, st, cpu, seen, quiet, left>>

\* The terminal exits by itself, or the EA is reloaded within it, or the link to
\* the broker is lost.
MtExits ==
  /\ Present /\ Trouble
  /\ mt' = [at |-> "absent", age |-> 0] /\ ea' = [ea EXCEPT !.auth = FALSE]
  /\ killed' = None
  /\ UNCHANGED <<seen, probe, st, cpu, kubelet, quiet>>
EaReloads ==
  /\ mt.at = "up" /\ ea.auth /\ Trouble
  /\ ea' = [ea EXCEPT !.auth = FALSE]
  /\ killed' = None
  /\ UNCHANGED <<mt, probe, st, cpu, kubelet, seen, quiet>>
LinkLost ==
  /\ ea.connected /\ Trouble
  /\ ea' = [ea EXCEPT !.connected = FALSE]
  /\ killed' = None
  /\ UNCHANGED <<mt, probe, st, cpu, kubelet, seen, quiet>>
LinkBack ==
  /\ ~ea.connected
  /\ ea' = [ea EXCEPT !.connected = TRUE]
  /\ killed' = None
  /\ UNCHANGED <<mt, probe, st, cpu, kubelet, seen, quiet, left>>

\* The kubelet restarts the container whose /livez fails, once the startupProbe
\* has passed; the sidecar keeps running.
KubeletRestarts ==
  /\ kubelet.bad = KubeletPolls
  /\ mt' = [at |-> "absent", age |-> 0] /\ ea' = [ea EXCEPT !.auth = FALSE]
  /\ kubelet' = [started |-> FALSE, bad |-> 0]
  /\ killed' = None
  /\ UNCHANGED <<seen, probe, st, cpu, quiet, left>>

Next == Poll \/ Respawn \/ Booted \/ MtExits \/ EaReloads \/ LinkLost \/ LinkBack \/ KubeletRestarts

Spec == Init /\ [][Next]_vars
\* The loop polls forever, the entrypoint's supervisor respawns, a terminal that
\* is left alone boots, and the link to the broker returns.
FairSpec == Spec /\ WF_vars(Poll) /\ WF_vars(Respawn) /\ WF_vars(Booted) /\ WF_vars(LinkBack)

-----------------------------------------------------------------------------

TypeOK ==
  /\ mt \in [at : {"absent", "booting", "up"}, age : 0..Grace]
  /\ ea \in [auth : BOOLEAN, connected : BOOLEAN]
  /\ probe \in [open : BOOLEAN, auth : BOOLEAN]
  /\ st \in [failures : 0..MaxFailures, success : Never..LivezGrace, up : 0..LivezGrace,
             health : BOOLEAN, launch : Never..Grace, running : BOOLEAN]
  /\ cpu \in [streak : 0..(CpuPolls - 1), baseline : BOOLEAN]
  /\ kubelet \in [started : BOOLEAN, bad : 0..KubeletPolls] /\ seen \in [last : BOOLEAN, missed : BOOLEAN]
  /\ killed \in {None, "memory", "cpu", "failures"}
  /\ quiet \in Never..CpuPolls /\ left \in 0..MaxTroubles

\* A terminal whose launch the tracker could see is never signalled for failed
\* polls before it is Grace old, by its own age (update_mt_launch_tracker,
\* _in_startup_grace), however often it was respawned before.
BootLeftAlone == [][killed' = "failures" => seen.missed \/ mt.age + 1 >= Grace]_vars

\* Two trips of the CPU cap are at least CpuPolls polls apart: a respawned
\* terminal gets a whole new window (maybe_enforce_cpu_soft_cap).
CpuTripsApart == [][(killed' = "cpu") => quiet \in {Never, CpuPolls, CpuPolls - 1}]_vars

\* Once the troubles end, the pod becomes ready and stays so: also after an EA
\* reload that the probe's _authenticated flag hides, where only the restart it
\* forces makes the next PING happen (ZmqHealthProbe, watchdog_loop).
ReadyAgain == <>[]Healthz
=============================================================================
