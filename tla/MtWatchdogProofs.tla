-------------------------- MODULE MtWatchdogProofs --------------------------
(***************************************************************************)
(* For any thresholds and grace periods, boot times and number of          *)
(* troubles: what the watchdog's poll loop never does to the terminal.     *)
(***************************************************************************)
EXTENDS MtWatchdog, TLAPS

\* Most leaves are first-order; those that need arithmetic or records cite SMT.
USE ZenonT(30)

Terminal == [at : {"absent", "booting", "up"}, age : 0..Grace]
Ea == [auth : BOOLEAN, connected : BOOLEAN]
State == [failures : 0..MaxFailures, success : Never..LivezGrace, up : 0..LivezGrace,
          health : BOOLEAN, launch : Never..Grace, running : BOOLEAN]
\* The state between a probe and the decision it leads to.
Counting == [failures : 0..(MaxFailures + 1), success : Never..LivezGrace, up : 0..LivezGrace,
             health : BOOLEAN, launch : Never..Grace, running : BOOLEAN]
Kubelet == [started : BOOLEAN, bad : 0..KubeletPolls]

LEMMA OlderBounds ==
  ASSUME NEW limit \in Nat, NEW t \in Never..limit
  PROVE  /\ Older(t, limit) \in Never..limit /\ Older(t, limit) <= t + 1 /\ t <= Older(t, limit)
         /\ t # Never => Older(t, limit) \in 0..limit
         /\ t = Never => Older(t, limit) = Never
  BY SMTT(30) DEF Older, Never

\* One poll more, and the counter still follows another that is not ahead of it.
LEMMA OlderMonotone ==
  ASSUME NEW limit \in Nat, NEW s \in 0..limit, NEW t \in 0..limit, s <= t
  PROVE  Older(s, limit) <= Older(t, limit)
  BY SMTT(30) DEF Older, Never

LEMMA TrackedState ==
  ASSUME st \in State
  PROVE  /\ Tracked \in State /\ Tracked.running = Present
         /\ Tracked.launch = IF Present /\ ~st.running THEN 0 ELSE Older(st.launch, Grace)
<1> DEFINE s == [st EXCEPT !.success = Older(@, LivezGrace), !.up = Older(@, LivezGrace),
                           !.launch = Older(@, Grace)]
<1>1. /\ LivezGrace \in Nat /\ Grace \in Nat
      /\ st.success \in Never..LivezGrace /\ st.up \in 0..LivezGrace /\ st.launch \in Never..Grace
      /\ st.running \in BOOLEAN
  BY WatchdogBounds DEF State
<1>2. st.up \in Never..LivezGrace /\ st.up # Never
  BY SMTT(30), <1>1 DEF Never
<1>3. /\ Older(st.success, LivezGrace) \in Never..LivezGrace
      /\ Older(st.up, LivezGrace) \in 0..LivezGrace /\ Older(st.launch, Grace) \in Never..Grace
  BY <1>1, <1>2, OlderBounds
<1>4. s \in State /\ s.running = st.running /\ s.launch = Older(st.launch, Grace)
  BY <1>3 DEF State
<1>5. Tracked = IF Present /\ ~s.running THEN [s EXCEPT !.launch = 0, !.running = TRUE]
                ELSE IF ~Present /\ s.running THEN [s EXCEPT !.running = FALSE] ELSE s
  BY DEF Tracked
<1> HIDE DEF s
<1>6. 0 \in Never..Grace /\ Present \in BOOLEAN
  BY SMTT(30), <1>1 DEF Never, Present
<1>7. CASE Present /\ ~s.running
  <2>1. /\ [s EXCEPT !.launch = 0, !.running = TRUE] \in State
        /\ [s EXCEPT !.launch = 0, !.running = TRUE].launch = 0
        /\ [s EXCEPT !.launch = 0, !.running = TRUE].running = TRUE
    BY <1>4, <1>6 DEF State
  <2>2. Tracked = [s EXCEPT !.launch = 0, !.running = TRUE]
    BY <1>5, <1>7
  <2> QED BY <1>4, <1>6, <1>7, <2>1, <2>2
<1>8. CASE ~Present /\ s.running
  <2>1. /\ [s EXCEPT !.running = FALSE] \in State
        /\ [s EXCEPT !.running = FALSE].launch = s.launch
        /\ [s EXCEPT !.running = FALSE].running = FALSE
    BY <1>4 DEF State
  <2>2. Tracked = [s EXCEPT !.running = FALSE]
    BY <1>5, <1>8
  <2> QED BY <1>4, <1>6, <1>8, <2>1, <2>2
<1>9. CASE ~(Present /\ ~s.running) /\ ~(~Present /\ s.running)
  BY <1>1, <1>4, <1>5, <1>6, <1>9
<1> QED BY <1>7, <1>8, <1>9

LEMMA AfterProbeState ==
  ASSUME NEW s \in State, ea \in Ea, probe.auth \in BOOLEAN
  PROVE  /\ AfterProbe(s) \in Counting
         /\ AfterProbe(s).launch = s.launch /\ AfterProbe(s).running = s.running
<1> DEFINE good == AuthAfter /\ ea.connected
           counted == IF mt.at = "up" /\ good THEN 0 ELSE s.failures + 1
<1>1. counted \in 0..(MaxFailures + 1) /\ 0 \in Never..LivezGrace
  BY SMTT(30), WatchdogBounds DEF State, Never
<1>2. good \in BOOLEAN
  BY DEF AuthAfter, Ea
<1>3. AfterProbe(s) = IF mt.at = "up" THEN [s EXCEPT !.success = 0, !.health = good, !.failures = counted]
                      ELSE [s EXCEPT !.failures = counted]
  BY DEF AfterProbe
<1> HIDE DEF good, counted
<1>4. /\ [s EXCEPT !.success = 0, !.health = good, !.failures = counted] \in Counting
      /\ [s EXCEPT !.success = 0, !.health = good, !.failures = counted].launch = s.launch
      /\ [s EXCEPT !.success = 0, !.health = good, !.failures = counted].running = s.running
  BY <1>1, <1>2 DEF State, Counting
<1>5. /\ [s EXCEPT !.failures = counted] \in Counting
      /\ [s EXCEPT !.failures = counted].launch = s.launch
      /\ [s EXCEPT !.failures = counted].running = s.running
  BY <1>1 DEF State, Counting
<1> QED BY <1>3, <1>4, <1>5

\* However a turn ends, the counter is below its limit again, and the clocks are
\* those the tracker left.
LEMMA SettledState ==
  ASSUME NEW s \in Counting
  PROVE  /\ [s EXCEPT !.failures = 0] \in State
         /\ [s EXCEPT !.failures = 0].launch = s.launch /\ [s EXCEPT !.failures = 0].running = s.running
         /\ Capped(s) \in State /\ Capped(s).launch = s.launch /\ Capped(s).running = s.running
<1>1. MaxFailures \in Nat
  BY WatchdogBounds
<1>2. /\ [s EXCEPT !.failures = 0] \in State
      /\ [s EXCEPT !.failures = 0].launch = s.launch /\ [s EXCEPT !.failures = 0].running = s.running
  BY SMTT(30), <1>1 DEF State, Counting
<1>3. CASE s.failures > MaxFailures
  <2>1. /\ [s EXCEPT !.failures = MaxFailures] \in State
        /\ [s EXCEPT !.failures = MaxFailures].launch = s.launch
        /\ [s EXCEPT !.failures = MaxFailures].running = s.running
    BY SMTT(30), <1>1 DEF State, Counting
  <2> QED BY <1>2, <1>3, <2>1 DEF Capped
<1>4. CASE ~(s.failures > MaxFailures)
  <2>1. s.failures \in 0..MaxFailures
    BY SMTT(30), <1>1, <1>4 DEF Counting
  <2>2. s \in State
    BY <2>1 DEF State, Counting
  <2> QED BY <1>2, <1>4, <2>2 DEF Capped
<1> QED BY <1>3, <1>4

-----------------------------------------------------------------------------
(* The invariant: the tracker's flag is what the last poll saw; its clock is   *)
(* set while it runs, and is not ahead of the terminal unless the terminal was *)
(* swapped between two polls; the CPU streak is younger than the last trip.    *)

WatchdogInv ==
  /\ TypeOK
  /\ st.running = seen.last
  /\ st.running => st.launch # Never
  /\ Present /\ ~seen.missed /\ st.running => st.launch <= mt.age
  /\ quiet # Never => cpu.streak <= quiet

LEMMA InvInit == Init => WatchdogInv
  BY SMTT(30), WatchdogBounds DEF Init, WatchdogInv, TypeOK, Never, None, Present

\* The parts of a turn.
LEMMA TurnOfState ==
  ASSUME WatchdogInv, Poll
  PROVE  /\ st' \in State /\ st'.launch = Tracked.launch /\ st'.running = Present
         /\ probe' \in [open : BOOLEAN, auth : BOOLEAN]
<1>1. st \in State /\ ea \in Ea /\ probe \in [open : BOOLEAN, auth : BOOLEAN]
  BY DEF WatchdogInv, TypeOK, State, Ea
<1>2. Tracked \in State /\ Tracked.running = Present
  BY <1>1, TrackedState
<1> DEFINE after == AfterProbe(Tracked)
<1>3. after \in Counting /\ after.launch = Tracked.launch /\ after.running = Present
  BY <1>1, <1>2, AfterProbeState
<1>4. \/ st' = Tracked /\ UNCHANGED probe
      \/ st' = [after EXCEPT !.failures = 0] /\ probe' = Probed
      \/ st' = Capped(after) /\ probe' = Probed
  BY DEF Poll, Probe
<1>5. Probed \in [open : BOOLEAN, auth : BOOLEAN]
  BY DEF Probed
<1> HIDE DEF after
<1>6. /\ [after EXCEPT !.failures = 0] \in State
      /\ [after EXCEPT !.failures = 0].launch = after.launch
      /\ [after EXCEPT !.failures = 0].running = after.running
      /\ Capped(after) \in State /\ Capped(after).launch = after.launch
      /\ Capped(after).running = after.running
  BY <1>3, SettledState
<1> QED BY <1>1, <1>2, <1>3, <1>4, <1>5, <1>6

LEMMA TurnOfTerminal ==
  ASSUME WatchdogInv, Poll
  PROVE  /\ mt' \in Terminal /\ ea' \in Ea /\ killed' \in {None, "memory", "cpu", "failures"}
         /\ \/ mt'.at = "absent"
            \/ mt'.at = mt.at /\ mt'.age = IF Present THEN Older(mt.age, Grace) ELSE mt.age
<1>1. mt \in Terminal /\ ea \in Ea /\ Grace \in Nat /\ probe \in [open : BOOLEAN, auth : BOOLEAN]
  BY WatchdogBounds DEF WatchdogInv, TypeOK, Terminal, Ea
<1>2. ASSUME NEW why \in {"memory", "cpu", "failures"}, Terminate(why)
      PROVE  /\ mt' \in Terminal /\ ea' \in Ea /\ killed' \in {None, "memory", "cpu", "failures"}
             /\ mt'.at = "absent"
  <2>1. mt' \in Terminal /\ mt'.at = "absent"
    BY SMTT(30), <1>1, <1>2 DEF Terminate, Terminal
  <2>2. ea' \in Ea
    BY <1>1, <1>2 DEF Terminate, Ea
  <2>3. killed' \in {None, "memory", "cpu", "failures"}
    BY <1>2 DEF Terminate
  <2> QED BY <2>1, <2>2, <2>3
<1>3. ASSUME Aged, ea' = [ea EXCEPT !.auth = AuthAfter]
      PROVE  /\ mt' \in Terminal /\ ea' \in Ea /\ killed' = None
             /\ mt'.at = mt.at /\ mt'.age = IF Present THEN Older(mt.age, Grace) ELSE mt.age
  <2>1. Older(mt.age, Grace) \in 0..Grace
    BY SMTT(30), <1>1 DEF Terminal, Older, Never
  <2>2. AuthAfter \in BOOLEAN
    BY <1>1 DEF AuthAfter, Ea
  <2>3. ea' \in Ea
    BY <1>1, <1>3, <2>2 DEF Ea
  <2>4. mt' \in Terminal /\ mt'.at = mt.at /\ mt'.age = IF Present THEN Older(mt.age, Grace) ELSE mt.age
    <3>1. /\ [mt EXCEPT !.age = Older(mt.age, Grace)] \in Terminal
          /\ [mt EXCEPT !.age = Older(mt.age, Grace)].at = mt.at
          /\ [mt EXCEPT !.age = Older(mt.age, Grace)].age = Older(mt.age, Grace)
      BY <1>1, <2>1 DEF Terminal
    <3>2. mt' = IF Present THEN [mt EXCEPT !.age = Older(mt.age, Grace)] ELSE mt
      BY <1>3 DEF Aged
    <3> QED BY <1>1, <3>1, <3>2
  <2> QED BY <1>3, <2>3, <2>4 DEF Aged
<1>4. \/ \E why \in {"memory", "cpu", "failures"} : Terminate(why)
      \/ Aged /\ ea' = [ea EXCEPT !.auth = AuthAfter]
  BY DEF Poll, Probe
<1> QED BY <1>2, <1>3, <1>4

\* The CPU streak and the polls since the last trip.
LEMMA TurnOfCpu ==
  ASSUME WatchdogInv, Poll
  PROVE  /\ cpu' \in [streak : 0..(CpuPolls - 1), baseline : BOOLEAN]
         /\ quiet' \in Never..CpuPolls
         /\ quiet' # Never => cpu'.streak <= quiet'
         /\ killed' = "cpu" => quiet \in {Never, CpuPolls, CpuPolls - 1}
<1>1. PICK full, throttled \in BOOLEAN :
        /\ IF full
           THEN Terminate("memory") /\ st' = Tracked /\ UNCHANGED <<probe, cpu>>
           ELSE /\ cpu' = CpuNext(throttled)
                /\ IF CpuTrips(throttled)
                   THEN Terminate("cpu") /\ st' = Tracked /\ UNCHANGED probe
                   ELSE Probe(Tracked)
        /\ quiet' = IF ~full /\ CpuTrips(throttled) THEN 0 ELSE Older(quiet, CpuPolls)
  BY DEF Poll
<1>2. /\ CpuPolls \in Nat /\ CpuPolls > 0
      /\ cpu \in [streak : 0..(CpuPolls - 1), baseline : BOOLEAN] /\ quiet \in Never..CpuPolls
      /\ quiet # Never => cpu.streak <= quiet
  BY SMTT(30), WatchdogBounds DEF WatchdogInv, TypeOK
<1>3. cpu.streak \in 0..(CpuPolls - 1) /\ CpuStreak(throttled) \in 0..(cpu.streak + 1)
  BY SMTT(30), <1>2 DEF CpuStreak
<1>4. CASE full
  <2>1. cpu' = cpu /\ quiet' = Older(quiet, CpuPolls) /\ killed' # "cpu"
    BY <1>1, <1>4 DEF Terminate, None
  <2>2. /\ Older(quiet, CpuPolls) \in Never..CpuPolls
        /\ Older(quiet, CpuPolls) # Never => quiet # Never /\ quiet <= Older(quiet, CpuPolls)
    BY SMTT(30), <1>2 DEF Older, Never
  <2>3. quiet' # Never => cpu'.streak <= quiet'
    BY SMTT(30), <1>2, <1>3, <2>1, <2>2 DEF Never
  <2> QED BY <1>2, <2>1, <2>2, <2>3
<1>5. CASE ~full /\ CpuTrips(throttled)
  <2>1. CpuNext(throttled) \in [streak : 0..(CpuPolls - 1), baseline : BOOLEAN]
        /\ CpuNext(throttled).streak = 0
    BY SMTT(30), <1>2, <1>5 DEF CpuNext
  <2>2. cpu' = CpuNext(throttled) /\ quiet' = 0
    BY <1>1, <1>5
  <2>3. quiet \in {Never, CpuPolls, CpuPolls - 1}
    BY SMTT(30), <1>2, <1>3, <1>5 DEF CpuTrips, Never
  <2>4. 0 \in Never..CpuPolls
    BY SMTT(30), <1>2 DEF Never
  <2> QED BY SMTT(30), <2>1, <2>2, <2>3, <2>4
<1>6. CASE ~full /\ ~CpuTrips(throttled)
  <2>1. CpuNext(throttled) = [baseline |-> TRUE, streak |-> CpuStreak(throttled)]
    BY <1>6 DEF CpuNext
  <2>2. CpuStreak(throttled) \in 0..(CpuPolls - 1)
    BY SMTT(30), <1>2, <1>3, <1>6 DEF CpuTrips
  <2>3. cpu' = CpuNext(throttled) /\ quiet' = Older(quiet, CpuPolls) /\ Probe(Tracked)
    BY <1>1, <1>6
  <2>4. cpu' \in [streak : 0..(CpuPolls - 1), baseline : BOOLEAN] /\ cpu'.streak = CpuStreak(throttled)
    BY SMTT(30), <2>1, <2>2, <2>3
  <2>5. /\ Older(quiet, CpuPolls) \in Never..CpuPolls
        /\ Older(quiet, CpuPolls) # Never =>
             quiet # Never /\ (Older(quiet, CpuPolls) = quiet + 1 \/ Older(quiet, CpuPolls) = CpuPolls)
    BY SMTT(30), <1>2 DEF Older, Never
  <2>6. quiet' # Never => cpu'.streak <= quiet'
    BY SMTT(30), <1>2, <1>3, <2>2, <2>3, <2>4, <2>5 DEF Never
  <2>7. killed' # "cpu"
    BY <2>3 DEF Probe, Terminate, Aged, None
  <2> QED BY <2>3, <2>4, <2>5, <2>6, <2>7
<1> QED BY <1>4, <1>5, <1>6

LEMMA PollStep == ASSUME WatchdogInv, Poll PROVE WatchdogInv'
<1>1. /\ mt \in Terminal /\ st \in State /\ seen \in [last : BOOLEAN, missed : BOOLEAN]
      /\ kubelet \in Kubelet /\ left \in 0..MaxTroubles /\ Grace \in Nat /\ Grace > 0
      /\ MaxTroubles \in Nat /\ KubeletPolls \in Nat
  BY SMTT(30), WatchdogBounds DEF WatchdogInv, TypeOK, Terminal, State, Kubelet
<1>2. /\ st' \in State /\ st'.launch = Tracked.launch /\ st'.running = Present
      /\ probe' \in [open : BOOLEAN, auth : BOOLEAN]
  BY TurnOfState
<1>3. /\ mt' \in Terminal /\ ea' \in Ea /\ killed' \in {None, "memory", "cpu", "failures"}
      /\ \/ mt'.at = "absent"
         \/ mt'.at = mt.at /\ mt'.age = IF Present THEN Older(mt.age, Grace) ELSE mt.age
  BY TurnOfTerminal
<1>4. seen' = [seen EXCEPT !.last = Present]
  BY DEF Poll
<1>5. seen' \in [last : BOOLEAN, missed : BOOLEAN] /\ seen'.last = Present /\ seen'.missed = seen.missed
  <2>1. Present \in BOOLEAN
    BY DEF Present
  <2> QED BY <1>1, <1>4, <2>1
<1>6. left' \in 0..MaxTroubles
  BY SMTT(30), <1>1 DEF Poll
<1>7. kubelet' \in Kubelet
  <2>1. Older(kubelet.bad, KubeletPolls) \in 0..KubeletPolls
    BY SMTT(30), <1>1 DEF Kubelet, Older, Never
  <2>2. \E n \in 0..KubeletPolls : kubelet' = [kubelet EXCEPT !.bad = n]
    BY SMTT(30), <1>1, <2>1 DEF Poll
  <2> QED BY <1>1, <2>2 DEF Kubelet
<1>8. Tracked.launch = IF Present /\ ~st.running THEN 0 ELSE Older(st.launch, Grace)
  BY <1>1, TrackedState
<1>9. st.launch \in Never..Grace /\ mt.age \in 0..Grace
  BY <1>1 DEF State, Terminal
<1>10. st'.running => st'.launch # Never
  <2>1. st.running => st.launch # Never
    BY DEF WatchdogInv
  <2> QED BY SMTT(30), <1>1, <1>2, <1>8, <1>9, <2>1 DEF Older, Never
<1>11. Present' /\ ~seen'.missed /\ st'.running => st'.launch <= mt'.age
  <2> SUFFICES ASSUME Present', ~seen'.missed, st'.running PROVE st'.launch <= mt'.age
    OBVIOUS
  <2>1. Present /\ mt'.age = Older(mt.age, Grace) /\ ~seen.missed
    BY <1>2, <1>3, <1>5 DEF Present
  <2>2. CASE ~st.running
    BY SMTT(30), <1>1, <1>2, <1>8, <1>9, <2>1, <2>2 DEF Older, Never
  <2>3. CASE st.running
    <3>1. st.launch # Never /\ st.launch <= mt.age
      BY <2>1, <2>3 DEF WatchdogInv
    <3>2. st.launch \in 0..Grace
      BY SMTT(30), <1>9, <3>1 DEF Never
    <3>3. st'.launch = Older(st.launch, Grace)
      BY <1>2, <1>8, <2>3
    <3> QED BY <1>1, <1>9, <2>1, <3>1, <3>2, <3>3, OlderMonotone
  <2> QED BY <2>2, <2>3
<1>12. TypeOK'
  BY <1>2, <1>3, <1>5, <1>6, <1>7, TurnOfCpu DEF TypeOK, Terminal, Ea, State, Kubelet
<1> QED BY <1>2, <1>5, <1>10, <1>11, <1>12, TurnOfCpu DEF WatchdogInv

LEMMA WorldStep ==
  ASSUME WatchdogInv,
         Respawn \/ Booted \/ MtExits \/ EaReloads \/ LinkLost \/ LinkBack \/ KubeletRestarts
  PROVE  WatchdogInv'
<1>1. CASE Respawn
  BY SMTT(30), <1>1, WatchdogBounds DEF WatchdogInv, TypeOK, Respawn, Present, None
<1>2. CASE Booted
  BY SMTT(30), <1>2, WatchdogBounds DEF WatchdogInv, TypeOK, Booted, Present, None
<1>3. CASE MtExits \/ KubeletRestarts
  <2>1. [at |-> "absent", age |-> 0] \in Terminal
    BY SMTT(30), WatchdogBounds DEF Terminal
  <2>2. /\ mt' = [at |-> "absent", age |-> 0] /\ UNCHANGED <<seen, probe, st, cpu, quiet>>
        /\ killed' = None
    BY <1>3 DEF MtExits, KubeletRestarts
  <2>3. ea' \in Ea
    <3>1. ea \in Ea /\ ea' = [ea EXCEPT !.auth = FALSE]
      BY <1>3 DEF WatchdogInv, TypeOK, Ea, MtExits, KubeletRestarts
    <3> QED BY <3>1 DEF Ea
  <2>4. left' \in 0..MaxTroubles
    BY SMTT(30), <1>3, WatchdogBounds DEF WatchdogInv, TypeOK, MtExits, KubeletRestarts, Trouble
  <2>5. kubelet' \in Kubelet
    <3>1. kubelet \in Kubelet /\ [started |-> FALSE, bad |-> 0] \in Kubelet
      BY SMTT(30), WatchdogBounds DEF WatchdogInv, TypeOK, Kubelet
    <3> QED BY <1>3, <3>1 DEF MtExits, KubeletRestarts
  <2> QED BY <2>1, <2>2, <2>3, <2>4, <2>5 DEF WatchdogInv, TypeOK, Terminal, Ea, Kubelet, Present, None
<1>4. CASE EaReloads \/ LinkLost \/ LinkBack
  <2>1. UNCHANGED <<mt, probe, st, cpu, kubelet, seen, quiet>> /\ killed' = None
    BY <1>4 DEF EaReloads, LinkLost, LinkBack
  <2>2. ea' \in Ea
    <3>1. ea \in Ea /\ \E b \in BOOLEAN : ea' = [ea EXCEPT !.auth = b] \/ ea' = [ea EXCEPT !.connected = b]
      BY <1>4 DEF WatchdogInv, TypeOK, Ea, EaReloads, LinkLost, LinkBack
    <3> QED BY <3>1 DEF Ea
  <2>3. left' \in 0..MaxTroubles
    BY SMTT(30), <1>4, WatchdogBounds DEF WatchdogInv, TypeOK, EaReloads, LinkLost, LinkBack, Trouble
  <2> QED BY SMTT(30), <2>1, <2>2, <2>3 DEF WatchdogInv, TypeOK, Ea, Present, None
<1> QED BY <1>1, <1>2, <1>3, <1>4

LEMMA InvStep == WatchdogInv /\ [Next]_vars => WatchdogInv'
<1>1. WatchdogInv /\ UNCHANGED vars => WatchdogInv'
  BY SMTT(30) DEF WatchdogInv, TypeOK, Present, vars
<1> QED BY <1>1, PollStep, WorldStep DEF Next

LEMMA InvHolds == Spec => []WatchdogInv
  BY InvInit, InvStep, PTL DEF Spec

\* The watchdog's counters stay within their limits, whatever the terminal does.
THEOREM WatchdogTypes == Spec => []TypeOK
<1>1. WatchdogInv => TypeOK
  BY DEF WatchdogInv
<1> QED BY <1>1, InvHolds, PTL

\* Who signals the terminal: the poll loop.
LEMMA OnlyPolls ==
  ASSUME Next, killed' # None
  PROVE  Poll
  BY DEF Next, Respawn, Booted, MtExits, EaReloads, LinkLost, LinkBack, KubeletRestarts

LEMMA GraceStep ==
  ASSUME WatchdogInv, Next, killed' = "failures"
  PROVE  seen.missed \/ mt.age + 1 >= Grace
<1>1. Poll
  BY OnlyPolls DEF None
<1>2. Present /\ ForcesRestart(AfterProbe(Tracked))
  BY <1>1 DEF Poll, Probe, Terminate, Aged, None
<1>3. /\ mt \in Terminal /\ st \in State /\ ea \in Ea /\ probe.auth \in BOOLEAN
      /\ Grace \in Nat /\ Grace > 0
  BY SMTT(30), WatchdogBounds DEF WatchdogInv, TypeOK, Terminal, State, Ea
<1>4. /\ Tracked \in State
      /\ Tracked.launch = IF Present /\ ~st.running THEN 0 ELSE Older(st.launch, Grace)
  BY <1>3, TrackedState
<1>5. AfterProbe(Tracked).launch = Tracked.launch
  BY <1>3, <1>4, AfterProbeState
<1>6. Tracked.launch = Never \/ ~(Tracked.launch < Grace)
  BY <1>2, <1>5 DEF ForcesRestart, InStartupGrace
<1>7. st.running
  BY SMTT(30), <1>2, <1>3, <1>4, <1>6 DEF Never
<1>8. Tracked.launch = Older(st.launch, Grace) /\ st.launch \in 0..Grace /\ mt.age \in 0..Grace
  BY SMTT(30), <1>3, <1>4, <1>7 DEF WatchdogInv, State, Terminal, Never
<1>9. st.launch + 1 >= Grace
  BY SMTT(30), <1>3, <1>6, <1>8 DEF Older, Never
<1>10. seen.missed \/ st.launch <= mt.age
  BY <1>2, <1>7 DEF WatchdogInv
<1> QED BY SMTT(30), <1>3, <1>8, <1>9, <1>10

\* For any grace and any number of respawns: a terminal whose launch the tracker
\* could see is not signalled for failed polls before it is as old as the grace.
THEOREM GraceKept == Spec => BootLeftAlone
<1>1. WatchdogInv /\ [Next]_vars => [killed' = "failures" => seen.missed \/ mt.age + 1 >= Grace]_vars
  BY GraceStep
<1> QED BY <1>1, InvHolds, PTL DEF Spec, BootLeftAlone

\* For any window: a trip of the CPU cap uses up the streak, so the respawned
\* terminal has a whole window before the next.
THEOREM CpuTripsKeptApart == Spec => CpuTripsApart
<1>1. WatchdogInv /\ [Next]_vars =>
        [(killed' = "cpu") => quiet \in {Never, CpuPolls, CpuPolls - 1}]_vars
  BY TurnOfCpu, OnlyPolls DEF None
<1> QED BY <1>1, InvHolds, PTL DEF Spec, CpuTripsApart
=============================================================================
