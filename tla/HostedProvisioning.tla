------------------------- MODULE HostedProvisioning -------------------------
(***************************************************************************)
(* Hosted MetaTrader releases: the Kubernetes provisioner, the recovery    *)
(* service that heals missing or unhealthy releases, and the dashboard     *)
(* routes that create, rotate, test, activate and delete the               *)
(* broker_connections rows they work from.                                 *)
(*                                                                         *)
(* Everything runs as asyncio tasks of one engine process.  A task is       *)
(* interrupted at every Kubernetes, Vault and database call, and two tasks  *)
(* may work on one release at a time: nothing locks a release.  Time is     *)
(* counted in sweep intervals; the timers saturate at the limit the code    *)
(* compares them with.                                                      *)
(***************************************************************************)
EXTENDS Integers, Sequences, FiniteSets

CONSTANTS
  Conns,        \* connection ids, each a uuid that is used once
  Passwords,    \* MT5 passwords a user may type
  Accepted,     \* the ones the broker accepts
  Symbols,      \* names the broker may publish first in Market Watch
  Cooldown,     \* reprovision_cooldown_secs
  Readiness,    \* _READINESS_TIMEOUT_SECS
  Threshold,    \* unhealthy_threshold_secs
  Grace,        \* fresh_provision_grace_secs
  MaxTroubles,  \* errors of Kubernetes, Vault or the EA, pods and StatefulSets
                \* lost behind the engine's back, engine restarts, in all
  MaxEdits      \* dashboard edits after the creation, (set-primary) activations
                \* not counted

\* The order of the defaults: 300 s < 600 s < 1200 s < 1800 s.
ASSUME TimersAssumption ==
  /\ Cooldown \in Nat /\ Readiness \in Nat /\ Threshold \in Nat /\ Grace \in Nat
  /\ 0 < Cooldown /\ Cooldown < Readiness /\ Readiness < Threshold /\ Threshold < Grace

\* "none" stands for the absence of a name.
ASSUME NamesAssumption == Accepted \subseteq Passwords /\ "none" \notin Symbols

VARIABLES
  row,     \* broker_connections, by id: absent, live or deleted
  age,     \* time since created_at
  obj,     \* Kubernetes objects of a release
  sts,     \* MT_SYMBOL in the pod template of its StatefulSet
  vault,   \* what its Vault path holds
  pod,     \* its pod, and the password the Vault Agent rendered into it
  task,    \* the engine's tasks
  since,   \* _last_reprovision: time since the last attempt
  first,   \* _first_unhealthy: time since first seen unhealthy
  booted,  \* the startup sweep of this engine life is still to come
  left     \* what remains of the bounds

vars == <<row, age, obj, sts, vault, pod, task, since, first, booted, left>>
cluster == <<obj, sts, vault, pod>>
timers == <<age, since, first>>

None == "none"
Never == -1

\* The tasks: the background task of the create route, the update route, the
\* delete_account task of the delete route, the sweep loop and the one sweep
\* at startup.
Sweeps == {"loop", "boot"}
Tasks == {"create", "rotate", "delete"} \cup Sweeps

\* What a release consists of: its ServiceAccount and watchdog ConfigMap ("aux"),
\* its StatefulSet, its two Services ("svc"), the PVC.  The two of a pair are
\* created, replaced and deleted one right after the other.
Kinds == {"aux", "sts", "svc", "pvc"}
\* The order in which provision_account creates or replaces the objects.
UpsertOrder == <<"aux", "sts", "svc">>
\* Mutant: the rollback of a failed provision also takes the PVC.
MutCleanupOrder == <<"sts", "svc", "aux", "pvc">>
\* The order of _best_effort_cleanup: neither the PVC nor the Vault path.
CleanupOrder == <<"sts", "svc", "aux">>
\* The order of delete_account and gc_orphans, which do destroy both.
DeleteOrder == <<"sts", "svc", "aux", "pvc", "vault">>

Statuses == {"provisioning", "ready", "failed", "connected", "error"}
Row == [life : {"fresh", "live", "gone"}, status : Statuses \cup {None}, pw : Passwords \cup {None}, tok : {"issued", None},
        sym : Symbols \cup {None}, active : BOOLEAN]
NoRow(life) == [life |-> life, status |-> None, pw |-> None, tok |-> None,
                sym |-> None, active |-> FALSE]
Live(c) == row[c].life = "live"
NoSecret == [pw |-> None, tok |-> None]
NoPod == [st |-> None, pw |-> None]

\* symbol_pending: the sentinel of a first boot.
Pending == "__pending__"
Idle == [pc |-> "idle", c |-> None, i |-> 0, pw |-> None, tok |-> None,
         sym |-> None, pick |-> None, waited |-> 0, rows |-> <<>>]

Spend(what) == left[what] > 0 /\ left' = [left EXCEPT ![what] = @ - 1]
Cap(t, limit) == IF t = Never \/ t = limit THEN t ELSE t + 1

Init ==
  /\ row = [c \in Conns |-> NoRow("fresh")]
  /\ age = [c \in Conns |-> 0]
  /\ obj = [c \in Conns |-> {}]
  /\ sts = [c \in Conns |-> None]
  /\ vault = [c \in Conns |-> NoSecret]
  /\ pod = [c \in Conns |-> NoPod]
  /\ task = [t \in Tasks |-> Idle]
  /\ since = [c \in Conns |-> Never]
  /\ first = [c \in Conns |-> Never]
  /\ booted = FALSE
  /\ left = [troubles |-> MaxTroubles, edits |-> MaxEdits]
-----------------------------------------------------------------------------
(* BrokerConnectionRepository: the row each statement leaves behind.  An update *)
(* of a row that is gone touches nothing.                                       *)

DeactivateAll(rows) == [c \in Conns |-> [rows[c] EXCEPT !.active = FALSE]]

Create(rows, c, pw) ==
  [DeactivateAll(rows) EXCEPT ![c] = [life |-> "live", status |-> "provisioning", pw |-> pw,
                                      tok |-> "issued", sym |-> None, active |-> TRUE]]
Updated(rows, c, r) == IF rows[c].life = "live" THEN [rows EXCEPT ![c] = r] ELSE rows
UpdatePassword(rows, c, pw) == Updated(rows, c, [rows[c] EXCEPT !.pw = pw])
UpdateChartSymbol(rows, c, sym) == Updated(rows, c, [rows[c] EXCEPT !.sym = sym])
UpdateStatus(rows, c, status) == Updated(rows, c, [rows[c] EXCEPT !.status = status])
Activate(rows, c) == Updated(DeactivateAll(rows), c, [rows[c] EXCEPT !.active = TRUE])
\* set_primary activates as well; is_primary is read by nothing in this module.
SetPrimary(rows, c) == Updated(DeactivateAll(rows), c, [rows[c] EXCEPT !.active = TRUE])
Deactivate(rows, c) == Updated(rows, c, [rows[c] EXCEPT !.active = FALSE])
Delete(rows, c) == [rows EXCEPT ![c] = NoRow("gone")]
-----------------------------------------------------------------------------
(* HostedProvisioner.provision_account, one call of it for each task. *)

\* The call, with the arguments its caller took from the row.
Call(t, c, pw, tok, sym) ==
  task' = [task EXCEPT ![t] = [@ EXCEPT !.pc = "vault", !.c = c, !.i = 1,
                                        !.pw = pw, !.tok = tok, !.sym = sym, !.waited = 0]]

\* Mutant: every provision mints a token, the one on the row is not forwarded.
MutEffectiveToken(tok) == "minted"

\* effective_token: the caller's token, or a new one when there is none.
EffectiveToken(tok) == IF tok = None THEN "minted" ELSE tok

\* An error before anything was created (unknown platform or broker, a bundle
\* that is not pinned, no Kubernetes client) or a refused Vault write: it is
\* no ApiException and nothing is rolled back.
Refused(t) ==
  /\ task[t].pc = "vault"
  /\ Spend("troubles")
  /\ task' = [task EXCEPT ![t].pc = "raise"]
  /\ UNCHANGED <<row, timers, cluster, booted>>

WriteVaultCredentials(t) ==
  LET c == task[t].c IN
  /\ task[t].pc = "vault"
  /\ vault' = [vault EXCEPT ![c] = [pw |-> task[t].pw, tok |-> EffectiveToken(task[t].tok)]]
  /\ task' = [task EXCEPT ![t].pc = "upsert", ![t].pw = None, ![t].tok = None]
  /\ UNCHANGED <<row, age, obj, sts, pod, since, first, booted, left>>

\* The template of a StatefulSet carries the time the symbol was resolved and
\* the checksum of the credentials, so every replace rolls the pod.
Rolled(c) == IF pod[c] = NoPod THEN NoPod ELSE [st |-> "boot", pw |-> None]

UpsertDone(t) == IF task[t].i = Len(UpsertOrder)
                 THEN [task EXCEPT ![t].pc = "wait", ![t].i = 0]
                 ELSE [task EXCEPT ![t].i = @ + 1]

UpsertStatefulSet(t) ==
  LET c == task[t].c IN
  /\ task[t].pc = "upsert" /\ UpsertOrder[task[t].i] = "sts"
  /\ obj' = [obj EXCEPT ![c] = @ \cup {"sts"}]
  /\ sts' = [sts EXCEPT ![c] = IF task[t].sym = None THEN Pending ELSE task[t].sym]
  /\ pod' = [pod EXCEPT ![c] = Rolled(c)]
  /\ task' = UpsertDone(t)
  /\ UNCHANGED <<row, age, vault, since, first, booted, left>>

\* _upsert_serviceaccount and _upsert_watchdog_configmap.
UpsertAux(t) ==
  LET c == task[t].c IN
  /\ task[t].pc = "upsert" /\ UpsertOrder[task[t].i] = "aux"
  /\ obj' = [obj EXCEPT ![c] = @ \cup {"aux"}]
  /\ task' = UpsertDone(t)
  /\ UNCHANGED <<row, age, sts, vault, pod, since, first, booted, left>>

UpsertService(t) ==
  LET c == task[t].c IN
  /\ task[t].pc = "upsert" /\ UpsertOrder[task[t].i] = "svc"
  /\ obj' = [obj EXCEPT ![c] = @ \cup {"svc"}]
  /\ task' = UpsertDone(t)
  /\ UNCHANGED <<row, age, sts, vault, pod, since, first, booted, left>>

\* An ApiException after the third try, or any error after the upserts.
ToCleanup(t) == [task EXCEPT ![t] = [Idle EXCEPT !.pc = "cleanup", !.c = task[t].c, !.i = 1,
                                                 !.rows = task[t].rows]]

\* _wait_ready and _zmq_ping: a Ready replica, and an answer through the Service.
Serving(c) == pod[c].st = "up" /\ {"sts", "svc"} \subseteq obj[c]

WaitReady(t) ==
  /\ task[t].pc = "wait" /\ Serving(task[t].c)
  /\ task' = [task EXCEPT ![t].pc = "catalog"]
  /\ UNCHANGED <<row, timers, cluster, booted, left>>

NotReadyInTime(t) ==
  /\ task[t].pc = "wait" /\ task[t].waited = Readiness
  /\ task' = ToCleanup(t)
  /\ UNCHANGED <<row, timers, cluster, booted, left>>

\* A failing upsert, an EA that rejects the PING, a broker that publishes no
\* symbol or cannot be asked.
StepFails(t) ==
  /\ task[t].pc \in {"upsert", "wait", "catalog", "patch", "write"}
  /\ Spend("troubles")
  /\ task' = ToCleanup(t)
  /\ UNCHANGED <<row, timers, cluster, booted>>

\* The resolver runs in every call; its pick counts only when the caller has
\* no symbol yet.
PopulateBrokerCatalog(t) ==
  /\ task[t].pc = "catalog"
  /\ \E pick \in Symbols :
       task' = [task EXCEPT ![t].pc = "patch",
                            ![t].pick = IF task[t].sym = None THEN pick ELSE task[t].sym]
  /\ UNCHANGED <<row, timers, cluster, booted, left>>

\* MT_SYMBOL is patched into the template, which rolls the pod once more; a
\* StatefulSet that is gone by now answers 404, which is an error like any other.
PatchStatefulSetSymbol(t) ==
  LET c == task[t].c IN
  /\ task[t].pc = "patch"
  /\ IF "sts" \in obj[c]
     THEN /\ sts' = [sts EXCEPT ![c] = task[t].pick]
          /\ pod' = [pod EXCEPT ![c] = Rolled(c)]
          /\ task' = [task EXCEPT ![t].pc = IF task[t].sym = None THEN "write" ELSE "return"]
     ELSE task' = ToCleanup(t) /\ UNCHANGED <<sts, pod>>
  /\ UNCHANGED <<row, timers, obj, vault, booted, left>>

\* chart_symbol_writer, by connection id alone: no row, no effect.
WriteChartSymbol(t) ==
  LET c == task[t].c IN
  /\ task[t].pc = "write"
  /\ row' = UpdateChartSymbol(row, c, task[t].pick)
  /\ task' = [task EXCEPT ![t].pc = "return"]
  /\ UNCHANGED <<timers, cluster, booted, left>>

\* One delete: the object goes, or the error is logged and the next one tried.
Deleted(c, kind) ==
  /\ obj' = [obj EXCEPT ![c] = @ \ {kind}]
  /\ sts' = IF kind = "sts" THEN [sts EXCEPT ![c] = None] ELSE sts
  /\ pod' = IF kind = "sts" THEN [pod EXCEPT ![c] = NoPod] ELSE pod
  /\ vault' = IF kind = "vault" THEN [vault EXCEPT ![c] = NoSecret] ELSE vault

SafeDelete(c, kind) == \/ Deleted(c, kind) /\ UNCHANGED left
                       \/ Spend("troubles") /\ UNCHANGED cluster

\* _best_effort_cleanup, after which the error is raised to the caller.
BestEffortCleanup(t) ==
  /\ task[t].pc = "cleanup"
  /\ SafeDelete(task[t].c, CleanupOrder[task[t].i])
  /\ task' = IF task[t].i = Len(CleanupOrder)
             THEN [task EXCEPT ![t].pc = "raise"] ELSE [task EXCEPT ![t].i = @ + 1]
  /\ UNCHANGED <<row, timers, booted>>

ProvisionAccount(t) ==
  \/ Refused(t)
  \/ WriteVaultCredentials(t)
  \/ UpsertStatefulSet(t)
  \/ UpsertAux(t)
  \/ UpsertService(t)
  \/ WaitReady(t)
  \/ NotReadyInTime(t)
  \/ StepFails(t)
  \/ PopulateBrokerCatalog(t)
  \/ PatchStatefulSetSymbol(t)
  \/ WriteChartSymbol(t)
  \/ BestEffortCleanup(t)
-----------------------------------------------------------------------------
(* The dashboard routes.  A transaction of theirs is one step. *)

\* create_broker_connection for a hosted connection: the row is committed with
\* its issued token, then the background task provisions.
CreateBrokerConnection(c) ==
  /\ row[c].life = "fresh" /\ task["create"].pc = "idle"
  /\ \E pw \in Passwords :
       /\ row' = Create(row, c, pw)
       /\ Call("create", c, pw, "issued", None)
  /\ age' = [age EXCEPT ![c] = 0]
  /\ UNCHANGED <<cluster, since, first, booted, left>>

\* run_hosted_provisioner records the outcome on the row, if it still exists.
RunHostedProvisioner ==
  /\ task["create"].pc \in {"return", "raise"}
  /\ row' = UpdateStatus(row, task["create"].c, IF task["create"].pc = "return" THEN "ready" ELSE "failed")
  /\ task' = [task EXCEPT !["create"] = Idle]
  /\ UNCHANGED <<timers, cluster, booted, left>>

\* update_broker_connection with a new password: the row first, then a
\* provision with the row it read back.
UpdateBrokerConnection(c) ==
  /\ Live(c) /\ task["rotate"].pc = "idle" /\ Spend("edits")
  /\ \E pw \in Passwords :
       /\ row' = UpdatePassword(row, c, pw)
       /\ Call("rotate", c, pw, row[c].tok, row[c].sym)
  /\ UNCHANGED <<timers, cluster, booted>>

\* The outcome of a rotation is only logged.
RotationEnds ==
  /\ task["rotate"].pc \in {"return", "raise"}
  /\ task' = [task EXCEPT !["rotate"] = Idle]
  /\ UNCHANGED <<row, timers, cluster, booted, left>>

\* test_broker_connection: a temporary client asks the release.
TestBrokerConnection(c) ==
  /\ Live(c) /\ Spend("edits")
  /\ row' = UpdateStatus(row, c, IF Serving(c) THEN "connected" ELSE "error")
  /\ UNCHANGED <<timers, cluster, task, booted>>

ActivateBrokerConnection(c) ==
  /\ Live(c) /\ row' = Activate(row, c)
  /\ UNCHANGED <<timers, cluster, task, booted, left>>

SetPrimaryBrokerConnection(c) ==
  /\ Live(c) /\ row' = SetPrimary(row, c)
  /\ UNCHANGED <<timers, cluster, task, booted, left>>

DeactivateBrokerConnection(c) ==
  /\ Live(c) /\ Spend("edits")
  /\ row' = Deactivate(row, c)
  /\ UNCHANGED <<timers, cluster, task, booted>>

\* delete_broker_connection: the row, then a delete_account task.
DeleteBrokerConnection(c) ==
  /\ Live(c) /\ task["delete"].pc = "idle" /\ Spend("edits")
  /\ row' = Delete(row, c)
  /\ task' = [task EXCEPT !["delete"] = [Idle EXCEPT !.pc = "delete", !.c = c, !.i = 1]]
  /\ UNCHANGED <<timers, cluster, booted>>

DeleteAccount ==
  /\ task["delete"].pc = "delete"
  /\ SafeDelete(task["delete"].c, DeleteOrder[task["delete"].i])
  /\ task' = IF task["delete"].i = Len(DeleteOrder)
             THEN [task EXCEPT !["delete"] = Idle] ELSE [task EXCEPT !["delete"].i = @ + 1]
  /\ UNCHANGED <<row, timers, booted>>
-----------------------------------------------------------------------------
(* HostedRecoveryService.  Two sweeps share its bookkeeping: the loop's and, *)
(* after a start, the eager one.                                             *)

\* _sweep reads the active rows and the clock once; both are used, however old,
\* for every row of the sweep.
StartSweep(t) ==
  LET todo == {c \in Conns : Live(c) /\ row[c].active} IN
  /\ task[t].pc = "idle" /\ (t = "boot" => booted)
  /\ task' = [task EXCEPT ![t] = [Idle EXCEPT !.pc = "sweep",
       !.rows = [c \in todo |-> [row |-> row[c], since |-> since[c], first |-> first[c]]]]]
  /\ booted' = IF t = "boot" THEN FALSE ELSE booted
  /\ UNCHANGED <<row, timers, cluster, left>>

Rest(t, c) == [d \in DOMAIN task[t].rows \ {c} |-> task[t].rows[d]]
Skip(t, c) == task' = [task EXCEPT ![t].rows = Rest(t, c)]

\* get_account_status raised: the row waits for the next sweep.
StatusUnknown(t) ==
  /\ task[t].pc = "sweep" /\ Spend("troubles")
  /\ \E c \in DOMAIN task[t].rows : Skip(t, c)
  /\ UNCHANGED <<row, timers, cluster, booted>>

Running(c) == "sts" \in obj[c] /\ pod[c].st = "up"

\* The unhealthy clock is read at the start of the sweep, so a first sighting
\* made since then counts as age zero.
AgeSeen(t, c) == IF first[c] = Never \/ task[t].rows[c].first = Never THEN 0 ELSE task[t].rows[c].first

\* Mutants: the cooldown is judged by what was known when the sweep began; it
\* never ends.
MutStaleCoolingDown(t, c) ==
  task[t].rows[c].since # Never /\ task[t].rows[c].since < Cooldown
MutEndlessCoolingDown(t, c) == since[c] # Never

\* An attempt made since the sweep began leaves a negative interval.
CoolingDown(t, c) ==
  /\ since[c] # Never
  /\ task[t].rows[c].since = Never \/ task[t].rows[c].since < Cooldown

\* Mutant: no grace for a fresh connection.
MutMayReprovision(t, c) ==
  /\ ~Running(c)
  /\ ~(t = "loop" /\ "sts" \in obj[c] /\ AgeSeen(t, c) < Threshold)
  /\ ~CoolingDown(t, c)

MayReprovision(t, c) ==
  /\ ~Running(c)
  /\ age[c] = Grace
  /\ ~(t = "loop" /\ "sts" \in obj[c] /\ AgeSeen(t, c) < Threshold)
  /\ ~CoolingDown(t, c)

\* A row the sweep passes over: running, too fresh, not unhealthy for long
\* enough, or tried a short while ago.
PassOver(t) ==
  /\ task[t].pc = "sweep"
  /\ \E c \in DOMAIN task[t].rows :
       /\ ~MayReprovision(t, c)
       /\ first' = [first EXCEPT ![c] = IF Running(c) THEN Never
                                        ELSE IF age[c] = Grace /\ @ = Never THEN 0 ELSE @]
       /\ Skip(t, c)
  /\ UNCHANGED <<row, age, since, cluster, booted, left>>

\* _reprovision works from the sweep's copy of the row: its password, token
\* and symbol.  A row that is marked failed is left to the operator.
Attempted(t, c) == [s \in Tasks |-> IF s # t /\ c \in DOMAIN task[s].rows
                                    THEN [task[s] EXCEPT !.rows[c].since = Never] ELSE task[s]]

Reprovision(t) ==
  /\ task[t].pc = "sweep"
  /\ \E c \in DOMAIN task[t].rows :
       LET r == task[t].rows[c].row IN
       /\ MayReprovision(t, c)
       /\ since' = [since EXCEPT ![c] = 0]
       /\ IF r.status = "failed"
          THEN /\ task' = [Attempted(t, c) EXCEPT ![t].rows = Rest(t, c)]
               /\ first' = [first EXCEPT ![c] = Never]
          ELSE /\ task' = [Attempted(t, c) EXCEPT ![t] =
                    [@ EXCEPT !.pc = "vault", !.c = c, !.i = 1, !.pw = r.pw, !.tok = r.tok,
                              !.sym = r.sym, !.waited = 0, !.rows = Rest(t, c)]]
               /\ first' = [first EXCEPT ![c] = IF @ = Never THEN 0 ELSE @]
  /\ UNCHANGED <<row, age, cluster, booted, left>>

\* A success starts a new unhealthy window, a failure keeps the old one.
ReprovisionEnds(t) ==
  LET c == task[t].c IN
  /\ task[t].pc \in {"return", "raise"}
  /\ first' = IF task[t].pc = "return" THEN [first EXCEPT ![c] = Never] ELSE first
  /\ task' = [task EXCEPT ![t] = [Idle EXCEPT !.pc = "sweep", !.rows = task[t].rows]]
  /\ UNCHANGED <<row, age, since, cluster, booted, left>>

\* The loop sleeps for one interval.
EndSweep(t) ==
  /\ task[t].pc = "sweep" /\ DOMAIN task[t].rows = {}
  /\ task' = [task EXCEPT ![t] = [Idle EXCEPT !.pc = IF t = "loop" THEN "sleep" ELSE "idle"]]
  /\ UNCHANGED <<row, timers, cluster, booted, left>>

Sweep(t) == \/ StartSweep(t) \/ StatusUnknown(t) \/ PassOver(t)
            \/ Reprovision(t) \/ ReprovisionEnds(t) \/ EndSweep(t)
-----------------------------------------------------------------------------
(* Kubernetes, the pod, and the engine's own restarts. *)

\* The StatefulSet controller starts a pod, with its PVC; the Vault Agent needs
\* the account and the secret, the watchdog its ConfigMap.
PodStarts(c) ==
  /\ {"sts", "aux"} \subseteq obj[c] /\ vault[c] # NoSecret
  /\ pod[c].st \in {None, "boot"} /\ pod[c].pw = None
  /\ pod' = [pod EXCEPT ![c] = [st |-> "boot", pw |-> vault[c].pw]]
  /\ obj' = [obj EXCEPT ![c] = @ \cup {"pvc"}]
  /\ UNCHANGED <<row, timers, sts, vault, task, booted, left>>

\* Ready once the EA is logged in at the broker.
PodReady(c) ==
  /\ pod[c].st = "boot" /\ pod[c].pw \in Accepted
  /\ pod' = [pod EXCEPT ![c].st = "up"]
  /\ UNCHANGED <<row, timers, obj, sts, vault, task, booted, left>>

PodLost(c) ==
  /\ pod[c] # NoPod /\ Spend("troubles")
  /\ pod' = [pod EXCEPT ![c] = Rolled(c)]
  /\ UNCHANGED <<row, timers, obj, sts, vault, task, booted>>

\* kubectl delete, a prune, a wiped namespace.
StatefulSetLost(c) ==
  /\ "sts" \in obj[c] /\ Spend("troubles")
  /\ Deleted(c, "sts")
  /\ UNCHANGED <<row, timers, task, booted>>

\* The tasks and the bookkeeping are gone; lifespan arms both sweeps again.
EngineRestarts ==
  /\ Spend("troubles")
  /\ task' = [t \in Tasks |-> Idle]
  /\ since' = [c \in Conns |-> Never]
  /\ first' = [c \in Conns |-> Never]
  /\ booted' = TRUE
  /\ UNCHANGED <<row, age, cluster>>

\* An interval passes; the steps above are short beside it, only the readiness
\* gate and the sleep span intervals.
Tick ==
  /\ ~booted
  /\ \A t \in Tasks : \/ task[t].pc \in {"idle", "sleep"}
                      \/ task[t].pc = "wait" /\ task[t].waited < Readiness /\ ~Serving(task[t].c)
  /\ task' = [t \in Tasks |-> CASE task[t].pc = "wait" -> [task[t] EXCEPT !.waited = @ + 1]
                                [] task[t].pc = "sleep" -> Idle
                                [] OTHER -> task[t]]
  /\ age' = [c \in Conns |-> Cap(age[c], Grace)]
  /\ since' = [c \in Conns |-> Cap(since[c], Cooldown)]
  /\ first' = [c \in Conns |-> Cap(first[c], Threshold)]
  /\ UNCHANGED <<row, cluster, booted, left>>

Route(c) == \/ CreateBrokerConnection(c) \/ UpdateBrokerConnection(c)
            \/ TestBrokerConnection(c) \/ ActivateBrokerConnection(c)
            \/ SetPrimaryBrokerConnection(c)
            \/ DeactivateBrokerConnection(c) \/ DeleteBrokerConnection(c)

Next ==
  \/ \E t \in Tasks : ProvisionAccount(t)
  \/ RunHostedProvisioner \/ RotationEnds \/ DeleteAccount
  \/ \E t \in Sweeps : Sweep(t)
  \/ \E c \in Conns : Route(c)
  \/ \E c \in Conns : PodStarts(c) \/ PodReady(c) \/ PodLost(c) \/ StatefulSetLost(c)
  \/ EngineRestarts
  \/ Tick

Spec == Init /\ [][Next]_vars

\* The event loop keeps running whichever of its tasks can run, and time passes.
Engine ==
  \/ \E t \in Tasks : ProvisionAccount(t)
  \/ RunHostedProvisioner \/ RotationEnds \/ DeleteAccount
  \/ \E t \in Sweeps : Sweep(t)
  \/ Tick

FairSpec == Spec /\ WF_vars(Engine)
-----------------------------------------------------------------------------
\* The shape of the state; a StatefulSet always names a symbol or the sentinel
\* of a first boot, never an empty MT_SYMBOL (build_statefulset_spec).
TypeOK ==
  /\ row \in [Conns -> Row]
  /\ age \in [Conns -> 0..Grace]
  /\ obj \in [Conns -> SUBSET Kinds]
  /\ sts \in [Conns -> Symbols \cup {None, Pending}]
  /\ \A c \in Conns : "sts" \in obj[c] <=> sts[c] # None
  /\ vault \in [Conns -> [pw : Passwords \cup {None}, tok : {"issued", "minted", None}]]
  /\ pod \in [Conns -> [st : {"boot", "up", None}, pw : Passwords \cup {None}]]
  /\ since \in [Conns -> Never..Cooldown] /\ first \in [Conns -> Never..Threshold]
  /\ \A t \in Tasks : task[t].waited \in 0..Readiness /\ DOMAIN task[t].rows \subseteq Conns

Provisioning(t, c) == task[t].c = c /\ task[t].pc \notin {"idle", "sleep", "sweep", "delete"}

\* Whoever provisioned a release last - the create task, a rotation, a sweep that
\* works from an old copy of the row - the token in its Vault path is the one
\* ZmqClient reads from the row: nobody locks the engine out of its own pod.
TokenMatchesRow ==
  \A c \in Conns : vault[c] # NoSecret /\ Live(c) => vault[c].tok = row[c].tok

\* The Wine prefix and the credentials of a release outlive every failed
\* provision, rollback, restart and drift: they are destroyed only once the user
\* has deleted the connection (_best_effort_cleanup must never touch them).
PrefixOutlivesErrors ==
  [][\A c \in Conns : \/ "pvc" \in obj[c] /\ "pvc" \notin obj'[c]
                      \/ vault[c] # NoSecret /\ vault'[c] = NoSecret
                      => row[c].life = "gone"]_vars

\* The recovery service never works on a connection whose first provision is
\* still running: the grace period covers the create task's readiness gate.
FirstBootUndisturbed ==
  \A c \in Conns : Provisioning("create", c) => ~\E t \in Sweeps : Provisioning(t, c)

\* Within one engine life two recovery attempts at a connection are at least a
\* cooldown apart, although two sweeps with clocks of their own share the table.
AttemptsSpaced ==
  [][\A c \in Conns : \A t \in Sweeps :
       ~Provisioning(t, c) /\ Provisioning(t, c)' => since[c] \in {Never, Cooldown}]_vars

\* A connection that is active and not marked failed does not stay without its
\* StatefulSet: a sweep creates it again, or the row stops asking for it.
MissingIsRebuilt ==
  \A c \in Conns :
    (Live(c) /\ row[c].active /\ row[c].status # "failed" /\ "sts" \notin obj[c])
      ~> ("sts" \in obj[c] \/ ~Live(c) \/ ~row[c].active \/ row[c].status = "failed")
=============================================================================
