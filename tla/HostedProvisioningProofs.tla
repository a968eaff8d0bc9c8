---------------------- MODULE HostedProvisioningProofs ----------------------
(***************************************************************************)
(* For any number of connections, passwords and symbols, any order-        *)
(* respecting timers, and any number of troubles and edits: what the       *)
(* provisioner, the recovery service and the dashboard routes never do to  *)
(* a hosted release, although nothing locks it.                            *)
(***************************************************************************)
EXTENDS HostedProvisioning, TLAPS

\* Most leaves are first-order; those that need arithmetic or records cite SMT.
USE ZenonT(30)

(* What one task may look like, whatever the other tasks do. *)

Off == {"idle", "sleep", "sweep"}
Prov(x) == x.pc \notin {"idle", "sleep", "sweep", "delete"}
\* The part of provision_account in which time may pass, from its start on.
Gate == {"vault", "upsert", "wait"}
Pcs == Off \cup Gate \cup {"catalog", "patch", "write", "return", "raise", "cleanup", "delete"}

Copy == [row : Row, since : Never..Cooldown, first : Never..Threshold]
RowCopies == UNION {[D -> Copy] : D \in SUBSET Conns}
TaskRecord == [pc : Pcs, c : Conns \cup {None}, i : 0..5, pw : Passwords \cup {None},
               tok : {"issued", None}, sym : Symbols \cup {None}, pick : Symbols \cup {None},
               waited : 0..Readiness, rows : RowCopies]

\* A task at work has a connection; it is within the list it works through;
\* the symbol it writes is one; the token it provisions with was issued, and so
\* were those in its copies of rows; the readiness gate starts at zero.
GoodTask(x) ==
  /\ x \in TaskRecord
  /\ x.pc \notin Off => x.c \in Conns
  /\ x.pc \in {"upsert", "cleanup"} => x.i \in 1..3
  /\ x.pc = "delete" => x.i \in 1..5
  /\ x.pc \in {"patch", "write"} => x.pick \in Symbols
  /\ x.pc = "vault" => x.tok = "issued" /\ x.i = 1
  /\ x.pc \in {"vault", "upsert"} => x.waited = 0
  /\ \A c \in DOMAIN x.rows : x.rows[c].row.tok = "issued"

\* A task and the tables it has read: nothing is known of a connection before it
\* is created; what is being deleted is gone; the time of the last attempt only
\* grew since the sweep began, unless the copy was told of a new one.
Fits(x, rows, ages) ==
  /\ x.pc \notin Off => rows[x.c].life # "fresh"
  /\ x.pc = "delete" => rows[x.c].life = "gone"
  /\ \A c \in DOMAIN x.rows :
       /\ rows[c].life # "fresh"
       /\ x.rows[c].since # Never => x.rows[c].since <= ages[c]

\* While the create task provisions a connection, the connection is younger than
\* the readiness gate is long, and no sweep works on it.
FirstBoot(tasks, ages) ==
  Prov(tasks["create"]) =>
    /\ ages[tasks["create"].c] <= Readiness
    /\ tasks["create"].pc \in Gate => ages[tasks["create"].c] <= tasks["create"].waited
    /\ \A s \in Sweeps : Prov(tasks[s]) => tasks[s].c # tasks["create"].c

TasksOK ==
  /\ DOMAIN task = Tasks
  /\ \A t \in Tasks : GoodTask(task[t]) /\ Fits(task[t], row, since)
  /\ FirstBoot(task, age)

RowsOK ==
  /\ row \in [Conns -> Row]
  /\ \A c \in Conns : Live(c) => row[c].tok = "issued"

ClocksOK ==
  age \in [Conns -> 0..Grace] /\ since \in [Conns -> Never..Cooldown] /\ first \in [Conns -> Never..Threshold]

ClusterOK ==
  /\ obj \in [Conns -> SUBSET Kinds]
  /\ sts \in [Conns -> Symbols \cup {None, Pending}]
  /\ \A c \in Conns : "sts" \in obj[c] <=> sts[c] # None
  /\ vault \in [Conns -> [pw : Passwords \cup {None}, tok : {"issued", None}]]
  /\ \A c \in Conns : vault[c] = NoSecret \/ vault[c].tok = "issued"
  /\ pod \in [Conns -> [st : {"boot", "up", None}, pw : Passwords \cup {None}]]

HostedInv == TasksOK /\ RowsOK /\ ClocksOK /\ ClusterOK

-----------------------------------------------------------------------------
(* What the invariant says. *)

LEMMA InvType == HostedInv => TypeOK
<1> SUFFICES ASSUME HostedInv PROVE TypeOK
  OBVIOUS
<1>1. \A t \in Tasks : task[t].waited \in 0..Readiness /\ DOMAIN task[t].rows \subseteq Conns
  <2> TAKE t \in Tasks
  <2>1. task[t] \in TaskRecord
    BY DEF HostedInv, TasksOK, GoodTask
  <2>2. task[t].waited \in 0..Readiness /\ task[t].rows \in RowCopies
    BY <2>1 DEF TaskRecord
  <2> QED BY <2>2 DEF RowCopies
<1>2. vault \in [Conns -> [pw : Passwords \cup {None}, tok : {"issued", "minted", None}]]
  BY DEF HostedInv, ClusterOK
<1> QED
  BY <1>1, <1>2 DEF HostedInv, RowsOK, ClocksOK, ClusterOK, TypeOK

LEMMA InvToken == HostedInv => TokenMatchesRow
  BY DEF HostedInv, RowsOK, ClusterOK, TokenMatchesRow

LEMMA InvFirstBoot == HostedInv => FirstBootUndisturbed
<1> SUFFICES ASSUME HostedInv, NEW c \in Conns, Provisioning("create", c), NEW t \in Sweeps,
                    Provisioning(t, c)
             PROVE  FALSE
  BY DEF FirstBootUndisturbed
<1> QED
  BY DEF HostedInv, TasksOK, FirstBoot, Provisioning, Prov

LEMMA IdleIsGood ==
  /\ GoodTask(Idle) /\ DOMAIN Idle.rows = {} /\ Idle.pc = "idle"
  /\ Idle \in TaskRecord
<1>1. Idle.rows \in RowCopies /\ DOMAIN Idle.rows = {}
  <2>1. <<>> \in [{} -> Copy]
    BY SMTT(30)
  <2> QED BY <2>1 DEF Idle, RowCopies
<1>2. Idle \in TaskRecord
  BY SMTT(30), <1>1, TimersAssumption DEF Idle, TaskRecord, Pcs, Off, Gate
<1> QED
  BY <1>1, <1>2 DEF GoodTask, Idle, Off

LEMMA InvInit == Init => HostedInv
<1> SUFFICES ASSUME Init PROVE HostedInv
  OBVIOUS
<1>1. TasksOK
  <2>1. \A t \in Tasks : task[t] = Idle
    BY DEF Init
  <2> QED
    BY <2>1, IdleIsGood DEF Init, TasksOK, Fits, FirstBoot, Off, Prov, Tasks
<1>2. RowsOK
  BY DEF Init, RowsOK, NoRow, Row, Live, Statuses
<1>3. ClocksOK
  BY SMTT(30), TimersAssumption DEF Init, ClocksOK, Never
<1>4. ClusterOK
  BY DEF Init, ClusterOK, NoSecret, NoPod, None, Pending
<1> QED
  BY <1>1, <1>2, <1>3, <1>4 DEF HostedInv

-----------------------------------------------------------------------------
(* What a step may do to the rows: none is fresh again, what is gone stays gone. *)

RowMoves ==
  /\ RowsOK'
  /\ \A c \in Conns : /\ row'[c].life = "fresh" => row[c].life = "fresh"
                      /\ row[c].life = "gone" => row'[c].life = "gone"

LEMMA RowsKept == ASSUME RowsOK, row' = row PROVE RowMoves
  BY DEF RowsOK, RowMoves, Live

\* An update of one row that keeps its life and its token.
LEMMA UpdatedMoves ==
  ASSUME RowsOK, NEW rs \in [Conns -> Row],
         \A d \in Conns : rs[d].life = row[d].life /\ rs[d].tok = row[d].tok,
         NEW c \in Conns, NEW x \in Row, x.life = row[c].life, x.tok = row[c].tok,
         row' = Updated(rs, c, x)
  PROVE  RowMoves
<1>1. row' \in [Conns -> Row]
  BY DEF Updated
<1>2. \A d \in Conns : row'[d].life = row[d].life /\ row'[d].tok = row[d].tok
  BY DEF Updated
<1> QED
  BY <1>1, <1>2 DEF RowsOK, RowMoves, Live

LEMMA DeactivateAllRows ==
  ASSUME RowsOK
  PROVE  /\ DeactivateAll(row) \in [Conns -> Row]
         /\ \A d \in Conns : /\ DeactivateAll(row)[d].life = row[d].life
                             /\ DeactivateAll(row)[d].tok = row[d].tok
<1> SUFFICES ASSUME NEW d \in Conns
             PROVE  /\ [row[d] EXCEPT !.active = FALSE] \in Row
                    /\ [row[d] EXCEPT !.active = FALSE].life = row[d].life
                    /\ [row[d] EXCEPT !.active = FALSE].tok = row[d].tok
  BY DEF DeactivateAll
<1>1. row[d] \in Row
  BY DEF RowsOK
<1> QED BY <1>1 DEF Row

LEMMA RowStatements ==
  ASSUME RowsOK, NEW c \in Conns,
         \/ \E pw \in Passwords : row' = UpdatePassword(row, c, pw)
         \/ \E sym \in Symbols : row' = UpdateChartSymbol(row, c, sym)
         \/ \E status \in Statuses : row' = UpdateStatus(row, c, status)
         \/ row' = Activate(row, c) \/ row' = SetPrimary(row, c) \/ row' = Deactivate(row, c)
  PROVE  RowMoves
<1>1. row[c] \in Row /\ row \in [Conns -> Row]
  BY DEF RowsOK
<1>2. ASSUME NEW x, \/ \E pw \in Passwords : x = [row[c] EXCEPT !.pw = pw]
                    \/ \E sym \in Symbols : x = [row[c] EXCEPT !.sym = sym]
                    \/ \E status \in Statuses : x = [row[c] EXCEPT !.status = status]
                    \/ x = [row[c] EXCEPT !.active = TRUE]
                    \/ x = [row[c] EXCEPT !.active = FALSE]
      PROVE  x \in Row /\ x.life = row[c].life /\ x.tok = row[c].tok
  BY <1>1, <1>2 DEF Row
<1>3. \E x : /\ \/ \E pw \in Passwords : x = [row[c] EXCEPT !.pw = pw]
                \/ \E sym \in Symbols : x = [row[c] EXCEPT !.sym = sym]
                \/ \E status \in Statuses : x = [row[c] EXCEPT !.status = status]
                \/ x = [row[c] EXCEPT !.active = TRUE]
                \/ x = [row[c] EXCEPT !.active = FALSE]
             /\ row' = Updated(row, c, x) \/ row' = Updated(DeactivateAll(row), c, x)
  BY DEF UpdatePassword, UpdateChartSymbol, UpdateStatus, Activate, SetPrimary, Deactivate
<1>4. PICK x \in Row : /\ x.life = row[c].life /\ x.tok = row[c].tok
                       /\ row' = Updated(row, c, x) \/ row' = Updated(DeactivateAll(row), c, x)
  BY <1>2, <1>3
<1>5. CASE row' = Updated(row, c, x)
  BY <1>1, <1>4, <1>5, UpdatedMoves
<1>6. CASE row' = Updated(DeactivateAll(row), c, x)
  BY <1>4, <1>6, DeactivateAllRows, UpdatedMoves
<1> QED BY <1>4, <1>5, <1>6

LEMMA CreateMoves ==
  ASSUME RowsOK, NEW c \in Conns, NEW pw \in Passwords, row[c].life = "fresh",
         row' = Create(row, c, pw)
  PROVE  RowMoves /\ row'[c].life = "live"
<1> DEFINE x == [life |-> "live", status |-> "provisioning", pw |-> pw,
                 tok |-> "issued", sym |-> None, active |-> TRUE]
<1>1. x \in Row /\ x.life = "live" /\ x.tok = "issued"
  BY DEF Row, Statuses
<1>2. row' = [DeactivateAll(row) EXCEPT ![c] = x]
  BY DEF Create
<1> HIDE DEF x
<1>3. row' \in [Conns -> Row] /\ row'[c] = x
  BY <1>1, <1>2, DeactivateAllRows
<1>4. \A d \in Conns : d # c => row'[d].life = row[d].life /\ row'[d].tok = row[d].tok
  BY <1>2, DeactivateAllRows
<1> QED
  BY <1>1, <1>3, <1>4 DEF RowsOK, RowMoves, Live

LEMMA DeleteMoves ==
  ASSUME RowsOK, NEW c \in Conns, row' = Delete(row, c)
  PROVE  RowMoves /\ row'[c].life = "gone"
<1>1. NoRow("gone") \in Row /\ NoRow("gone").life = "gone"
  BY DEF NoRow, Row
<1>2. row' = [row EXCEPT ![c] = NoRow("gone")]
  BY DEF Delete
<1>3. row' \in [Conns -> Row] /\ row'[c].life = "gone"
  BY <1>1, <1>2 DEF RowsOK
<1>4. \A d \in Conns : d # c => row'[d] = row[d]
  BY <1>2 DEF RowsOK
<1> QED
  BY <1>3, <1>4 DEF RowsOK, RowMoves, Live

-----------------------------------------------------------------------------
(* A step of one task that narrows what it is about: it provisions nothing it  *)
(* did not provision before, and has no copy of a row it did not have.         *)

Narrow(x, y) ==
  /\ y.pc \notin Off => x.pc \notin Off /\ y.c = x.c
  /\ y.pc = "delete" => x.pc = "delete"
  /\ Prov(y) => Prov(x)
  /\ y.pc \in Gate => x.pc \in Gate /\ y.waited = x.waited
  /\ DOMAIN y.rows \subseteq DOMAIN x.rows
  /\ \A c \in DOMAIN y.rows : y.rows[c] = x.rows[c]

LEMMA CopiesOf ==
  ASSUME NEW x, GoodTask(x)
  PROVE  /\ DOMAIN x.rows \subseteq Conns
         /\ x.rows \in [DOMAIN x.rows -> Copy]
<1>1. x.rows \in RowCopies
  BY DEF GoodTask, TaskRecord
<1> QED BY <1>1 DEF RowCopies

\* The tables may move on under a task that does nothing.
LEMMA FitsStays ==
  ASSUME NEW x, GoodTask(x), Fits(x, row, since), RowMoves, RowsOK, since' = since
  PROVE  Fits(x, row', since')
<1>1. DOMAIN x.rows \subseteq Conns
  BY CopiesOf
<1>2. x.pc \notin Off => x.c \in Conns
  BY DEF GoodTask
<1> QED
  BY <1>1, <1>2 DEF Fits, RowMoves, Off

LEMMA NarrowStep ==
  ASSUME HostedInv, NEW t \in Tasks, NEW y, GoodTask(y), Narrow(task[t], y),
         task' = [task EXCEPT ![t] = y],
         RowMoves, since' = since, age' = age
  PROVE  TasksOK'
<1>1. /\ DOMAIN task = Tasks /\ RowsOK
      /\ \A s \in Tasks : GoodTask(task[s]) /\ Fits(task[s], row, since)
      /\ FirstBoot(task, age)
  BY DEF HostedInv, TasksOK
<1>2. DOMAIN task' = Tasks /\ task'[t] = y /\ \A s \in Tasks : s # t => task'[s] = task[s]
  BY <1>1
<1>3. Fits(y, row, since)
  <2>1. Fits(task[t], row, since)
    BY <1>1
  <2> QED BY <2>1 DEF Fits, Narrow, Off
<1>4. \A s \in Tasks : GoodTask(task'[s]) /\ Fits(task'[s], row', since')
  <2> TAKE s \in Tasks
  <2>1. GoodTask(task'[s]) /\ Fits(task'[s], row, since)
    BY <1>1, <1>2, <1>3
  <2> QED BY <1>1, <2>1, FitsStays
<1>5. FirstBoot(task', age')
  <2>1. "create" \in Tasks /\ "create" \notin Sweeps /\ Sweeps \subseteq Tasks
    BY DEF Tasks, Sweeps
  <2>2. \A s \in Sweeps : Prov(task'[s]) => Prov(task[s]) /\ task'[s].c = task[s].c
    BY <1>2, <2>1 DEF Narrow, Prov, Off
  <2>3. /\ Prov(task'["create"]) => Prov(task["create"]) /\ task'["create"].c = task["create"].c
        /\ task'["create"].pc \in Gate => /\ task["create"].pc \in Gate
                                          /\ task'["create"].waited = task["create"].waited
    BY <1>2, <2>1 DEF Narrow, Prov, Off
  <2> QED BY <1>1, <2>2, <2>3 DEF FirstBoot
<1> QED
  BY <1>2, <1>4, <1>5 DEF TasksOK

\* No task moves.
LEMMA TasksStay ==
  ASSUME HostedInv, task' = task, RowMoves, since' = since, age' = age
  PROVE  TasksOK'
  BY FitsStays DEF HostedInv, TasksOK

-----------------------------------------------------------------------------
(* The cluster. *)

LEMMA ClusterStays == ASSUME ClusterOK, UNCHANGED cluster PROVE ClusterOK'
  BY DEF ClusterOK, cluster

LEMMA ClocksStay == ASSUME ClocksOK, UNCHANGED timers PROVE ClocksOK'
  BY DEF ClocksOK, timers

LEMMA DeletedKeeps ==
  ASSUME ClusterOK, NEW c \in Conns, NEW kind \in Kinds \cup {"vault"}, Deleted(c, kind)
  PROVE  ClusterOK'
<1>1. obj' \in [Conns -> SUBSET Kinds] /\ \A d \in Conns : "sts" \in obj'[d] <=> sts'[d] # None
  BY DEF ClusterOK, Deleted
<1>2. sts' \in [Conns -> Symbols \cup {None, Pending}]
  BY DEF ClusterOK, Deleted
<1>3. /\ vault' \in [Conns -> [pw : Passwords \cup {None}, tok : {"issued", None}]]
      /\ \A d \in Conns : vault'[d] = NoSecret \/ vault'[d].tok = "issued"
  <2>1. NoSecret \in [pw : Passwords \cup {None}, tok : {"issued", None}]
    BY DEF NoSecret
  <2> QED BY <2>1 DEF ClusterOK, Deleted
<1>4. pod' \in [Conns -> [st : {"boot", "up", None}, pw : Passwords \cup {None}]]
  <2>1. NoPod \in [st : {"boot", "up", None}, pw : Passwords \cup {None}]
    BY DEF NoPod
  <2> QED BY <2>1 DEF ClusterOK, Deleted
<1> QED BY <1>1, <1>2, <1>3, <1>4 DEF ClusterOK

LEMMA SafeDeleteKeeps ==
  ASSUME ClusterOK, NEW c \in Conns, NEW kind \in Kinds \cup {"vault"}, SafeDelete(c, kind)
  PROVE  ClusterOK'
  BY DeletedKeeps, ClusterStays DEF SafeDelete

LEMMA RolledPod ==
  ASSUME ClusterOK, NEW c \in Conns
  PROVE  Rolled(c) \in [st : {"boot", "up", None}, pw : Passwords \cup {None}]
  BY DEF Rolled, NoPod

-----------------------------------------------------------------------------
(* provision_account *)

\* A task that goes on within its call with the same connection and copies.
LEMMA GoesOn ==
  ASSUME NEW x, NEW y, GoodTask(x), y \in TaskRecord, Prov(x), Prov(y), y.c = x.c, y.rows = x.rows,
         y.pc \in Gate => x.pc \in Gate /\ y.waited = x.waited,
         y.pc \in {"upsert", "cleanup"} => y.i \in 1..3,
         y.pc \in {"patch", "write"} => y.pick \in Symbols,
         y.pc = "vault" => y.tok = "issued" /\ y.i = 1,
         y.pc \in {"vault", "upsert"} => y.waited = 0
  PROVE  GoodTask(y) /\ Narrow(x, y)
  BY DEF GoodTask, Narrow, Prov, Off

\* A record whose place and counter move.
Moved(x, pc, i) == [x EXCEPT !.pc = pc, !.i = i]

LEMMA MovedRecord ==
  ASSUME NEW x \in TaskRecord, NEW pc \in Pcs, NEW i \in 0..5
  PROVE  /\ Moved(x, pc, i) \in TaskRecord
         /\ Moved(x, pc, i).pc = pc /\ Moved(x, pc, i).i = i
         /\ Moved(x, pc, i).c = x.c /\ Moved(x, pc, i).rows = x.rows
         /\ Moved(x, pc, i).waited = x.waited
  BY DEF TaskRecord, Moved

\* A record that starts from Idle.
Fresh(pc, c, i, rows) == [Idle EXCEPT !.pc = pc, !.c = c, !.i = i, !.rows = rows]

LEMMA FreshRecord ==
  ASSUME NEW pc \in Pcs, NEW c \in Conns \cup {None}, NEW i \in 0..5, NEW rows \in RowCopies
  PROVE  /\ Fresh(pc, c, i, rows) \in TaskRecord
         /\ Fresh(pc, c, i, rows).pc = pc /\ Fresh(pc, c, i, rows).c = c
         /\ Fresh(pc, c, i, rows).i = i /\ Fresh(pc, c, i, rows).rows = rows
<1>1. ASSUME NEW z \in TaskRecord
      PROVE  LET y == [z EXCEPT !.pc = pc, !.c = c, !.i = i, !.rows = rows]
             IN  /\ y \in TaskRecord
                 /\ y.pc = pc /\ y.c = c /\ y.i = i /\ y.rows = rows
  BY DEF TaskRecord
<1> QED BY <1>1, IdleIsGood DEF Fresh

LEMMA ToCleanupStep ==
  ASSUME HostedInv, NEW t \in Tasks, Prov(task[t]), task' = ToCleanup(t),
         UNCHANGED <<row, timers, cluster>>
  PROVE  HostedInv'
<1> DEFINE x == task[t]
           y == Fresh("cleanup", x.c, 1, x.rows)
<1>1. x \in TaskRecord /\ GoodTask(x)
  BY DEF HostedInv, TasksOK, GoodTask
<1>2. y \in TaskRecord /\ y.pc = "cleanup" /\ y.c = x.c /\ y.i = 1 /\ y.rows = x.rows
  <2>1. x.c \in Conns \cup {None} /\ x.rows \in RowCopies /\ "cleanup" \in Pcs
    BY <1>1 DEF TaskRecord, Pcs
  <2> QED BY SMTT(30), <2>1, FreshRecord
<1>3. task' = [task EXCEPT ![t] = y]
  BY DEF ToCleanup, Fresh
<1> HIDE DEF y
<1>4. GoodTask(y) /\ Narrow(x, y)
  BY SMTT(30), <1>1, <1>2, GoesOn DEF Prov, Gate
<1> QED
  BY <1>3, <1>4, NarrowStep, RowsKept, ClusterStays, ClocksStay DEF HostedInv, RowMoves, timers

\* A step of the call that changes the cluster only in a way that keeps it well
\* formed, and the task only in a way that goes on.
LEMMA CallStep ==
  ASSUME HostedInv, NEW t \in Tasks, NEW y, GoodTask(y), Narrow(task[t], y),
         task' = [task EXCEPT ![t] = y], RowMoves, UNCHANGED timers, ClusterOK'
  PROVE  HostedInv'
  BY NarrowStep, ClocksStay DEF HostedInv, RowMoves, timers

LEMMA VaultSteps ==
  ASSUME HostedInv, NEW t \in Tasks, Refused(t) \/ WriteVaultCredentials(t)
  PROVE  HostedInv'
<1> DEFINE x == task[t]
<1>1. /\ x \in TaskRecord /\ GoodTask(x) /\ DOMAIN task = Tasks /\ x.pc = "vault"
      /\ RowsOK /\ ClusterOK
  BY DEF HostedInv, TasksOK, GoodTask, Refused, WriteVaultCredentials
<1>2. UNCHANGED <<row, timers>>
  BY DEF Refused, WriteVaultCredentials, timers
<1>3. RowMoves
  BY <1>1, <1>2, RowsKept
<1>4. CASE Refused(t)
  <2> DEFINE y == [x EXCEPT !.pc = "raise"]
  <2>1. y \in TaskRecord /\ y.pc = "raise" /\ y.c = x.c /\ y.rows = x.rows
    BY <1>1 DEF TaskRecord, Pcs
  <2>2. task' = [task EXCEPT ![t] = y] /\ ClusterOK'
    BY <1>1, <1>4, ClusterStays DEF Refused
  <2> HIDE DEF y
  <2>3. GoodTask(y) /\ Narrow(x, y)
    BY <1>1, <2>1, GoesOn DEF Prov, Gate
  <2> QED BY <1>2, <1>3, <2>2, <2>3, CallStep
<1>5. CASE WriteVaultCredentials(t)
  <2> DEFINE y == [x EXCEPT !.pc = "upsert", !.pw = None, !.tok = None]
  <2>0. /\ x.c \in Conns /\ x.pw \in Passwords \cup {None} /\ x.tok = "issued" /\ x.waited = 0
    BY <1>1 DEF GoodTask, TaskRecord, Off
  <2>1. /\ y \in TaskRecord /\ y.pc = "upsert" /\ y.c = x.c /\ y.rows = x.rows
        /\ y.waited = x.waited /\ y.i = x.i
    BY <1>1 DEF TaskRecord, Pcs, Gate
  <2>2. task' = [task EXCEPT ![t] = y]
    BY <1>1, <1>5 DEF WriteVaultCredentials
  <2>3. ClusterOK'
    <3>1. /\ vault' = [vault EXCEPT ![x.c] = [pw |-> x.pw, tok |-> "issued"]]
          /\ UNCHANGED <<obj, sts, pod>>
      BY <1>5, <2>0 DEF WriteVaultCredentials, EffectiveToken, None
    <3> QED BY <1>1, <2>0, <3>1 DEF ClusterOK
  <2> HIDE DEF y
  <2>4. x.i = 1
    BY <1>1 DEF GoodTask
  <2>5. GoodTask(y) /\ Narrow(x, y)
    BY SMTT(30), <1>1, <2>0, <2>1, <2>4, GoesOn DEF Prov, Gate
  <2> QED BY <1>2, <1>3, <2>2, <2>3, <2>5, CallStep
<1> QED BY <1>4, <1>5

\* The next object of UpsertOrder, or the readiness gate.
LEMMA UpsertDoneTask ==
  ASSUME HostedInv, NEW t \in Tasks, task[t].pc = "upsert"
  PROVE  \E y : /\ UpsertDone(t) = [task EXCEPT ![t] = y]
                /\ GoodTask(y) /\ Narrow(task[t], y)
<1> DEFINE x == task[t]
<1>1. x \in TaskRecord /\ GoodTask(x) /\ x.i \in 1..3 /\ x.waited = 0 /\ DOMAIN task = Tasks
  BY DEF HostedInv, TasksOK, GoodTask
<1>2. Len(UpsertOrder) = 3
  BY DEF UpsertOrder
<1>3. CASE x.i = 3
  <2> DEFINE y == Moved(x, "wait", 0)
  <2>1. y \in TaskRecord /\ y.pc = "wait" /\ y.c = x.c /\ y.rows = x.rows /\ y.waited = x.waited
    <3>1. "wait" \in Pcs /\ 0 \in 0..5
      BY SMTT(30) DEF Pcs, Gate
    <3>2. x \in TaskRecord
      BY <1>1
    <3> HIDE DEF x
    <3> QED BY SMTT(30), <3>1, <3>2, MovedRecord
  <2>2. UpsertDone(t) = [task EXCEPT ![t] = y]
    BY <1>1, <1>2, <1>3 DEF UpsertDone, Moved
  <2> HIDE DEF y
  <2>3. GoodTask(y) /\ Narrow(x, y)
    BY <1>1, <2>1, GoesOn DEF Prov, Gate
  <2> QED BY <2>2, <2>3
<1>4. CASE x.i # 3
  <2> DEFINE y == [x EXCEPT !.i = x.i + 1]
  <2>1. /\ y \in TaskRecord /\ y.pc = x.pc /\ y.c = x.c /\ y.rows = x.rows /\ y.waited = x.waited
        /\ y.i \in 1..3
    BY SMTT(30), <1>1, <1>4 DEF TaskRecord
  <2>2. UpsertDone(t) = [task EXCEPT ![t] = y]
    BY <1>1, <1>2, <1>4 DEF UpsertDone
  <2> HIDE DEF y
  <2>3. GoodTask(y) /\ Narrow(x, y)
    BY <1>1, <2>1, GoesOn DEF Prov, Gate
  <2> QED BY <2>2, <2>3
<1> QED BY <1>3, <1>4

LEMMA UpsertSteps ==
  ASSUME HostedInv, NEW t \in Tasks, UpsertStatefulSet(t) \/ UpsertAux(t) \/ UpsertService(t)
  PROVE  HostedInv'
<1> DEFINE x == task[t]
           c == x.c
<1>1. /\ x \in TaskRecord /\ GoodTask(x) /\ x.pc = "upsert" /\ c \in Conns
      /\ RowsOK /\ ClusterOK
  BY DEF HostedInv, TasksOK, GoodTask, UpsertStatefulSet, UpsertAux, UpsertService, Off
<1>2. UNCHANGED <<row, timers>> /\ task' = UpsertDone(t)
  BY DEF UpsertStatefulSet, UpsertAux, UpsertService, timers
<1>3. ClusterOK'
  <2>1. CASE UpsertStatefulSet(t)
    <3> DEFINE sym == IF x.sym = None THEN Pending ELSE x.sym
    <3>1. x.sym \in Symbols \cup {None} /\ None # Pending
      BY <1>1 DEF TaskRecord, None, Pending
    <3>2. sym \in Symbols \cup {Pending} /\ sym # None
      BY <3>1, NamesAssumption DEF None
    <3>3. /\ obj' = [obj EXCEPT ![c] = obj[c] \cup {"sts"}]
          /\ sts' = [sts EXCEPT ![c] = sym]
          /\ pod' = [pod EXCEPT ![c] = Rolled(c)] /\ vault' = vault
      BY <2>1 DEF UpsertStatefulSet
    <3> HIDE DEF sym, c
    <3> QED BY <1>1, <3>2, <3>3, RolledPod DEF ClusterOK, Kinds
  <2>2. CASE UpsertAux(t)
    BY <1>1, <2>2 DEF UpsertAux, ClusterOK, Kinds
  <2>3. CASE UpsertService(t)
    BY <1>1, <2>3 DEF UpsertService, ClusterOK, Kinds
  <2> QED BY <2>1, <2>2, <2>3
<1>4. PICK y : task' = [task EXCEPT ![t] = y] /\ GoodTask(y) /\ Narrow(x, y)
  BY <1>1, <1>2, UpsertDoneTask
<1> QED
  BY <1>1, <1>2, <1>3, <1>4, RowsKept, CallStep

LEMMA FailingSteps ==
  ASSUME HostedInv, NEW t \in Tasks, NotReadyInTime(t) \/ StepFails(t)
  PROVE  HostedInv'
  BY ToCleanupStep DEF NotReadyInTime, StepFails, Prov

LEMMA GateSteps ==
  ASSUME HostedInv, NEW t \in Tasks, WaitReady(t) \/ PopulateBrokerCatalog(t)
  PROVE  HostedInv'
<1> DEFINE x == task[t]
<1>1. /\ x \in TaskRecord /\ GoodTask(x) /\ RowsOK /\ ClusterOK /\ DOMAIN task = Tasks
      /\ Prov(x)
  BY DEF HostedInv, TasksOK, GoodTask, WaitReady, PopulateBrokerCatalog, Prov
<1>2. UNCHANGED <<row, timers, cluster>>
  BY DEF WaitReady, PopulateBrokerCatalog
<1>3. \E y : task' = [task EXCEPT ![t] = y] /\ GoodTask(y) /\ Narrow(x, y)
  <2>1. CASE WaitReady(t)
    <3> DEFINE y == [x EXCEPT !.pc = "catalog"]
    <3>1. y \in TaskRecord /\ y.pc = "catalog" /\ y.c = x.c /\ y.rows = x.rows
      BY <1>1 DEF TaskRecord, Pcs
    <3>2. task' = [task EXCEPT ![t] = y]
      BY <1>1, <2>1 DEF WaitReady
    <3> HIDE DEF y
    <3>3. GoodTask(y) /\ Narrow(x, y)
      BY <1>1, <3>1, GoesOn DEF Prov, Gate
    <3> QED BY <3>2, <3>3
  <2>2. CASE PopulateBrokerCatalog(t)
    <3>1. PICK pick \in Symbols :
            task' = [task EXCEPT ![t].pc = "patch",
                                 ![t].pick = IF x.sym = None THEN pick ELSE x.sym]
      BY <2>2 DEF PopulateBrokerCatalog
    <3> DEFINE sym == IF x.sym = None THEN pick ELSE x.sym
               y == [x EXCEPT !.pc = "patch", !.pick = sym]
    <3>2. sym \in Symbols
      BY <1>1 DEF TaskRecord
    <3>3. /\ y \in TaskRecord /\ y.pc = "patch" /\ y.c = x.c /\ y.rows = x.rows
          /\ y.pick \in Symbols
      BY <1>1, <3>2 DEF TaskRecord, Pcs
    <3>4. task' = [task EXCEPT ![t] = y]
      BY <1>1, <3>1
    <3> HIDE DEF y
    <3>5. GoodTask(y) /\ Narrow(x, y)
      BY <1>1, <3>3, GoesOn DEF Prov, Gate
    <3> QED BY <3>4, <3>5
  <2> QED BY <2>1, <2>2
<1> QED
  BY <1>1, <1>2, <1>3, RowsKept, ClusterStays, CallStep

LEMMA PatchStep ==
  ASSUME HostedInv, NEW t \in Tasks, PatchStatefulSetSymbol(t)
  PROVE  HostedInv'
<1> DEFINE x == task[t]
           c == x.c
<1>1. /\ x \in TaskRecord /\ GoodTask(x) /\ RowsOK /\ ClusterOK /\ DOMAIN task = Tasks
      /\ x.pc = "patch" /\ c \in Conns /\ x.pick \in Symbols
  BY DEF HostedInv, TasksOK, GoodTask, PatchStatefulSetSymbol, Off
<1>2. UNCHANGED <<row, timers>>
  BY DEF PatchStatefulSetSymbol
<1>3. CASE "sts" \notin obj[c]
  BY <1>1, <1>2, <1>3, ToCleanupStep DEF PatchStatefulSetSymbol, Prov, cluster
<1>4. CASE "sts" \in obj[c]
  <2> DEFINE pc == IF x.sym = None THEN "write" ELSE "return"
             y == [x EXCEPT !.pc = pc]
  <2>1. pc \in {"write", "return"} /\ pc \in Pcs
    BY DEF Pcs
  <2>2. /\ sts' = [sts EXCEPT ![c] = x.pick] /\ pod' = [pod EXCEPT ![c] = Rolled(c)]
        /\ UNCHANGED <<obj, vault>> /\ task' = [task EXCEPT ![t].pc = pc]
    BY <1>4 DEF PatchStatefulSetSymbol
  <2> HIDE DEF pc
  <2>3. y \in TaskRecord /\ y.pc = pc /\ y.c = x.c /\ y.rows = x.rows /\ y.pick = x.pick
    BY <1>1, <2>1 DEF TaskRecord
  <2>4. task' = [task EXCEPT ![t] = y]
    BY <1>1, <2>2
  <2>5. ClusterOK'
    <3>1. x.pick # None
      BY <1>1, NamesAssumption DEF None
    <3> HIDE DEF c
    <3> QED BY <1>1, <1>4, <2>2, <3>1, RolledPod DEF ClusterOK
  <2> HIDE DEF y
  <2>6. GoodTask(y) /\ Narrow(x, y)
    BY <1>1, <2>1, <2>3, GoesOn DEF Prov, Gate
  <2> QED BY <1>1, <1>2, <2>4, <2>5, <2>6, RowsKept, CallStep
<1> QED BY <1>3, <1>4

LEMMA WriteStep ==
  ASSUME HostedInv, NEW t \in Tasks, WriteChartSymbol(t)
  PROVE  HostedInv'
<1> DEFINE x == task[t]
           y == [x EXCEPT !.pc = "return"]
<1>1. /\ x \in TaskRecord /\ GoodTask(x) /\ RowsOK /\ ClusterOK /\ DOMAIN task = Tasks
      /\ x.pc = "write" /\ x.c \in Conns /\ x.pick \in Symbols
  BY DEF HostedInv, TasksOK, GoodTask, WriteChartSymbol, Off
<1>2. UNCHANGED <<timers, cluster>> /\ row' = UpdateChartSymbol(row, x.c, x.pick)
  BY DEF WriteChartSymbol
<1>3. y \in TaskRecord /\ y.pc = "return" /\ y.c = x.c /\ y.rows = x.rows
  BY <1>1 DEF TaskRecord, Pcs
<1>4. task' = [task EXCEPT ![t] = y]
  BY <1>1 DEF WriteChartSymbol
<1> HIDE DEF y
<1>5. GoodTask(y) /\ Narrow(x, y)
  BY <1>1, <1>3, GoesOn DEF Prov, Gate
<1>6. RowMoves
  BY <1>1, <1>2, RowStatements
<1> QED BY <1>1, <1>2, <1>4, <1>5, <1>6, ClusterStays, CallStep

LEMMA CleanupStep ==
  ASSUME HostedInv, NEW t \in Tasks, BestEffortCleanup(t)
  PROVE  HostedInv'
<1> DEFINE x == task[t]
<1>1. /\ x \in TaskRecord /\ GoodTask(x) /\ RowsOK /\ ClusterOK /\ DOMAIN task = Tasks
      /\ x.pc = "cleanup" /\ x.c \in Conns /\ x.i \in 1..3
  BY DEF HostedInv, TasksOK, GoodTask, BestEffortCleanup, Off
<1>2. UNCHANGED <<row, timers>>
  BY DEF BestEffortCleanup
<1>3. ClusterOK'
  <2>1. CleanupOrder[x.i] \in Kinds
    BY SMTT(30), <1>1 DEF CleanupOrder, Kinds
  <2> QED BY <1>1, <2>1, SafeDeleteKeeps DEF BestEffortCleanup
<1>4. \E y : task' = [task EXCEPT ![t] = y] /\ GoodTask(y) /\ Narrow(x, y)
  <2>0. Len(CleanupOrder) = 3
    BY DEF CleanupOrder
  <2>1. CASE x.i = 3
    <3> DEFINE y == [x EXCEPT !.pc = "raise"]
    <3>1. y \in TaskRecord /\ y.pc = "raise" /\ y.c = x.c /\ y.rows = x.rows
      BY <1>1 DEF TaskRecord, Pcs
    <3>2. task' = [task EXCEPT ![t] = y]
      BY <1>1, <2>0, <2>1 DEF BestEffortCleanup
    <3> HIDE DEF y
    <3>3. GoodTask(y) /\ Narrow(x, y)
      BY <1>1, <3>1, GoesOn DEF Prov, Gate
    <3> QED BY <3>2, <3>3
  <2>2. CASE x.i # 3
    <3> DEFINE y == [x EXCEPT !.i = x.i + 1]
    <3>1. y \in TaskRecord /\ y.pc = "cleanup" /\ y.c = x.c /\ y.rows = x.rows /\ y.i \in 1..3
      BY SMTT(30), <1>1, <2>2 DEF TaskRecord
    <3>2. task' = [task EXCEPT ![t] = y]
      BY <1>1, <2>0, <2>2 DEF BestEffortCleanup
    <3> HIDE DEF y
    <3>3. GoodTask(y) /\ Narrow(x, y)
      BY <1>1, <3>1, GoesOn DEF Prov, Gate
    <3> QED BY <3>2, <3>3
  <2> QED BY <2>1, <2>2
<1> QED
  BY <1>1, <1>2, <1>3, <1>4, RowsKept, CallStep

LEMMA ProvisionStep ==
  ASSUME HostedInv, NEW t \in Tasks, ProvisionAccount(t)
  PROVE  HostedInv'
  BY VaultSteps, UpsertSteps, GateSteps, FailingSteps, PatchStep, WriteStep, CleanupStep
     DEF ProvisionAccount

-----------------------------------------------------------------------------
(* The ends of the calls, and delete_account. *)

LEMMA IdleNarrows == ASSUME NEW x PROVE GoodTask(Idle) /\ Narrow(x, Idle)
  BY IdleIsGood DEF Narrow, Off, Prov, Gate

LEMMA EndsStep ==
  ASSUME HostedInv, RunHostedProvisioner \/ RotationEnds
  PROVE  HostedInv'
<1>0. "create" \in Tasks /\ "rotate" \in Tasks
  BY DEF Tasks
<1>1. RowsOK /\ ClusterOK /\ UNCHANGED <<timers, cluster>>
  BY DEF HostedInv, RunHostedProvisioner, RotationEnds
<1>2. ClusterOK'
  BY <1>1, ClusterStays
<1>3. CASE RunHostedProvisioner
  <2>1. task["create"].c \in Conns
    BY <1>0, <1>3 DEF HostedInv, TasksOK, GoodTask, RunHostedProvisioner, Off
  <2>2. RowMoves
    <3>1. \E status \in Statuses : row' = UpdateStatus(row, task["create"].c, status)
      BY <1>3 DEF RunHostedProvisioner, Statuses
    <3> QED BY <1>1, <2>1, <3>1, RowStatements
  <2>3. task' = [task EXCEPT !["create"] = Idle]
    BY <1>3 DEF RunHostedProvisioner
  <2> QED BY <1>0, <1>1, <1>2, <2>2, <2>3, IdleNarrows, CallStep
<1>4. CASE RotationEnds
  <2>1. RowMoves
    BY <1>1, <1>4, RowsKept DEF RotationEnds
  <2>2. task' = [task EXCEPT !["rotate"] = Idle]
    BY <1>4 DEF RotationEnds
  <2> QED BY <1>0, <1>1, <1>2, <2>1, <2>2, IdleNarrows, CallStep
<1> QED BY <1>3, <1>4

LEMMA DeleteAccountStep == ASSUME HostedInv, DeleteAccount PROVE HostedInv'
<1> DEFINE x == task["delete"]
<1>1. "delete" \in Tasks
  BY DEF Tasks
<1>2. /\ x \in TaskRecord /\ GoodTask(x) /\ RowsOK /\ ClusterOK /\ DOMAIN task = Tasks
      /\ x.pc = "delete" /\ x.c \in Conns /\ x.i \in 1..5
  BY <1>1 DEF HostedInv, TasksOK, GoodTask, DeleteAccount, Off
<1>3. UNCHANGED <<row, timers>>
  BY DEF DeleteAccount
<1>4. ClusterOK'
  <2>1. DeleteOrder[x.i] \in Kinds \cup {"vault"}
    BY SMTT(30), <1>2 DEF DeleteOrder, Kinds
  <2> QED BY <1>2, <2>1, SafeDeleteKeeps DEF DeleteAccount
<1>5. \E y : task' = [task EXCEPT !["delete"] = y] /\ GoodTask(y) /\ Narrow(x, y)
  <2>0. Len(DeleteOrder) = 5
    BY DEF DeleteOrder
  <2>1. CASE x.i = 5
    BY <2>0, <2>1, IdleNarrows DEF DeleteAccount
  <2>2. CASE x.i # 5
    <3> DEFINE y == [x EXCEPT !.i = x.i + 1]
    <3>1. y \in TaskRecord /\ y.pc = "delete" /\ y.c = x.c /\ y.rows = x.rows /\ y.i \in 1..5
      BY SMTT(30), <1>2, <2>2 DEF TaskRecord
    <3>2. task' = [task EXCEPT !["delete"] = y]
      BY <1>1, <1>2, <2>0, <2>2 DEF DeleteAccount
    <3> HIDE DEF y
    <3>3. GoodTask(y) /\ Narrow(x, y)
      BY <1>2, <3>1 DEF GoodTask, Narrow, Prov, Off, Gate
    <3> QED BY <3>2, <3>3
  <2> QED BY <2>1, <2>2
<1> QED
  BY <1>1, <1>2, <1>3, <1>4, <1>5, RowsKept, CallStep

-----------------------------------------------------------------------------
(* The routes. *)

\* A task takes up something new; the other tasks and the clocks of the sweeps
\* stay.
LEMMA NewWork ==
  ASSUME HostedInv, NEW t \in Tasks, NEW y, GoodTask(y), Fits(y, row', since'),
         task' = [task EXCEPT ![t] = y], RowMoves, since' = since, FirstBoot(task', age')
  PROVE  TasksOK'
<1>1. DOMAIN task = Tasks /\ RowsOK /\ \A s \in Tasks : GoodTask(task[s]) /\ Fits(task[s], row, since)
  BY DEF HostedInv, TasksOK
<1>2. DOMAIN task' = Tasks /\ task'[t] = y /\ \A s \in Tasks : s # t => task'[s] = task[s]
  BY <1>1
<1>3. ASSUME NEW s \in Tasks PROVE GoodTask(task'[s]) /\ Fits(task'[s], row', since')
  <2>1. CASE s = t
    BY <1>2, <2>1
  <2>2. CASE s # t
    BY <1>1, <1>2, <2>2, FitsStays
  <2> QED BY <2>1, <2>2
<1> QED BY <1>2, <1>3 DEF TasksOK

\* The record of a task that calls provision_account.
Called(x, c, pw, tok, sym) ==
  [x EXCEPT !.pc = "vault", !.c = c, !.i = 1, !.pw = pw, !.tok = tok, !.sym = sym, !.waited = 0]

LEMMA CalledRecord ==
  ASSUME NEW x, GoodTask(x), NEW c \in Conns, NEW pw \in Passwords \cup {None},
         NEW sym \in Symbols \cup {None}
  PROVE  /\ GoodTask(Called(x, c, pw, "issued", sym))
         /\ Called(x, c, pw, "issued", sym).pc = "vault"
         /\ Called(x, c, pw, "issued", sym).c = c
         /\ Called(x, c, pw, "issued", sym).waited = 0
         /\ Called(x, c, pw, "issued", sym).rows = x.rows
<1> DEFINE y == Called(x, c, pw, "issued", sym)
<1>1. x \in TaskRecord
  BY DEF GoodTask
<1>2. "vault" \in Pcs /\ 1 \in 0..5 /\ 0 \in 0..Readiness
  BY SMTT(30), TimersAssumption DEF Pcs, Gate
<1>3. /\ y \in TaskRecord /\ y.pc = "vault" /\ y.c = c /\ y.waited = 0 /\ y.rows = x.rows
      /\ y.tok = "issued" /\ y.i = 1
  BY <1>1, <1>2 DEF TaskRecord, Called
<1> HIDE DEF y
<1>4. GoodTask(y)
  BY <1>3 DEF GoodTask
<1> QED BY <1>3, <1>4 DEF y

LEMMA CreateStep ==
  ASSUME HostedInv, NEW c \in Conns, CreateBrokerConnection(c)
  PROVE  HostedInv'
<1>0. "create" \in Tasks /\ "create" \notin Sweeps /\ Sweeps \subseteq Tasks
  BY DEF Tasks, Sweeps
<1>1. PICK pw \in Passwords : row' = Create(row, c, pw) /\ Call("create", c, pw, "issued", None)
  BY DEF CreateBrokerConnection
<1> DEFINE x == task["create"]
           y == Called(x, c, pw, "issued", None)
<1>2. /\ GoodTask(x) /\ Fits(x, row, since) /\ DOMAIN task = Tasks /\ RowsOK /\ ClusterOK /\ ClocksOK
      /\ row[c].life = "fresh" /\ age' = [age EXCEPT ![c] = 0]
      /\ UNCHANGED <<cluster, since, first>>
  BY <1>0 DEF HostedInv, TasksOK, CreateBrokerConnection
<1>3. GoodTask(y) /\ y.pc = "vault" /\ y.c = c /\ y.waited = 0 /\ y.rows = x.rows
  BY SMTT(30), <1>2, CalledRecord
<1>4. task' = [task EXCEPT !["create"] = y]
  BY <1>1 DEF Call, Called
<1> HIDE DEF y
<1>5. RowMoves /\ row'[c].life = "live"
  BY <1>1, <1>2, CreateMoves
<1>6. Fits(y, row', since')
  <2>1. Fits(x, row', since')
    BY <1>2, <1>5, FitsStays
  <2> QED BY <1>3, <1>5, <2>1 DEF Fits
<1>7. FirstBoot(task', age')
  <2>1. task'["create"] = y /\ \A s \in Sweeps : task'[s] = task[s]
    BY <1>0, <1>2, <1>4
  <2>2. age'[c] = 0
    BY <1>2 DEF ClocksOK
  <2>3. \A s \in Sweeps : Prov(task[s]) => task[s].c # c
    BY <1>0, <1>2 DEF HostedInv, TasksOK, Fits, Prov, Off
  <2> QED BY SMTT(30), <1>3, <2>1, <2>2, <2>3, TimersAssumption DEF FirstBoot
<1>8. ClocksOK'
  BY SMTT(30), <1>2, TimersAssumption DEF ClocksOK
<1>9. TasksOK'
  BY <1>0, <1>2, <1>3, <1>4, <1>5, <1>6, <1>7, NewWork
<1> QED BY <1>2, <1>5, <1>8, <1>9, ClusterStays DEF HostedInv, RowMoves

LEMMA UpdateStep ==
  ASSUME HostedInv, NEW c \in Conns, UpdateBrokerConnection(c)
  PROVE  HostedInv'
<1>0. "rotate" \in Tasks /\ "create" \in Tasks /\ Sweeps \subseteq Tasks /\ "rotate" \notin Sweeps
  BY DEF Tasks, Sweeps
<1>1. PICK pw \in Passwords : /\ row' = UpdatePassword(row, c, pw)
                              /\ Call("rotate", c, pw, row[c].tok, row[c].sym)
  BY DEF UpdateBrokerConnection
<1>2. /\ GoodTask(task["rotate"]) /\ Fits(task["rotate"], row, since) /\ DOMAIN task = Tasks
      /\ RowsOK /\ ClusterOK /\ ClocksOK /\ FirstBoot(task, age)
      /\ row[c].life = "live" /\ UNCHANGED <<cluster, timers>>
  BY <1>0 DEF HostedInv, TasksOK, UpdateBrokerConnection, Live
<1>3. row[c].tok = "issued" /\ row[c].sym \in Symbols \cup {None}
  BY <1>2 DEF RowsOK, Row, Live
<1> DEFINE x == task["rotate"]
           sym == row[c].sym
           y == Called(x, c, pw, "issued", sym)
<1>4. task' = [task EXCEPT !["rotate"] = y]
  BY <1>1, <1>3 DEF Call, Called
<1>5. GoodTask(y) /\ y.pc = "vault" /\ y.c = c /\ y.rows = x.rows
  <2>1. GoodTask(x) /\ sym \in Symbols \cup {None} /\ c \in Conns /\ pw \in Passwords
    BY <1>2, <1>3
  <2> HIDE DEF sym, x
  <2> QED BY SMTT(30), <2>1, CalledRecord
<1> HIDE DEF y
<1>6. RowMoves
  BY <1>1, <1>2, RowStatements
<1>7. Fits(y, row', since')
  <2>1. Fits(x, row, since)
    BY <1>2
  <2>2. Fits(y, row, since)
    BY <1>2, <1>5, <2>1 DEF Fits
  <2> QED BY <1>2, <1>5, <1>6, <2>2, FitsStays DEF timers
<1>8. FirstBoot(task', age')
  <2>1. task'["create"] = task["create"] /\ (\A s \in Sweeps : task'[s] = task[s]) /\ age' = age
    BY <1>0, <1>2, <1>4 DEF timers
  <2> QED BY <1>2, <2>1 DEF FirstBoot
<1>9. TasksOK'
  BY <1>0, <1>2, <1>4, <1>5, <1>6, <1>7, <1>8, NewWork DEF timers
<1> QED BY <1>2, <1>6, <1>9, ClusterStays, ClocksStay DEF HostedInv, RowMoves

\* A record that starts from Idle and has no copies of rows.
Begun(z, pc, c, i) == [z EXCEPT !.pc = pc, !.c = c, !.i = i]

LEMMA BegunRecord ==
  ASSUME NEW z \in TaskRecord, NEW pc \in Pcs, NEW c \in Conns \cup {None}, NEW i \in 0..5
  PROVE  /\ Begun(z, pc, c, i) \in TaskRecord
         /\ Begun(z, pc, c, i).pc = pc /\ Begun(z, pc, c, i).c = c
         /\ Begun(z, pc, c, i).i = i /\ Begun(z, pc, c, i).rows = z.rows
  BY DEF TaskRecord, Begun

LEMMA DeleteStep ==
  ASSUME HostedInv, NEW c \in Conns, DeleteBrokerConnection(c)
  PROVE  HostedInv'
<1>0. "delete" \in Tasks /\ "create" \in Tasks /\ Sweeps \subseteq Tasks /\ "delete" \notin Sweeps
  BY DEF Tasks, Sweeps
<1> DEFINE y == Begun(Idle, "delete", c, 1)
<1>1. /\ DOMAIN task = Tasks /\ RowsOK /\ ClusterOK /\ ClocksOK /\ FirstBoot(task, age)
      /\ UNCHANGED <<cluster, timers>> /\ row' = Delete(row, c)
  BY DEF HostedInv, TasksOK, DeleteBrokerConnection
<1>2. task' = [task EXCEPT !["delete"] = y]
  BY DEF DeleteBrokerConnection, Begun
<1>3. /\ y \in TaskRecord /\ y.pc = "delete" /\ y.c = c /\ y.i = 1
      /\ DOMAIN y.rows = {}
  <2>1. "delete" \in Pcs /\ 1 \in 0..5 /\ c \in Conns \cup {None}
    BY SMTT(30) DEF Pcs
  <2>2. PICK z \in TaskRecord : z = Idle /\ DOMAIN z.rows = {}
    BY IdleIsGood
  <2>3. LET w == Begun(z, "delete", c, 1)
        IN  w \in TaskRecord /\ w.pc = "delete" /\ w.c = c /\ w.i = 1 /\ w.rows = z.rows
    BY SMTT(30), <2>1, BegunRecord
  <2> QED BY <2>2, <2>3
<1> HIDE DEF y
<1>4. GoodTask(y)
  BY SMTT(30), <1>3 DEF GoodTask
<1>5. RowMoves /\ row'[c].life = "gone"
  BY <1>1, DeleteMoves
<1>6. Fits(y, row', since')
  BY <1>3, <1>5 DEF Fits
<1>7. FirstBoot(task', age')
  <2>1. task'["create"] = task["create"] /\ (\A s \in Sweeps : task'[s] = task[s]) /\ age' = age
    BY <1>0, <1>1, <1>2 DEF timers
  <2> QED BY <1>1, <2>1 DEF FirstBoot
<1>8. TasksOK'
  BY <1>0, <1>1, <1>2, <1>4, <1>5, <1>6, <1>7, NewWork DEF timers
<1> QED BY <1>1, <1>5, <1>8, ClusterStays, ClocksStay DEF HostedInv, RowMoves

LEMMA RouteStep ==
  ASSUME HostedInv, NEW c \in Conns, Route(c)
  PROVE  HostedInv'
<1>1. CASE CreateBrokerConnection(c)
  BY <1>1, CreateStep
<1>2. CASE UpdateBrokerConnection(c)
  BY <1>2, UpdateStep
<1>3. CASE DeleteBrokerConnection(c)
  BY <1>3, DeleteStep
<1>4. CASE \/ TestBrokerConnection(c) \/ ActivateBrokerConnection(c)
           \/ SetPrimaryBrokerConnection(c) \/ DeactivateBrokerConnection(c)
  <2>1. RowsOK /\ ClusterOK /\ ClocksOK /\ UNCHANGED <<timers, cluster, task>>
    BY <1>4 DEF HostedInv, TestBrokerConnection, ActivateBrokerConnection,
                SetPrimaryBrokerConnection, DeactivateBrokerConnection
  <2>2. \/ \E status \in Statuses : row' = UpdateStatus(row, c, status)
        \/ row' = Activate(row, c) \/ row' = SetPrimary(row, c) \/ row' = Deactivate(row, c)
    BY <1>4 DEF TestBrokerConnection, ActivateBrokerConnection, SetPrimaryBrokerConnection,
                DeactivateBrokerConnection, Statuses
  <2>3. RowMoves
    BY <2>1, <2>2, RowStatements
  <2> QED BY <2>1, <2>3, TasksStay, ClusterStays, ClocksStay DEF HostedInv, RowMoves, timers
<1> QED BY <1>1, <1>2, <1>3, <1>4 DEF Route

-----------------------------------------------------------------------------
(* The recovery service. *)

\* A sweep that goes on from Idle with copies of rows.
Sweeping(z, pc, rows) == [z EXCEPT !.pc = pc, !.rows = rows]

LEMMA SweepingRecord ==
  ASSUME NEW z \in TaskRecord, NEW pc \in Pcs, NEW rows \in RowCopies
  PROVE  /\ Sweeping(z, pc, rows) \in TaskRecord
         /\ Sweeping(z, pc, rows).pc = pc /\ Sweeping(z, pc, rows).rows = rows
  BY DEF TaskRecord, Sweeping

LEMMA StartSweepStep ==
  ASSUME HostedInv, NEW t \in Sweeps, StartSweep(t)
  PROVE  HostedInv'
<1> DEFINE todo == {c \in Conns : Live(c) /\ row[c].active}
           copies == [c \in todo |-> [row |-> row[c], since |-> since[c], first |-> first[c]]]
           y == Sweeping(Idle, "sweep", copies)
<1>1. /\ DOMAIN task = Tasks /\ RowsOK /\ ClusterOK /\ ClocksOK /\ FirstBoot(task, age)
      /\ UNCHANGED <<row, cluster, timers>>
  BY DEF HostedInv, TasksOK, StartSweep
<1>2. task' = [task EXCEPT ![t] = y]
  BY DEF StartSweep, Sweeping
<1>3. /\ copies \in RowCopies /\ DOMAIN copies = todo
      /\ \A c \in todo : copies[c].row = row[c] /\ copies[c].since = since[c]
  <2>1. \A c \in todo : [row |-> row[c], since |-> since[c], first |-> first[c]] \in Copy
    BY <1>1 DEF RowsOK, ClocksOK, Copy
  <2>2. copies \in [todo -> Copy] /\ todo \in SUBSET Conns
    BY <2>1
  <2> QED BY <2>2 DEF RowCopies
<1> HIDE DEF copies
<1>4. y \in TaskRecord /\ y.pc = "sweep" /\ y.rows = copies
  <2>1. "sweep" \in Pcs /\ Idle \in TaskRecord
    BY IdleIsGood DEF Pcs, Off
  <2> QED BY SMTT(30), <1>3, <2>1, SweepingRecord
<1> HIDE DEF y
<1>5. GoodTask(y)
  <2>1. \A c \in todo : row[c].tok = "issued"
    BY <1>1 DEF RowsOK
  <2> QED BY SMTT(30), <1>3, <1>4, <2>1 DEF GoodTask, Off
<1>6. RowMoves
  BY <1>1, RowsKept
<1>7. Fits(y, row', since')
  <2>1. \A c \in todo : row[c].life = "live" /\ since[c] \in Never..Cooldown
    BY <1>1 DEF Live, ClocksOK
  <2>2. \A c \in todo : since[c] <= since[c]
    BY SMTT(30), <2>1, TimersAssumption DEF Never
  <2> QED BY <1>1, <1>3, <1>4, <2>1, <2>2 DEF Fits, Off, timers
<1>8. FirstBoot(task', age')
  <2>0. "create" \notin Sweeps /\ Sweeps \subseteq Tasks /\ "create" \in Tasks
    BY DEF Sweeps, Tasks
  <2>1. task'["create"] = task["create"] /\ age' = age
    BY <1>1, <1>2, <2>0 DEF timers
  <2>2. \A s \in Sweeps : Prov(task'[s]) => task'[s] = task[s]
    BY <1>1, <1>2, <1>4, <2>0 DEF Prov
  <2> QED BY <1>1, <2>1, <2>2 DEF FirstBoot
<1>9. TasksOK'
  <2>1. t \in Tasks
    BY DEF Tasks
  <2> QED BY <1>1, <1>2, <1>5, <1>6, <1>7, <1>8, <2>1, NewWork DEF timers
<1> QED BY <1>1, <1>6, <1>9, ClusterStays, ClocksStay DEF HostedInv, RowMoves

\* A row of the sweep is done with.
LEMMA RestOf ==
  ASSUME NEW t \in Tasks, GoodTask(task[t]), NEW c
  PROVE  /\ Rest(t, c) \in RowCopies /\ DOMAIN Rest(t, c) \subseteq DOMAIN task[t].rows
         /\ \A d \in DOMAIN Rest(t, c) : Rest(t, c)[d] = task[t].rows[d]
         /\ c \notin DOMAIN Rest(t, c)
<1>1. DOMAIN task[t].rows \subseteq Conns /\ task[t].rows \in [DOMAIN task[t].rows -> Copy]
  BY CopiesOf
<1> DEFINE D == DOMAIN task[t].rows \ {c}
<1>2. Rest(t, c) \in [D -> Copy] /\ D \in SUBSET Conns
  BY <1>1 DEF Rest
<1> QED BY <1>2 DEF RowCopies, Rest

LEMMA SkipStep ==
  ASSUME HostedInv, NEW t \in Sweeps, task[t].pc = "sweep", NEW c, Skip(t, c),
         UNCHANGED <<row, age, since, cluster>>, ClocksOK'
  PROVE  HostedInv'
<1> DEFINE x == task[t]
           y == [x EXCEPT !.rows = Rest(t, c)]
<1>0. t \in Tasks
  BY DEF Tasks
<1>1. x \in TaskRecord /\ GoodTask(x) /\ RowsOK /\ ClusterOK /\ DOMAIN task = Tasks
  BY <1>0 DEF HostedInv, TasksOK, GoodTask
<1>2. Rest(t, c) \in RowCopies /\ DOMAIN Rest(t, c) \subseteq DOMAIN x.rows
      /\ \A d \in DOMAIN Rest(t, c) : Rest(t, c)[d] = x.rows[d]
  BY <1>0, <1>1, RestOf
<1>3. y \in TaskRecord /\ y.pc = "sweep" /\ y.rows = Rest(t, c)
  BY <1>1, <1>2 DEF TaskRecord
<1>4. task' = [task EXCEPT ![t] = y]
  BY <1>0, <1>1 DEF Skip
<1> HIDE DEF y
<1>5. GoodTask(y) /\ Narrow(x, y)
  BY <1>1, <1>2, <1>3 DEF GoodTask, Narrow, Off, Prov, Gate
<1>6. RowMoves
  BY <1>1, RowsKept
<1>7. TasksOK'
  BY <1>0, <1>4, <1>5, <1>6, NarrowStep
<1> QED BY <1>1, <1>6, <1>7, ClusterStays DEF HostedInv, RowMoves

LEMMA SkippingSteps ==
  ASSUME HostedInv, NEW t \in Sweeps, StatusUnknown(t) \/ PassOver(t)
  PROVE  HostedInv'
<1>1. CASE StatusUnknown(t)
  BY <1>1, SkipStep, ClocksStay DEF StatusUnknown, HostedInv, timers
<1>2. CASE PassOver(t)
  <2>1. PICK c : /\ first' = [first EXCEPT ![c] = IF Running(c) THEN Never
                                                  ELSE IF age[c] = Grace /\ @ = Never THEN 0 ELSE @]
                 /\ Skip(t, c)
    BY <1>2 DEF PassOver
  <2>2. UNCHANGED <<row, age, since, cluster>> /\ task[t].pc = "sweep"
    BY <1>2 DEF PassOver
  <2>3. ClocksOK'
    <3>1. ClocksOK
      BY DEF HostedInv
    <3>2. \E v : /\ first' = [first EXCEPT ![c] = v]
                 /\ c \in Conns => v \in {Never, 0, first[c]}
      BY <2>1
    <3>3. {Never, 0} \subseteq Never..Threshold
      BY SMTT(30), TimersAssumption DEF Never
    <3>4. first' \in [Conns -> Never..Threshold]
      BY <3>1, <3>2, <3>3 DEF ClocksOK
    <3> QED BY <2>2, <3>1, <3>4 DEF ClocksOK
  <2> QED BY <2>1, <2>2, <2>3, SkipStep
<1> QED BY <1>1, <1>2

\* A copy is told of an attempt at c.
Told(x, c) == IF c \in DOMAIN x.rows THEN [x EXCEPT !.rows[c].since = Never] ELSE x

LEMMA ToldTask ==
  ASSUME NEW x, GoodTask(x), NEW c \in Conns
  PROVE  /\ GoodTask(Told(x, c))
         /\ Told(x, c).pc = x.pc /\ Told(x, c).c = x.c /\ Told(x, c).waited = x.waited
         /\ DOMAIN Told(x, c).rows = DOMAIN x.rows
         /\ \A d \in DOMAIN x.rows : Told(x, c).rows[d].since = IF d = c THEN Never ELSE x.rows[d].since
<1>1. CASE c \notin DOMAIN x.rows
  BY <1>1 DEF Told
<1>2. CASE c \in DOMAIN x.rows
  <2> DEFINE told == [x.rows[c] EXCEPT !.since = Never]
             rows == [x.rows EXCEPT ![c] = told]
             y == [x EXCEPT !.rows = rows]
  <2>1. x \in TaskRecord /\ DOMAIN x.rows \subseteq Conns /\ x.rows \in [DOMAIN x.rows -> Copy]
    BY CopiesOf DEF GoodTask
  <2>2. told \in Copy /\ told.since = Never /\ told.row = x.rows[c].row
    <3>1. x.rows[c] \in Copy /\ Never \in Never..Cooldown
      BY SMTT(30), <1>2, <2>1, TimersAssumption DEF Never
    <3> QED BY <3>1 DEF Copy
  <2>3. Told(x, c) = y
    BY <1>2, <2>1 DEF Told, TaskRecord
  <2> HIDE DEF told
  <2>4. /\ rows \in [DOMAIN x.rows -> Copy] /\ rows[c] = told
        /\ \A d \in DOMAIN x.rows : d # c => rows[d] = x.rows[d]
    BY <1>2, <2>1, <2>2
  <2>5. rows \in RowCopies /\ DOMAIN rows = DOMAIN x.rows
    BY <2>1, <2>4 DEF RowCopies
  <2> HIDE DEF rows
  <2>6. /\ y \in TaskRecord /\ y.rows = rows /\ y.pc = x.pc /\ y.c = x.c /\ y.waited = x.waited
        /\ y.i = x.i /\ y.pick = x.pick /\ y.tok = x.tok
    BY <2>1, <2>5 DEF TaskRecord
  <2> HIDE DEF y
  <2>7. \A d \in DOMAIN y.rows : y.rows[d].row.tok = "issued"
    BY SMTT(30), <2>2, <2>4, <2>5, <2>6 DEF GoodTask
  <2>8. GoodTask(y)
    BY <2>6, <2>7 DEF GoodTask
  <2> QED BY <2>2, <2>3, <2>4, <2>5, <2>6, <2>8
<1> QED BY <1>1, <1>2

\* The record of a sweep that calls provision_account for a row it is done with.
Taken(x, c, r, rows) ==
  [x EXCEPT !.pc = "vault", !.c = c, !.i = 1, !.pw = r.pw, !.tok = r.tok, !.sym = r.sym,
            !.waited = 0, !.rows = rows]

LEMMA TakenRecord ==
  ASSUME NEW x, GoodTask(x), NEW c \in Conns, NEW r \in Row, r.tok = "issued",
         NEW rows \in RowCopies, \A d \in DOMAIN rows : rows[d].row.tok = "issued"
  PROVE  /\ GoodTask(Taken(x, c, r, rows))
         /\ Taken(x, c, r, rows).pc = "vault" /\ Taken(x, c, r, rows).c = c
         /\ Taken(x, c, r, rows).rows = rows
<1> DEFINE y == Taken(x, c, r, rows)
<1>1. x \in TaskRecord
  BY DEF GoodTask
<1>2. /\ "vault" \in Pcs /\ 1 \in 0..5 /\ 0 \in 0..Readiness
      /\ r.pw \in Passwords \cup {None} /\ r.sym \in Symbols \cup {None}
  BY SMTT(30), TimersAssumption DEF Pcs, Gate, Row
<1>3. /\ y \in TaskRecord /\ y.pc = "vault" /\ y.c = c /\ y.waited = 0 /\ y.rows = rows
      /\ y.tok = "issued" /\ y.i = 1
  BY <1>1, <1>2 DEF TaskRecord, Taken
<1> HIDE DEF y
<1>4. GoodTask(y)
  BY <1>3 DEF GoodTask
<1> QED BY <1>3, <1>4 DEF y

\* _reprovision: the other sweep's copy learns of the attempt, and the row is too
\* old for its first provision to be running.
LEMMA ReprovisionStep ==
  ASSUME HostedInv, NEW t \in Sweeps, Reprovision(t)
  PROVE  HostedInv'
<1>0. /\ t \in Tasks /\ "create" \in Tasks /\ "create" \notin Sweeps /\ Sweeps \subseteq Tasks
      /\ "create" # t
  BY DEF Tasks, Sweeps
<1> DEFINE x == task[t]
<1>1. /\ DOMAIN task = Tasks /\ RowsOK /\ ClusterOK /\ ClocksOK /\ FirstBoot(task, age)
      /\ \A s \in Tasks : GoodTask(task[s]) /\ Fits(task[s], row, since)
      /\ UNCHANGED <<row, age, cluster>> /\ x.pc = "sweep"
  BY DEF HostedInv, TasksOK, Reprovision
<1>2. PICK c \in DOMAIN x.rows :
        /\ MayReprovision(t, c)
        /\ since' = [since EXCEPT ![c] = 0]
        /\ IF x.rows[c].row.status = "failed"
           THEN /\ task' = [Attempted(t, c) EXCEPT ![t].rows = Rest(t, c)]
                /\ first' = [first EXCEPT ![c] = Never]
           ELSE /\ task' = [Attempted(t, c) EXCEPT ![t] =
                     [@ EXCEPT !.pc = "vault", !.c = c, !.i = 1, !.pw = x.rows[c].row.pw,
                               !.tok = x.rows[c].row.tok, !.sym = x.rows[c].row.sym,
                               !.waited = 0, !.rows = Rest(t, c)]]
                /\ first' = [first EXCEPT ![c] = IF @ = Never THEN 0 ELSE @]
  BY DEF Reprovision
<1> DEFINE r == x.rows[c].row
<1>3. /\ c \in Conns /\ r \in Row /\ r.tok = "issued" /\ row[c].life # "fresh"
  <2>1. DOMAIN x.rows \subseteq Conns /\ x.rows \in [DOMAIN x.rows -> Copy]
    BY <1>0, <1>1, CopiesOf
  <2> QED BY <1>0, <1>1, <2>1 DEF Copy, GoodTask, Fits
<1>4. /\ Rest(t, c) \in RowCopies /\ DOMAIN Rest(t, c) \subseteq DOMAIN x.rows
      /\ \A d \in DOMAIN Rest(t, c) : Rest(t, c)[d] = x.rows[d]
      /\ c \notin DOMAIN Rest(t, c)
  BY <1>0, <1>1, RestOf
<1>16. GoodTask(x) /\ Fits(x, row, since) /\ x \in TaskRecord
  BY <1>0, <1>1 DEF GoodTask
<1>17. \A d \in DOMAIN x.rows : x.rows[d].row.tok = "issued"
  BY <1>16 DEF GoodTask
<1>18. \A d \in DOMAIN Rest(t, c) : Rest(t, c)[d].row.tok = "issued"
  BY <1>4, <1>17
<1>5. ClocksOK'
  <2>1. \E v : first' = [first EXCEPT ![c] = v] /\ v \in {Never, 0, first[c]}
    BY <1>2
  <2>2. {Never, 0} \subseteq Never..Threshold /\ 0 \in Never..Cooldown
    BY SMTT(30), TimersAssumption DEF Never
  <2>3. first' \in [Conns -> Never..Threshold]
    BY <1>1, <1>3, <2>1, <2>2 DEF ClocksOK
  <2>4. since' \in [Conns -> Never..Cooldown]
    BY <1>1, <1>2, <2>2 DEF ClocksOK
  <2> QED BY <1>1, <2>3, <2>4 DEF ClocksOK
<1>6. \A d \in Conns : d # c => since'[d] = since[d]
  BY <1>1, <1>2 DEF ClocksOK
<1>7. /\ DOMAIN Attempted(t, c) = Tasks /\ Attempted(t, c)[t] = x
      /\ \A s \in Tasks : s # t => Attempted(t, c)[s] = Told(task[s], c)
  BY <1>0 DEF Attempted, Told
<1>8. \E y : /\ task' = [Attempted(t, c) EXCEPT ![t] = y]
             /\ GoodTask(y) /\ y.rows = Rest(t, c)
             /\ y.pc = "sweep" \/ (y.pc = "vault" /\ y.c = c)
  <2>1. CASE r.status = "failed"
    <3> DEFINE y == [x EXCEPT !.rows = Rest(t, c)]
    <3>1. x.pc = "sweep" /\ Rest(t, c) \in RowCopies
      BY <1>1, <1>4
    <3>2. y \in TaskRecord /\ y.pc = "sweep" /\ y.rows = Rest(t, c)
      BY <1>16, <3>1 DEF TaskRecord
    <3>3. task' = [Attempted(t, c) EXCEPT ![t] = y]
      BY <1>0, <1>2, <1>7, <2>1
    <3> HIDE DEF y
    <3>4. \A d \in DOMAIN y.rows : y.rows[d].row.tok = "issued"
      BY <1>18, <3>2
    <3>5. GoodTask(y)
      BY <3>2, <3>4 DEF GoodTask, Off
    <3> QED BY <3>2, <3>3, <3>5
  <2>2. CASE r.status # "failed"
    <3> DEFINE rest == Rest(t, c)
               y == Taken(x, c, r, rest)
    <3>1. task' = [Attempted(t, c) EXCEPT ![t] = y]
      BY <1>0, <1>2, <1>7, <2>2 DEF Taken
    <3>2. /\ GoodTask(x) /\ \A d \in DOMAIN rest : rest[d].row.tok = "issued"
          /\ rest \in RowCopies /\ c \in Conns /\ r \in Row /\ r.tok = "issued"
      BY <1>3, <1>4, <1>16, <1>18
    <3> HIDE DEF r, x, rest
    <3>3. GoodTask(y) /\ y.pc = "vault" /\ y.c = c /\ y.rows = rest
      BY SMTT(30), <3>2, TakenRecord
    <3> HIDE DEF y
    <3> QED BY <3>1, <3>3 DEF rest
  <2> QED BY <2>1, <2>2
<1>9. PICK y : /\ task' = [Attempted(t, c) EXCEPT ![t] = y]
               /\ GoodTask(y) /\ y.rows = Rest(t, c)
               /\ y.pc = "sweep" \/ (y.pc = "vault" /\ y.c = c)
  BY <1>8
<1>10. /\ DOMAIN task' = Tasks /\ task'[t] = y
       /\ \A s \in Tasks : s # t => task'[s] = Told(task[s], c)
  BY <1>0, <1>7, <1>9
<1>11. GoodTask(y) /\ Fits(y, row', since')
  <2>1. DOMAIN x.rows \subseteq Conns
    BY <1>16, CopiesOf
  <2>2. ASSUME NEW d \in DOMAIN y.rows
        PROVE  row[d].life # "fresh" /\ (y.rows[d].since # Never => y.rows[d].since <= since'[d])
    <3>1. y.rows = Rest(t, c) /\ d \in DOMAIN x.rows /\ d # c /\ y.rows[d] = x.rows[d]
      BY <1>4, <1>9
    <3>2. d \in Conns /\ since'[d] = since[d]
      BY <1>6, <2>1, <3>1
    <3>3. row[d].life # "fresh" /\ (x.rows[d].since # Never => x.rows[d].since <= since[d])
      BY <1>16, <3>1 DEF Fits
    <3> QED BY <3>1, <3>2, <3>3
  <2>3. y.pc # "delete" /\ (y.pc \notin Off => row[y.c].life # "fresh")
    <3>1. CASE y.pc = "sweep"
      BY <3>1 DEF Off
    <3>2. CASE y.pc = "vault" /\ y.c = c
      BY <1>3, <3>2
    <3> QED BY <1>9, <3>1, <3>2
  <2>4. row' = row
    BY <1>1
  <2> QED BY <1>9, <2>2, <2>3, <2>4 DEF Fits
<1>12. ASSUME NEW s \in Tasks, s # t
       PROVE  GoodTask(task'[s]) /\ Fits(task'[s], row', since')
  <2> DEFINE z == Told(task[s], c)
  <2>1. /\ GoodTask(z) /\ z.pc = task[s].pc /\ z.c = task[s].c
        /\ DOMAIN z.rows = DOMAIN task[s].rows
        /\ \A d \in DOMAIN task[s].rows : z.rows[d].since = IF d = c THEN Never ELSE task[s].rows[d].since
    <3>1. GoodTask(task[s]) /\ c \in Conns
      BY <1>1, <1>3
    <3> QED BY <3>1, ToldTask
  <2> HIDE DEF z
  <2>2. Fits(task[s], row, since) /\ DOMAIN task[s].rows \subseteq Conns
    BY <1>1, CopiesOf
  <2>3. Fits(z, row', since')
    BY <1>1, <1>6, <2>1, <2>2 DEF Fits
  <2> QED BY <1>10, <1>12, <2>1, <2>3 DEF z
<1>13. FirstBoot(task', age')
  <2>1. \A s \in Tasks : s # t => /\ task'[s].pc = task[s].pc /\ task'[s].c = task[s].c
                                 /\ task'[s].waited = task[s].waited
    <3> TAKE s \in Tasks
    <3>1. GoodTask(task[s]) /\ c \in Conns
      BY <1>1, <1>3
    <3> DEFINE z == Told(task[s], c)
    <3>2. z.pc = task[s].pc /\ z.c = task[s].c /\ z.waited = task[s].waited
      BY <3>1, ToldTask
    <3>3. s # t => task'[s] = z
      BY <1>10
    <3> QED BY <3>2, <3>3
  <2>2. Prov(task["create"]) => task["create"].c # c
    <3>1. age[c] = Grace
      BY <1>2 DEF MayReprovision
    <3>2. Prov(task["create"]) => age[task["create"].c] <= Readiness
      BY <1>1 DEF FirstBoot
    <3> QED BY SMTT(30), <3>1, <3>2, TimersAssumption
  <2>3. Prov(y) => y.c = c
    BY <1>9 DEF Prov
  <2> QED BY <1>0, <1>1, <1>10, <2>1, <2>2, <2>3 DEF FirstBoot, Prov
<1>14. TasksOK'
  BY <1>10, <1>11, <1>12, <1>13 DEF TasksOK
<1>15. RowMoves
  BY <1>1, RowsKept
<1> QED BY <1>1, <1>5, <1>14, <1>15, ClusterStays DEF HostedInv, RowMoves

\* A sweep that goes back to its list, or to rest.
LEMMA BackStep ==
  ASSUME HostedInv, NEW t \in Sweeps, NEW pc \in Off, NEW rows,
         rows = task[t].rows \/ rows = Idle.rows,
         task' = [task EXCEPT ![t] = Sweeping(Idle, pc, rows)],
         UNCHANGED <<row, age, since, cluster>>, ClocksOK'
  PROVE  HostedInv'
<1> DEFINE x == task[t]
           y == Sweeping(Idle, pc, rows)
<1>0. t \in Tasks
  BY DEF Tasks
<1>1. x \in TaskRecord /\ GoodTask(x) /\ RowsOK /\ ClusterOK
  BY <1>0 DEF HostedInv, TasksOK, GoodTask
<1>2. rows \in RowCopies /\ DOMAIN rows \subseteq DOMAIN x.rows
      /\ \A c \in DOMAIN rows : rows[c] = x.rows[c]
  BY <1>1, IdleIsGood DEF TaskRecord
<1>3. y \in TaskRecord /\ y.pc = pc /\ y.rows = rows
  <2>1. pc \in Pcs /\ Idle \in TaskRecord
    BY IdleIsGood DEF Pcs
  <2> QED BY SMTT(30), <1>2, <2>1, SweepingRecord
<1> HIDE DEF y
<1>4. GoodTask(y) /\ Narrow(x, y)
  BY <1>1, <1>2, <1>3 DEF GoodTask, Narrow, Off, Prov, Gate
<1>5. RowMoves
  BY <1>1, RowsKept
<1>6. TasksOK'
  BY <1>0, <1>4, <1>5, NarrowStep DEF y
<1> QED BY <1>1, <1>5, <1>6, ClusterStays DEF HostedInv, RowMoves

LEMMA SweepEnds ==
  ASSUME HostedInv, NEW t \in Sweeps, ReprovisionEnds(t) \/ EndSweep(t)
  PROVE  HostedInv'
<1>1. CASE ReprovisionEnds(t)
  <2>1. task' = [task EXCEPT ![t] = Sweeping(Idle, "sweep", task[t].rows)]
    BY <1>1 DEF ReprovisionEnds, Sweeping
  <2>2. UNCHANGED <<row, age, since, cluster>>
    BY <1>1 DEF ReprovisionEnds
  <2>3. ClocksOK'
    <3>1. Never \in Never..Threshold
      BY SMTT(30), TimersAssumption DEF Never
    <3> QED BY <1>1, <3>1 DEF HostedInv, ClocksOK, ReprovisionEnds
  <2> QED BY <2>1, <2>2, <2>3, BackStep DEF Off
<1>2. CASE EndSweep(t)
  <2> DEFINE pc == IF t = "loop" THEN "sleep" ELSE "idle"
  <2>1. task' = [task EXCEPT ![t] = [Idle EXCEPT !.pc = pc]]
    BY <1>2 DEF EndSweep
  <2>2. UNCHANGED <<row, timers, cluster>>
    BY <1>2 DEF EndSweep
  <2>3. pc \in Off
    BY DEF Off
  <2> HIDE DEF pc
  <2>4. [Idle EXCEPT !.pc = pc] = Sweeping(Idle, pc, Idle.rows)
    BY DEF Sweeping, Idle
  <2>5. ClocksOK'
    BY <2>2, ClocksStay DEF HostedInv
  <2> QED BY <2>1, <2>2, <2>3, <2>4, <2>5, BackStep DEF timers
<1> QED BY <1>1, <1>2

LEMMA SweepStep == ASSUME HostedInv, NEW t \in Sweeps, Sweep(t) PROVE HostedInv'
  BY StartSweepStep, SkippingSteps, ReprovisionStep, SweepEnds DEF Sweep

-----------------------------------------------------------------------------
(* Kubernetes, the engine's restarts, and time. *)

LEMMA PodSteps ==
  ASSUME HostedInv, NEW c \in Conns,
         PodStarts(c) \/ PodReady(c) \/ PodLost(c) \/ StatefulSetLost(c)
  PROVE  HostedInv'
<1>1. RowsOK /\ ClusterOK /\ UNCHANGED <<row, timers, task>>
  BY DEF HostedInv, PodStarts, PodReady, PodLost, StatefulSetLost
<1>2. ClusterOK'
  <2>1. CASE PodStarts(c)
    <3>1. [st |-> "boot", pw |-> vault[c].pw] \in [st : {"boot", "up", None}, pw : Passwords \cup {None}]
      BY <1>1 DEF ClusterOK
    <3> QED BY <1>1, <2>1, <3>1 DEF ClusterOK, PodStarts, Kinds
  <2>2. CASE PodReady(c)
    <3>1. [pod[c] EXCEPT !.st = "up"] \in [st : {"boot", "up", None}, pw : Passwords \cup {None}]
      BY <1>1 DEF ClusterOK
    <3>2. pod' = [pod EXCEPT ![c] = [pod[c] EXCEPT !.st = "up"]] /\ UNCHANGED <<obj, sts, vault>>
      BY <1>1, <2>2 DEF PodReady, ClusterOK
    <3> QED BY <1>1, <3>1, <3>2 DEF ClusterOK
  <2>3. CASE PodLost(c)
    BY <1>1, <2>3, RolledPod DEF ClusterOK, PodLost
  <2>4. CASE StatefulSetLost(c)
    BY <1>1, <2>4, DeletedKeeps DEF StatefulSetLost, Kinds
  <2> QED BY <2>1, <2>2, <2>3, <2>4
<1> QED BY <1>1, <1>2, RowsKept, TasksStay, ClocksStay DEF HostedInv, RowMoves, timers

LEMMA RestartStep == ASSUME HostedInv, EngineRestarts PROVE HostedInv'
<1>1. RowsOK /\ ClusterOK /\ ClocksOK /\ UNCHANGED <<row, age, cluster>>
  BY DEF HostedInv, EngineRestarts
<1>2. TasksOK'
  <2>1. DOMAIN task' = Tasks /\ \A t \in Tasks : task'[t] = Idle
    BY DEF EngineRestarts
  <2>2. "create" \in Tasks
    BY DEF Tasks
  <2> QED BY <2>1, <2>2, IdleIsGood DEF TasksOK, Fits, FirstBoot, Off, Prov
<1>3. ClocksOK'
  BY SMTT(30), <1>1, TimersAssumption DEF ClocksOK, EngineRestarts, Never
<1> QED BY <1>1, <1>2, <1>3, RowsKept, ClusterStays DEF HostedInv, RowMoves

LEMMA CapBounds ==
  ASSUME NEW limit \in Nat, NEW t \in Never..limit
  PROVE  Cap(t, limit) \in Never..limit /\ t <= Cap(t, limit) /\ (t >= 0 => Cap(t, limit) >= 0)
         /\ Cap(t, limit) <= t + 1 /\ (t = Never => Cap(t, limit) = Never)
  BY SMTT(30) DEF Cap, Never

\* A task over an interval: the readiness gate counts, the sleep ends.
Waited(x) == [x EXCEPT !.waited = @ + 1]
AfterInterval(x) == CASE x.pc = "wait" -> Waited(x) [] x.pc = "sleep" -> Idle [] OTHER -> x

LEMMA AfterIntervalTask ==
  ASSUME NEW x, GoodTask(x), x.pc \in {"idle", "sleep"} \/ (x.pc = "wait" /\ x.waited < Readiness)
  PROVE  /\ GoodTask(AfterInterval(x))
         /\ AfterInterval(x).pc \notin Off =>
              /\ x.pc = "wait" /\ AfterInterval(x).pc = "wait" /\ AfterInterval(x).c = x.c
              /\ AfterInterval(x).waited = x.waited + 1
         /\ AfterInterval(x).pc # "delete"
         /\ AfterInterval(x).rows = x.rows \/ DOMAIN AfterInterval(x).rows = {}
<1>1. CASE x.pc = "idle"
  BY <1>1 DEF AfterInterval, Off
<1>2. CASE x.pc = "sleep"
  BY <1>2, IdleIsGood DEF AfterInterval, Off
<1>3. CASE x.pc = "wait" /\ x.waited < Readiness
  <2> DEFINE y == Waited(x)
  <2>1. x \in TaskRecord /\ x.waited + 1 \in 0..Readiness
    BY SMTT(30), <1>3, TimersAssumption DEF GoodTask, TaskRecord
  <2>2. /\ y \in TaskRecord /\ y.pc = x.pc /\ y.c = x.c /\ y.rows = x.rows
        /\ y.waited = x.waited + 1
    BY <2>1 DEF TaskRecord, Waited
  <2>3. AfterInterval(x) = y
    BY <1>3 DEF AfterInterval
  <2> HIDE DEF y
  <2>4. GoodTask(y)
    BY <1>3, <2>2 DEF GoodTask, Off
  <2> QED BY <1>3, <2>2, <2>3, <2>4
<1> QED BY <1>1, <1>2, <1>3

LEMMA TickStep == ASSUME HostedInv, Tick PROVE HostedInv'
<1>1. /\ DOMAIN task = Tasks /\ RowsOK /\ ClusterOK /\ ClocksOK /\ FirstBoot(task, age)
      /\ \A s \in Tasks : GoodTask(task[s]) /\ Fits(task[s], row, since)
      /\ UNCHANGED <<row, cluster>>
  BY DEF HostedInv, TasksOK, Tick
<1>2. /\ DOMAIN task' = Tasks
      /\ \A t \in Tasks : task'[t] = AfterInterval(task[t])
  BY DEF Tick, AfterInterval, Waited
<1>3. \A t \in Tasks : \/ task[t].pc \in {"idle", "sleep"}
                       \/ (task[t].pc = "wait" /\ task[t].waited < Readiness)
  BY DEF Tick
<1>4. /\ age' = [c \in Conns |-> Cap(age[c], Grace)]
      /\ since' = [c \in Conns |-> Cap(since[c], Cooldown)]
      /\ first' = [c \in Conns |-> Cap(first[c], Threshold)]
  BY DEF Tick
<1>5. ASSUME NEW c \in Conns
      PROVE  /\ age'[c] \in 0..Grace /\ age'[c] <= age[c] + 1
             /\ since'[c] \in Never..Cooldown /\ since[c] <= since'[c]
             /\ first'[c] \in Never..Threshold
  <2>1. /\ age[c] \in 0..Grace /\ since[c] \in Never..Cooldown /\ first[c] \in Never..Threshold
    BY <1>1 DEF ClocksOK
  <2>3. /\ Cap(age[c], Grace) \in 0..Grace /\ Cap(age[c], Grace) <= age[c] + 1
    BY SMTT(30), <2>1, TimersAssumption DEF Cap, Never
  <2>4. /\ Cap(since[c], Cooldown) \in Never..Cooldown /\ since[c] <= Cap(since[c], Cooldown)
        /\ Cap(first[c], Threshold) \in Never..Threshold
    BY <2>1, CapBounds, TimersAssumption
  <2> QED BY <1>4, <2>3, <2>4
<1>6. ClocksOK'
  BY <1>4, <1>5 DEF ClocksOK
<1>7. ASSUME NEW t \in Tasks PROVE GoodTask(task'[t]) /\ Fits(task'[t], row', since')
  <2> DEFINE x == task[t]
             y == AfterInterval(x)
  <2>1. GoodTask(x) /\ Fits(x, row, since) /\ DOMAIN x.rows \subseteq Conns
        /\ x.rows \in [DOMAIN x.rows -> Copy]
    BY <1>1, CopiesOf
  <2>2. /\ GoodTask(y) /\ y.pc # "delete"
        /\ y.pc \notin Off => x.pc = "wait" /\ y.c = x.c
        /\ y.rows = x.rows \/ DOMAIN y.rows = {}
    BY <1>3, <2>1, AfterIntervalTask
  <2> HIDE DEF y
  <2>3. ASSUME NEW c \in DOMAIN y.rows
        PROVE  row[c].life # "fresh" /\ (y.rows[c].since # Never => y.rows[c].since <= since'[c])
    <3>1. c \in Conns /\ c \in DOMAIN x.rows /\ y.rows[c] = x.rows[c]
      BY <2>1, <2>2
    <3>2. x.rows[c].since \in Never..Cooldown /\ since[c] \in Never..Cooldown
      BY <1>1, <2>1, <3>1 DEF Copy, ClocksOK
    <3>3. since[c] <= since'[c] /\ since'[c] \in Never..Cooldown
      BY <1>5, <3>1
    <3>4. x.rows[c].since # Never => x.rows[c].since <= since[c]
      BY <2>1, <3>1 DEF Fits
    <3>5. x.rows[c].since # Never => x.rows[c].since <= since'[c]
      BY SMTT(30), <3>2, <3>3, <3>4, TimersAssumption DEF Never
    <3> QED BY <2>1, <3>1, <3>5 DEF Fits
  <2>4. Fits(y, row', since')
    BY <1>1, <2>1, <2>2, <2>3 DEF Fits, Off
  <2> QED BY <1>2, <2>2, <2>4 DEF y
<1>8. FirstBoot(task', age')
  <2>0. "create" \in Tasks /\ Sweeps \subseteq Tasks
    BY DEF Tasks, Sweeps
  <2>1. \A t \in Tasks : Prov(task'[t]) =>
          /\ task[t].pc = "wait" /\ task'[t].pc = "wait" /\ task'[t].c = task[t].c
          /\ task'[t].waited = task[t].waited + 1
    <3> TAKE t \in Tasks
    <3> HAVE Prov(task'[t])
    <3> DEFINE x == task[t]
               y == AfterInterval(x)
    <3>1. GoodTask(x) /\ task'[t] = y /\ (x.pc \in {"idle", "sleep"} \/ (x.pc = "wait" /\ x.waited < Readiness))
      BY <1>1, <1>2, <1>3
    <3>2. y.pc \notin Off => /\ x.pc = "wait" /\ y.pc = "wait" /\ y.c = x.c /\ y.waited = x.waited + 1
      BY <3>1, AfterIntervalTask
    <3>3. y.pc \notin Off
      BY <3>1 DEF Prov, Off
    <3> QED BY <3>1, <3>2, <3>3
  <2> SUFFICES ASSUME Prov(task'["create"])
               PROVE  /\ age'[task'["create"].c] <= Readiness
                      /\ age'[task'["create"].c] <= task'["create"].waited
                      /\ \A s \in Sweeps : Prov(task'[s]) => task'[s].c # task'["create"].c
    BY DEF FirstBoot
  <2> DEFINE x == task["create"]
             c == x.c
  <2>2. /\ x.pc = "wait" /\ task'["create"].c = c /\ task'["create"].waited = x.waited + 1
        /\ x.waited < Readiness
    BY <1>3, <2>0, <2>1
  <2>3. c \in Conns /\ x.waited \in 0..Readiness
    BY <1>1, <2>0, <2>2 DEF GoodTask, TaskRecord, Off
  <2>4. age[c] <= x.waited /\ \A s \in Sweeps : Prov(task[s]) => task[s].c # c
    BY <1>1, <2>2 DEF FirstBoot, Prov, Gate
  <2>5. age[c] \in 0..Grace /\ age'[c] \in 0..Grace /\ age'[c] <= age[c] + 1
    BY <1>1, <1>5, <2>3 DEF ClocksOK
  <2>6. age'[c] <= x.waited + 1 /\ x.waited + 1 <= Readiness /\ age'[c] <= Readiness
    BY SMTT(30), <2>2, <2>3, <2>4, <2>5, TimersAssumption
  <2>7. \A s \in Sweeps : Prov(task'[s]) => task'[s].c # c
    BY <2>0, <2>1, <2>4 DEF Prov
  <2> QED BY <2>2, <2>6, <2>7
<1>9. TasksOK'
  BY <1>2, <1>7, <1>8 DEF TasksOK
<1> QED BY <1>1, <1>6, <1>9, RowsKept, ClusterStays DEF HostedInv, RowMoves

-----------------------------------------------------------------------------

LEMMA InvStep == HostedInv /\ [Next]_vars => HostedInv'
<1> SUFFICES ASSUME HostedInv, [Next]_vars PROVE HostedInv'
  OBVIOUS
<1>1. CASE UNCHANGED vars
  <2>1. RowsOK /\ UNCHANGED <<row, age, since, first, obj, sts, vault, pod, task>>
    BY <1>1 DEF vars, HostedInv
  <2> QED BY <2>1, RowsKept, TasksStay, ClusterStays, ClocksStay
          DEF HostedInv, RowMoves, timers, cluster
<1>2. CASE Next
  BY <1>2, ProvisionStep, EndsStep, DeleteAccountStep, SweepStep, RouteStep, PodSteps, RestartStep,
     TickStep DEF Next
<1> QED BY <1>1, <1>2

LEMMA InvHolds == Spec => []HostedInv
  BY InvInit, InvStep, PTL DEF Spec

\* Every table, clock, object and task keeps its shape; a StatefulSet exists
\* exactly when it names a symbol or the sentinel of a first boot.
THEOREM HostedTypes == Spec => []TypeOK
  BY InvHolds, InvType, PTL

\* The token in a release's Vault path is the one on its row, whichever of the
\* create task, a rotation and two sweeps wrote it last and however old the copy
\* of the row was that it worked from.
THEOREM TokenKept == Spec => []TokenMatchesRow
  BY InvHolds, InvToken, PTL

\* As long as the grace period is longer than the readiness gate, no sweep
\* provisions a connection whose first provision is running.
THEOREM FirstBootKept == Spec => []FirstBootUndisturbed
  BY InvHolds, InvFirstBoot, PTL

-----------------------------------------------------------------------------
(* The Wine prefix and the credentials. *)

Kept(c) == /\ "pvc" \in obj[c] => "pvc" \in obj'[c]
           /\ vault[c] # NoSecret => vault'[c] # NoSecret

\* Deletes other than those of the PVC and the Vault path.
LEMMA LesserDeletes ==
  ASSUME ClusterOK, NEW d \in Conns, NEW kind \in {"sts", "svc", "aux"}, SafeDelete(d, kind),
         NEW c \in Conns
  PROVE  Kept(c)
<1>1. CASE Deleted(d, kind)
  BY <1>1 DEF Deleted, ClusterOK, Kept
<1>2. CASE UNCHANGED cluster
  BY <1>2 DEF cluster, Kept
<1> QED BY <1>1, <1>2 DEF SafeDelete

LEMMA ProvisionKeeps ==
  ASSUME HostedInv, NEW t \in Tasks, ProvisionAccount(t), NEW c \in Conns
  PROVE  Kept(c)
<1> DEFINE x == task[t]
<1>1. GoodTask(x) /\ ClusterOK
  BY DEF HostedInv, TasksOK
<1>2. CASE \/ Refused(t) \/ WaitReady(t) \/ NotReadyInTime(t) \/ StepFails(t)
           \/ PopulateBrokerCatalog(t) \/ WriteChartSymbol(t)
  <2>1. UNCHANGED cluster
    BY <1>2 DEF Refused, WaitReady, NotReadyInTime, StepFails, PopulateBrokerCatalog, WriteChartSymbol
  <2> QED BY <2>1 DEF cluster, Kept
<1>3. CASE WriteVaultCredentials(t)
  <2>1. x.c \in Conns /\ x.tok = "issued"
    BY <1>1, <1>3 DEF GoodTask, WriteVaultCredentials, Off
  <2>2. obj' = obj /\ vault' = [vault EXCEPT ![x.c] = [pw |-> x.pw, tok |-> "issued"]]
    BY <1>3, <2>1 DEF WriteVaultCredentials, EffectiveToken, None
  <2>3. [pw |-> x.pw, tok |-> "issued"] # NoSecret
    BY DEF NoSecret, None
  <2> QED BY <1>1, <2>1, <2>2, <2>3 DEF Kept, ClusterOK
<1>4. CASE UpsertStatefulSet(t) \/ UpsertAux(t) \/ UpsertService(t)
  <2>1. vault' = vault /\ \E kind : obj' = [obj EXCEPT ![x.c] = obj[x.c] \cup {kind}]
    BY <1>4 DEF UpsertStatefulSet, UpsertAux, UpsertService
  <2> QED BY <1>1, <2>1 DEF Kept, ClusterOK
<1>5. CASE PatchStatefulSetSymbol(t)
  BY <1>5 DEF PatchStatefulSetSymbol, Kept
<1>6. CASE BestEffortCleanup(t)
  <2>1. x.c \in Conns /\ x.i \in 1..3
    BY <1>1, <1>6 DEF GoodTask, BestEffortCleanup, Off
  <2>2. CleanupOrder[x.i] \in {"sts", "svc", "aux"}
    BY SMTT(30), <2>1 DEF CleanupOrder
  <2> QED BY <1>1, <1>6, <2>1, <2>2, LesserDeletes DEF BestEffortCleanup
<1> QED BY <1>2, <1>3, <1>4, <1>5, <1>6 DEF ProvisionAccount

\* delete_account works on a connection whose row is gone, and on no other.
LEMMA DeleteAccountKeeps ==
  ASSUME HostedInv, DeleteAccount, NEW c \in Conns
  PROVE  Kept(c) \/ row[c].life = "gone"
<1> DEFINE x == task["delete"]
<1>1. "delete" \in Tasks
  BY DEF Tasks
<1>2. /\ x.c \in Conns /\ row[x.c].life = "gone" /\ ClusterOK
  BY <1>1 DEF HostedInv, TasksOK, GoodTask, Fits, DeleteAccount, Off
<1>3. CASE c # x.c
  <2>1. PICK kind : SafeDelete(x.c, kind)
    BY DEF DeleteAccount
  <2>2. CASE Deleted(x.c, kind)
    BY <1>2, <1>3, <2>2 DEF Deleted, ClusterOK, Kept
  <2>3. CASE UNCHANGED cluster
    BY <2>3 DEF cluster, Kept
  <2> QED BY <2>1, <2>2, <2>3 DEF SafeDelete
<1> QED BY <1>2, <1>3

LEMMA OthersKeep ==
  ASSUME HostedInv, NEW c \in Conns,
         \/ RunHostedProvisioner \/ RotationEnds \/ EngineRestarts \/ Tick
         \/ \E t \in Sweeps : Sweep(t)
         \/ \E d \in Conns : Route(d)
         \/ \E d \in Conns : PodStarts(d) \/ PodReady(d) \/ PodLost(d) \/ StatefulSetLost(d)
         \/ UNCHANGED vars
  PROVE  Kept(c)
<1>0. ClusterOK
  BY DEF HostedInv
<1>1. CASE UNCHANGED cluster
  BY <1>1 DEF cluster, Kept
<1>2. CASE RunHostedProvisioner \/ RotationEnds \/ EngineRestarts \/ Tick \/ UNCHANGED vars
  BY <1>1, <1>2 DEF RunHostedProvisioner, RotationEnds, EngineRestarts, Tick, vars, cluster
<1>3. CASE \E t \in Sweeps : Sweep(t)
  BY <1>1, <1>3 DEF Sweep, StartSweep, StatusUnknown, PassOver, Reprovision, ReprovisionEnds, EndSweep
<1>4. CASE \E d \in Conns : Route(d)
  BY <1>1, <1>4 DEF Route, CreateBrokerConnection, UpdateBrokerConnection, TestBrokerConnection,
     ActivateBrokerConnection, SetPrimaryBrokerConnection, DeactivateBrokerConnection,
     DeleteBrokerConnection
<1>5. ASSUME NEW d \in Conns, PodStarts(d) \/ PodReady(d) \/ PodLost(d) PROVE Kept(c)
  BY <1>0, <1>5 DEF PodStarts, PodReady, PodLost, ClusterOK, Kept
<1>6. ASSUME NEW d \in Conns, StatefulSetLost(d) PROVE Kept(c)
  BY <1>0, <1>6 DEF StatefulSetLost, Deleted, ClusterOK, Kept
<1> QED BY <1>2, <1>3, <1>4, <1>5, <1>6

LEMMA PrefixStep ==
  ASSUME HostedInv, [Next]_vars, NEW c \in Conns
  PROVE  Kept(c) \/ row[c].life = "gone"
  BY ProvisionKeeps, DeleteAccountKeeps, OthersKeep DEF Next

\* No failed provision, rollback, drift, restart or race destroys the PVC or the
\* Vault path of a connection the user has not deleted.
THEOREM PrefixKept == Spec => PrefixOutlivesErrors
<1>1. HostedInv /\ [Next]_vars =>
        [\A c \in Conns : \/ "pvc" \in obj[c] /\ "pvc" \notin obj'[c]
                          \/ vault[c] # NoSecret /\ vault'[c] = NoSecret
                          => row[c].life = "gone"]_vars
  BY PrefixStep DEF Kept
<1> QED BY <1>1, InvHolds, PTL DEF Spec, PrefixOutlivesErrors

-----------------------------------------------------------------------------
(* The cooldown. *)

\* A step within provision_account stays with its connection.
LEMMA ProvisionStays ==
  ASSUME HostedInv, NEW s \in Tasks, ProvisionAccount(s)
  PROVE  /\ Prov(task[s]) /\ task'[s].c = task[s].c
         /\ \A t \in Tasks : t # s => task'[t] = task[t]
<1> DEFINE x == task[s]
<1>1. DOMAIN task = Tasks /\ x \in TaskRecord
  BY DEF HostedInv, TasksOK, GoodTask
<1>2. Prov(x)
  BY DEF ProvisionAccount, Refused, WriteVaultCredentials, UpsertStatefulSet, UpsertAux, UpsertService,
     WaitReady, NotReadyInTime, StepFails, PopulateBrokerCatalog, PatchStatefulSetSymbol,
     WriteChartSymbol, BestEffortCleanup, Prov
<1>3. ToCleanup(s)[s].c = x.c /\ \A t \in Tasks : t # s => ToCleanup(s)[t] = task[t]
  BY <1>1 DEF ToCleanup, Idle
<1>4. UpsertDone(s)[s].c = x.c /\ \A t \in Tasks : t # s => UpsertDone(s)[t] = task[t]
  BY <1>1 DEF UpsertDone, TaskRecord
<1>5. CASE NotReadyInTime(s) \/ StepFails(s) \/ (PatchStatefulSetSymbol(s) /\ task' = ToCleanup(s))
  BY <1>2, <1>3, <1>5 DEF NotReadyInTime, StepFails
<1>6. CASE UpsertStatefulSet(s) \/ UpsertAux(s) \/ UpsertService(s)
  BY <1>2, <1>4, <1>6 DEF UpsertStatefulSet, UpsertAux, UpsertService
<1>7. ASSUME NEW pc, task' = [task EXCEPT ![s].pc = pc]
      PROVE  task'[s].c = x.c /\ \A t \in Tasks : t # s => task'[t] = task[t]
  BY <1>1, <1>7 DEF TaskRecord
<1>8. CASE \/ Refused(s) \/ WaitReady(s) \/ WriteChartSymbol(s)
           \/ (PatchStatefulSetSymbol(s) /\ task' # ToCleanup(s))
  BY <1>2, <1>7, <1>8 DEF Refused, WaitReady, WriteChartSymbol, PatchStatefulSetSymbol
<1>9. CASE WriteVaultCredentials(s)
  BY <1>1, <1>2, <1>9 DEF WriteVaultCredentials, TaskRecord
<1>10. CASE PopulateBrokerCatalog(s)
  BY SMTT(30), <1>1, <1>2, <1>10 DEF PopulateBrokerCatalog, TaskRecord
<1>11. CASE BestEffortCleanup(s)
  BY <1>1, <1>2, <1>11 DEF BestEffortCleanup, TaskRecord
<1> QED BY <1>5, <1>6, <1>8, <1>9, <1>10, <1>11 DEF ProvisionAccount

\* A sweep takes up a connection in _reprovision only, and there after the cooldown
\* by its own clock, which does not run ahead of the table.
LEMMA ReprovisionSpaced ==
  ASSUME HostedInv, NEW s \in Sweeps, Reprovision(s), NEW c \in Conns, NEW t \in Sweeps,
         ~Prov(task[t]) \/ task[t].c # c, Prov(task'[t]), task'[t].c = c
  PROVE  since[c] \in {Never, Cooldown}
<1>0. Sweeps \subseteq Tasks
  BY DEF Tasks
<1>1. /\ DOMAIN task = Tasks /\ ClocksOK
      /\ \A r \in Tasks : GoodTask(task[r]) /\ Fits(task[r], row, since)
  BY DEF HostedInv, TasksOK
<1>2. PICK d \in DOMAIN task[s].rows :
        /\ MayReprovision(s, d)
        /\ \/ task' = [Attempted(s, d) EXCEPT ![s].rows = Rest(s, d)]
           \/ task' = [Attempted(s, d) EXCEPT ![s] =
                [@ EXCEPT !.pc = "vault", !.c = d, !.i = 1, !.pw = task[s].rows[d].row.pw,
                          !.tok = task[s].rows[d].row.tok, !.sym = task[s].rows[d].row.sym,
                          !.waited = 0, !.rows = Rest(s, d)]]
  BY DEF Reprovision
<1>3. /\ d \in Conns /\ task[s].rows[d].since \in Never..Cooldown
      /\ task[s].rows[d].since # Never => task[s].rows[d].since <= since[d]
  <2>1. DOMAIN task[s].rows \subseteq Conns /\ task[s].rows \in [DOMAIN task[s].rows -> Copy]
    BY <1>0, <1>1, CopiesOf
  <2> QED BY <1>0, <1>1, <2>1 DEF Copy, Fits
<1>4. since[d] \in {Never, Cooldown}
  <2>1. ~CoolingDown(s, d)
    BY <1>2 DEF MayReprovision
  <2>2. since[d] \in Never..Cooldown
    BY <1>1, <1>3 DEF ClocksOK
  <2> QED BY SMTT(30), <1>3, <2>1, <2>2, TimersAssumption DEF CoolingDown, Never
<1>5. /\ DOMAIN Attempted(s, d) = Tasks /\ Attempted(s, d)[s] = task[s]
      /\ \A r \in Tasks : r # s => Attempted(s, d)[r] = Told(task[r], d)
  BY <1>0 DEF Attempted, Told
<1>6. t = s
  <2> SUFFICES ASSUME t # s PROVE FALSE
    OBVIOUS
  <2>1. task'[t] = Told(task[t], d)
    BY <1>0, <1>2, <1>5
  <2>2. task'[t].pc = task[t].pc /\ task'[t].c = task[t].c
    <3>1. GoodTask(task[t]) /\ d \in Conns
      BY <1>0, <1>1, <1>3
    <3> DEFINE z == Told(task[t], d)
    <3>2. z.pc = task[t].pc /\ z.c = task[t].c
      BY <3>1, ToldTask
    <3> QED BY <2>1, <3>2
  <2> QED BY <2>2 DEF Prov
<1>7. c = d
  <2>0. task[s] \in TaskRecord /\ task[s].pc = "sweep"
    BY <1>0, <1>1 DEF GoodTask, Reprovision
  <2>1. CASE task' = [Attempted(s, d) EXCEPT ![s].rows = Rest(s, d)]
    <3>1. task'[s].pc = "sweep"
      BY <1>0, <1>5, <2>0, <2>1 DEF TaskRecord
    <3> QED BY <1>6, <3>1 DEF Prov
  <2>2. CASE task' # [Attempted(s, d) EXCEPT ![s].rows = Rest(s, d)]
    <3> DEFINE y == Taken(task[s], d, task[s].rows[d].row, Rest(s, d))
    <3>1. task' = [Attempted(s, d) EXCEPT ![s] = y]
      BY <1>0, <1>2, <1>5, <2>2 DEF Taken
    <3>2. y.c = d
      BY <2>0 DEF Taken, TaskRecord
    <3> HIDE DEF y
    <3>3. task'[s] = y
      BY <1>0, <1>5, <3>1
    <3> QED BY <1>6, <3>2, <3>3
  <2> QED BY <2>1, <2>2
<1> QED BY <1>4, <1>7

\* No other step makes a sweep take up a connection.
LEMMA OthersStay ==
  ASSUME HostedInv, NEW c \in Conns, NEW t \in Sweeps, Prov(task'[t]), task'[t].c = c,
         \/ RunHostedProvisioner \/ RotationEnds \/ DeleteAccount \/ EngineRestarts \/ Tick
         \/ \E s \in Sweeps : \/ StartSweep(s) \/ StatusUnknown(s) \/ PassOver(s)
                              \/ ReprovisionEnds(s) \/ EndSweep(s)
         \/ \E d \in Conns : Route(d)
         \/ \E d \in Conns : PodStarts(d) \/ PodReady(d) \/ PodLost(d) \/ StatefulSetLost(d)
         \/ UNCHANGED vars
  PROVE  Prov(task[t]) /\ task[t].c = c
<1>0. t \in Tasks /\ t # "create" /\ t # "rotate" /\ t # "delete" /\ Sweeps \subseteq Tasks
  BY DEF Tasks, Sweeps
<1>1. DOMAIN task = Tasks /\ \A r \in Tasks : GoodTask(task[r]) /\ task[r] \in TaskRecord
  BY DEF HostedInv, TasksOK, GoodTask
<1>2. CASE task'[t] = task[t]
  BY <1>2
<1>3. CASE RunHostedProvisioner \/ RotationEnds \/ DeleteAccount \/ UNCHANGED vars
  BY <1>0, <1>1, <1>2, <1>3 DEF RunHostedProvisioner, RotationEnds, DeleteAccount, vars
<1>4. CASE EngineRestarts
  BY <1>0, <1>4 DEF EngineRestarts, Prov, Idle
<1>5. CASE Tick
  <2>1. task'[t] = AfterInterval(task[t])
    BY <1>0, <1>5 DEF Tick, AfterInterval, Waited
  <2>2. \/ task[t].pc \in {"idle", "sleep"}
        \/ (task[t].pc = "wait" /\ task[t].waited < Readiness)
    BY <1>0, <1>5 DEF Tick
  <2> QED BY <1>0, <1>1, <2>1, <2>2, AfterIntervalTask DEF Prov, Off
<1>6. ASSUME NEW s \in Sweeps, \/ StartSweep(s) \/ StatusUnknown(s) \/ PassOver(s)
                              \/ ReprovisionEnds(s) \/ EndSweep(s)
      PROVE  Prov(task[t]) /\ task[t].c = c
  <2>1. \E y : task' = [task EXCEPT ![s] = y] /\ ~Prov(y)
    <3>1. CASE StartSweep(s) \/ ReprovisionEnds(s) \/ EndSweep(s)
      <4>1. \A pc, rows : Sweeping(Idle, pc, rows).pc = pc
        BY DEF Sweeping, Idle
      <4>2. \A pc : [Idle EXCEPT !.pc = pc] = Sweeping(Idle, pc, Idle.rows)
        BY DEF Sweeping, Idle
      <4>3. \E pc \in Off : \E rows : task' = [task EXCEPT ![s] = Sweeping(Idle, pc, rows)]
        <5>1. CASE StartSweep(s)
          BY <5>1 DEF StartSweep, Sweeping, Off
        <5>2. CASE ReprovisionEnds(s)
          BY <5>2 DEF ReprovisionEnds, Sweeping, Off
        <5>3. CASE EndSweep(s)
          <6>1. PICK pc \in Off : task' = [task EXCEPT ![s] = [Idle EXCEPT !.pc = pc]]
            BY <5>3 DEF EndSweep, Off
          <6>2. task' = [task EXCEPT ![s] = Sweeping(Idle, pc, Idle.rows)]
            BY <4>2, <6>1
          <6> QED BY <6>2
        <5> QED BY <3>1, <5>1, <5>2, <5>3
      <4>4. PICK pc \in Off : \E rows : task' = [task EXCEPT ![s] = Sweeping(Idle, pc, rows)]
        BY <4>3
      <4>5. PICK rows : task' = [task EXCEPT ![s] = Sweeping(Idle, pc, rows)]
        BY <4>4
      <4>6. ~Prov(Sweeping(Idle, pc, rows))
        BY <4>1 DEF Prov, Off
      <4> QED BY <4>5, <4>6
    <3>2. CASE StatusUnknown(s) \/ PassOver(s)
      <4>1. task[s].pc = "sweep" /\ \E d : Skip(s, d)
        BY <3>2 DEF StatusUnknown, PassOver
      <4>2. \A rows : [task[s] EXCEPT !.rows = rows].pc = task[s].pc
        BY <1>0, <1>1 DEF TaskRecord
      <4>3. \E rows : task' = [task EXCEPT ![s] = [task[s] EXCEPT !.rows = rows]]
        BY <1>0, <1>1, <4>1 DEF Skip
      <4> QED BY <4>1, <4>2, <4>3 DEF Prov
    <3> QED BY <1>6, <3>1, <3>2
  <2> QED BY <1>0, <1>1, <1>2, <2>1
<1>7. ASSUME NEW d \in Conns, Route(d) PROVE Prov(task[t]) /\ task[t].c = c
  BY <1>0, <1>1, <1>2, <1>7 DEF Route, CreateBrokerConnection, UpdateBrokerConnection,
     TestBrokerConnection, ActivateBrokerConnection, SetPrimaryBrokerConnection,
     DeactivateBrokerConnection, DeleteBrokerConnection, Call
<1>8. ASSUME NEW d \in Conns, PodStarts(d) \/ PodReady(d) \/ PodLost(d) \/ StatefulSetLost(d)
      PROVE  Prov(task[t]) /\ task[t].c = c
  BY <1>2, <1>8 DEF PodStarts, PodReady, PodLost, StatefulSetLost
<1> QED BY <1>3, <1>4, <1>5, <1>6, <1>7, <1>8

LEMMA SpacedStep ==
  ASSUME HostedInv, [Next]_vars, NEW c \in Conns, NEW t \in Sweeps,
         ~Provisioning(t, c), Provisioning(t, c)'
  PROVE  since[c] \in {Never, Cooldown}
<1>1. (~Prov(task[t]) \/ task[t].c # c) /\ Prov(task'[t]) /\ task'[t].c = c
  BY DEF Provisioning, Prov
<1>2. ASSUME NEW s \in Tasks, ProvisionAccount(s) PROVE FALSE
  <2>1. t \in Tasks
    BY DEF Tasks
  <2> QED BY <1>1, <1>2, <2>1, ProvisionStays
<1> QED BY <1>1, <1>2, ReprovisionSpaced, OthersStay DEF Next, Sweep

\* Two attempts of the recovery service at a connection are at least a cooldown
\* apart within an engine life, though two sweeps, each with a clock of its own
\* and with copies of the rows, share the table of attempts.
THEOREM AttemptsKeptApart == Spec => AttemptsSpaced
<1>1. HostedInv /\ [Next]_vars =>
        [\A c \in Conns : \A t \in Sweeps :
           ~Provisioning(t, c) /\ Provisioning(t, c)' => since[c] \in {Never, Cooldown}]_vars
  BY SpacedStep
<1> QED BY <1>1, InvHolds, PTL DEF Spec, AttemptsSpaced
=============================================================================
