------------------------- MODULE RagKnowledgeProofs -------------------------
(***************************************************************************)
(* For any number of replicas, any registry, any files and any number of   *)
(* faults: the types of RagKnowledge, and that no active document is       *)
(* forgotten while the vector store keeps its volume (IndexedOrOwed).      *)
(***************************************************************************)
EXTENDS RagKnowledge, SequenceTheorems, TLAPS

\* Most leaves are first-order; those that need arithmetic or records cite SMT.
USE ZenonT(30)

Doc == [status : {"absent", "draft", "active"}, active : Nat]
VersionStates == {"draft", "active", "superseded"}
QueueRow == [doc : Assets, version : Nat, status : {"pending", "completed", "failed"}]

\* An active document points at a version it has, and some row of the queue,
\* whatever its status, was made for exactly that version.
ActiveHasRow ==
    \A a \in Assets : docs[a].status = "active" =>
        /\ docs[a].active \in 1..Len(versions[a])
        /\ \E i \in 1..Len(queue) : queue[i].doc = a /\ queue[i].version = docs[a].active

\* A row is made for a version that exists.
RowHasVersion ==
    \A i \in 1..Len(queue) : queue[i].version \in 1..Len(versions[queue[i].doc])

\* What a replica has read before it writes is still there: versions and rows
\* are never deleted.
CurrentIn(x, vs, q) ==
    /\ x.work \subseteq 1..Len(q) /\ x.done \subseteq 1..Len(q)
    /\ x.bad \subseteq 1..Len(q)
    /\ \A d \in x.stale : d[2] \in 1..Len(vs[d[1]])
    /\ x.pc \in {"number", "commit", "latest", "active", "publish"} => x.doc \in Assets
    /\ x.pc = "latest" => Len(vs[x.doc]) > 0
    /\ x.pc \in {"active", "publish"} => x.number \in 1..Len(vs[x.doc])
Current(x) == CurrentIn(x, versions, queue)

\* A row that is completed, or will be when the transaction that handled it
\* commits, has all batches of its version in the store.
CompletedIsStored ==
    ~lost => \A i \in 1..Len(queue) :
        (queue[i].status = "completed" \/ \E r \in Replicas : i \in rep[r].done)
        => BatchesOf(queue[i].doc, queue[i].version) \subseteq vectors

KnowledgeInv ==
    /\ TypeOK
    /\ ActiveHasRow
    /\ RowHasVersion
    /\ \A r \in Replicas : Current(rep[r])
    /\ CompletedIsStored

-----------------------------------------------------------------------------
\* The invariant says that nothing is forgotten: the row of an active version
\* is either not completed, or its batches are stored.
LEMMA InvImplies == KnowledgeInv => IndexedOrOwed
<1> SUFFICES ASSUME KnowledgeInv, ~lost, NEW a \in ActiveDocs
             PROVE  \/ BatchesOf(a, docs[a].active) \subseteq vectors
                    \/ \E i \in DOMAIN queue : queue[i].doc = a /\ queue[i].status # "completed"
  BY DEF IndexedOrOwed
<1>1. PICK i \in 1..Len(queue) : queue[i].doc = a /\ queue[i].version = docs[a].active
  BY DEF KnowledgeInv, ActiveHasRow, ActiveDocs
<1>2. DOMAIN queue = 1..Len(queue)
  BY SMTT(30) DEF KnowledgeInv, TypeOK
<1>3. CASE queue[i].status = "completed"
  BY <1>1, <1>3 DEF KnowledgeInv, CompletedIsStored
<1> QED
  BY <1>1, <1>2, <1>3

LEMMA InvInit == Init => KnowledgeInv
<1> SUFFICES ASSUME Init PROVE KnowledgeInv
  OBVIOUS
<1> USE KnowledgeBounds DEF Init
<1>1. Down \in Replica
  BY DEF Down, Replica, Steps
<1>2. TypeOK
  <2>1. docs \in [Assets -> Doc]
    BY DEF Doc
  <2>2. queue \in Seq(QueueRow) /\ versions \in [Assets -> Seq(VersionStates)]
    BY SMTT(30)
  <2>3. rep \in [Replicas -> Replica]
    BY <1>1
  <2>4. faults \in 0..MaxFaults
    BY SMTT(30)
  <2>5. collection \in BOOLEAN /\ lost \in BOOLEAN
    OBVIOUS
  <2> QED
    BY <2>1, <2>2, <2>3, <2>4, <2>5 DEF TypeOK, Doc, QueueRow, VersionStates
<1>3. \A r \in Replicas : Current(rep[r])
  BY DEF Current, CurrentIn, Down
<1> QED
  BY SMTT(30), <1>2, <1>3 DEF KnowledgeInv, ActiveHasRow, RowHasVersion, CompletedIsStored

-----------------------------------------------------------------------------
\* A step that changes what replicas remember, or adds to the store, and leaves
\* the database alone: no replica may claim more finished rows than before.
LEMMA ReplicasOnly ==
    ASSUME KnowledgeInv,
           rep' \in [Replicas -> Replica],
           \A s \in Replicas : Current(rep'[s]) /\ rep'[s].done \subseteq rep[s].done,
           UNCHANGED <<docs, versions, queue>>,
           ~lost' => ~lost /\ vectors \subseteq vectors',
           collection' \in BOOLEAN, lost' \in BOOLEAN, faults' \in 0..MaxFaults
    PROVE  KnowledgeInv'
<1>1. TypeOK'
  BY DEF KnowledgeInv, TypeOK
<1>2. ActiveHasRow' /\ RowHasVersion'
  BY DEF KnowledgeInv, ActiveHasRow, RowHasVersion
<1>3. \A s \in Replicas : Current(rep[s])'
  BY DEF Current, CurrentIn
<1>4. CompletedIsStored'
  BY SMTT(30) DEF KnowledgeInv, CompletedIsStored, BatchesOf
<1> QED
  BY <1>1, <1>2, <1>3, <1>4 DEF KnowledgeInv

\* The same when one replica's record is replaced.
LEMMA OneReplica ==
    ASSUME KnowledgeInv,
           NEW r \in Replicas, NEW x \in Replica,
           Current(x), x.done \subseteq rep[r].done,
           rep' = [rep EXCEPT ![r] = x],
           UNCHANGED <<docs, versions, queue, vectors, lost, faults>>,
           collection' \in BOOLEAN
    PROVE  KnowledgeInv'
<1>1. rep \in [Replicas -> Replica] /\ lost \in BOOLEAN /\ faults \in 0..MaxFaults
  BY DEF KnowledgeInv, TypeOK
<1>2. rep' \in [Replicas -> Replica]
  BY <1>1
<1>3. ASSUME NEW s \in Replicas
      PROVE  Current(rep'[s]) /\ rep'[s].done \subseteq rep[s].done
  <2>1. CASE s = r
    BY <1>1, <2>1
  <2>2. CASE s # r
    BY <1>1, <2>2 DEF KnowledgeInv
  <2> QED BY <2>1, <2>2
<1> QED
  BY <1>1, <1>2, <1>3, ReplicasOnly

\* What every record of a replica is made of.
LEMMA DownIsCurrent == Down \in Replica /\ Current(Down) /\ Down.done = {}
  BY KnowledgeBounds DEF Down, Replica, Steps, Current, CurrentIn

LEMMA UpIsCurrent ==
    ASSUME KnowledgeInv, NEW r \in Replicas
    PROVE  Up(r) \in Replica /\ Current(Up(r)) /\ Up(r).done = {}
<1>1. rep[r].clean \in BOOLEAN
  BY DEF KnowledgeInv, TypeOK, Replica
<1> QED
  BY <1>1, KnowledgeBounds DEF Up, Down, Replica, Steps, Current, CurrentIn

\* A fault marks boots as met by one, which no other part of the invariant reads.
LEMMA UncleanKeeps ==
    ASSUME NEW reps \in [Replicas -> Replica],
           \A s \in Replicas : Current(reps[s])
    PROVE  /\ Unclean(reps) \in [Replicas -> Replica]
           /\ \A s \in Replicas : /\ Current(Unclean(reps)[s])
                                  /\ Unclean(reps)[s].done = reps[s].done
<1> SUFFICES ASSUME NEW s \in Replicas
             PROVE  /\ [reps[s] EXCEPT !.clean = FALSE] \in Replica
                    /\ Current([reps[s] EXCEPT !.clean = FALSE])
                    /\ [reps[s] EXCEPT !.clean = FALSE].done = reps[s].done
  BY DEF Unclean
<1> DEFINE x == reps[s]
           y == [x EXCEPT !.clean = FALSE]
<1>1. x \in Replica /\ Current(x)
  OBVIOUS
<1>2. y \in Replica /\ y.pc = x.pc /\ y.doc = x.doc /\ y.number = x.number /\ y.stale = x.stale
      /\ y.work = x.work /\ y.done = x.done /\ y.bad = x.bad
  BY <1>1 DEF Replica
<1>3. Current(y)
  BY <1>1, <1>2 DEF Current, CurrentIn
<1> QED BY <1>2, <1>3

-----------------------------------------------------------------------------
\* Boot, seed and ingest: reads.
LEMMA ReadSteps ==
    ASSUME KnowledgeInv, NEW r \in Replicas,
           \/ Start(r) \/ SeedRead(r) \/ IngestCheck(r) \/ IngestNumber(r)
           \/ Latest(r) \/ ActiveRead(r) \/ DrainRead(r) \/ Compare(r)
    PROVE  KnowledgeInv'
<1> DEFINE x == rep[r]
<1>1. /\ x \in Replica /\ Current(x) /\ collection \in BOOLEAN
      /\ rep \in [Replicas -> Replica]
      /\ docs \in [Assets -> Doc] /\ versions \in [Assets -> Seq(VersionStates)]
  BY DEF KnowledgeInv, TypeOK, Doc, VersionStates
<1> USE DEF database, store, NoFault
<1>2. CASE Start(r)
  <2> DEFINE y == [Down EXCEPT !.pc = "seed", !.clean = TRUE]
  <2>1. y \in Replica /\ Current(y) /\ y.done \subseteq x.done
    BY KnowledgeBounds DEF Down, Replica, Steps, Current, CurrentIn
  <2> QED
    BY <1>2, <2>1, OneReplica DEF Start, CreateCollection
<1>3. CASE SeedRead(r)
  <2> DEFINE todo == {a \in Assets : docs[a].status = "absent"}
             y == [x EXCEPT !.todo = todo, !.pc = "insert"]
  <2>1. y \in Replica /\ Current(y) /\ y.done \subseteq x.done
    BY <1>1 DEF Replica, Steps, Current, CurrentIn
  <2> QED
    BY <1>1, <1>3, <2>1, OneReplica DEF SeedRead
<1>4. CASE IngestCheck(r)
  <2>1. PICK a \in x.todo :
          IF a \in Refused THEN Fail(r)
          ELSE rep' = [rep EXCEPT ![r].doc = a,
                                  ![r].pc = IF versions[a] # <<>> THEN "latest" ELSE "number"]
    BY <1>4 DEF IngestCheck
  <2>2. CASE a \in Refused
    BY <1>1, <1>4, <2>1, <2>2, DownIsCurrent, OneReplica DEF Fail, IngestCheck
  <2>3. CASE a \notin Refused
    <3> DEFINE y == [x EXCEPT !.doc = a, !.pc = IF versions[a] # <<>> THEN "latest" ELSE "number"]
    <3>1. a \in Assets
      BY <1>1 DEF Replica
    <3>2. versions[a] # <<>> => Len(versions[a]) > 0
      BY SMTT(30), <1>1, <3>1
    <3>3. /\ y \in Replica /\ y.doc = a
          /\ y.pc = (IF versions[a] # <<>> THEN "latest" ELSE "number")
          /\ y.work = x.work /\ y.done = x.done /\ y.bad = x.bad /\ y.stale = x.stale
      BY <1>1, <3>1 DEF Replica, Steps
    <3>4. Current(y)
      BY SMTT(30), <1>1, <3>1, <3>2, <3>3 DEF Current, CurrentIn
    <3>5. rep' = [rep EXCEPT ![r] = y]
      BY <1>1, <2>1, <2>3
    <3>6. UNCHANGED <<docs, versions, queue, collection, vectors, lost, faults>>
      BY <1>4 DEF IngestCheck
    <3> QED
      BY <1>1, <3>3, <3>4, <3>5, <3>6, OneReplica
  <2> QED BY <2>2, <2>3
<1>5. CASE IngestNumber(r)
  <2> DEFINE y == [x EXCEPT !.number = Len(versions[x.doc]) + 1, !.pc = "commit"]
  <2>1. x.doc \in Assets /\ Len(versions[x.doc]) + 1 \in Nat
    BY SMTT(30), <1>1, <1>5 DEF Current, CurrentIn, IngestNumber
  <2>2. /\ y \in Replica /\ y.doc = x.doc /\ y.pc = "commit"
        /\ y.work = x.work /\ y.done = x.done /\ y.bad = x.bad /\ y.stale = x.stale
    BY <1>1, <2>1 DEF Replica, Steps
  <2>3. Current(y)
    BY <1>1, <2>1, <2>2 DEF Current, CurrentIn
  <2> QED
    BY <1>1, <1>5, <2>2, <2>3, OneReplica DEF IngestNumber
<1>6. CASE Latest(r)
  <2> DEFINE y == [x EXCEPT !.number = Len(versions[x.doc]), !.pc = "active"]
  <2>1. x.doc \in Assets /\ Len(versions[x.doc]) > 0 /\ Len(versions[x.doc]) \in Nat
    BY SMTT(30), <1>1, <1>6 DEF Current, CurrentIn, Latest
  <2>2. /\ y \in Replica /\ y.doc = x.doc /\ y.pc = "active"
        /\ y.number = Len(versions[x.doc])
        /\ y.work = x.work /\ y.done = x.done /\ y.bad = x.bad /\ y.stale = x.stale
    BY <1>1, <2>1 DEF Replica, Steps
  <2>3. Current(y)
    BY SMTT(30), <1>1, <2>1, <2>2 DEF Current, CurrentIn
  <2> QED
    BY <1>1, <1>6, <2>2, <2>3, OneReplica DEF Latest
<1>7. CASE ActiveRead(r)
  <2>1. x.doc \in Assets /\ x.pc = "active"
    BY <1>1, <1>7 DEF Current, CurrentIn, ActiveRead
  <2>2. ActiveVersions(x.doc) \subseteq Nat
    BY SMTT(30), <1>1, <2>1 DEF ActiveVersions
  <2>3. PICK v \in Nat : rep' = [rep EXCEPT ![r].seen = v, ![r].pc = "publish"]
    BY <1>7, <2>2 DEF ActiveRead
  <2> DEFINE y == [x EXCEPT !.seen = v, !.pc = "publish"]
  <2>4. /\ y \in Replica /\ y.doc = x.doc /\ y.pc = "publish" /\ y.number = x.number
        /\ y.work = x.work /\ y.done = x.done /\ y.bad = x.bad /\ y.stale = x.stale
    BY <1>1 DEF Replica, Steps
  <2>5. Current(y)
    BY <1>1, <2>1, <2>4 DEF Current, CurrentIn
  <2>6. rep' = [rep EXCEPT ![r] = y]
    BY <1>1, <2>3
  <2>7. UNCHANGED <<docs, versions, queue, collection, vectors, lost, faults>>
    BY <1>7 DEF ActiveRead
  <2> QED
    BY <1>1, <2>4, <2>5, <2>6, <2>7, OneReplica
<1>8. CASE DrainRead(r)
  <2> DEFINE y == IF PendingRows = {} THEN Drained(r)
                  ELSE [x EXCEPT !.pc = "item", !.work = PendingRows]
  <2>1. PendingRows \subseteq 1..Len(queue)
    BY SMTT(30) DEF PendingRows, KnowledgeInv, TypeOK
  <2>2. [x EXCEPT !.pc = "count"] \in Replica /\ Current([x EXCEPT !.pc = "count"])
    BY <1>1 DEF Replica, Steps, Current, CurrentIn
  <2>3. y \in Replica /\ Current(y) /\ y.done \subseteq x.done
    <3>1. CASE PendingRows = {}
      <4>1. [x EXCEPT !.pc = "count"].done = x.done
        BY <1>1 DEF Replica
      <4>2. y = Up(r) \/ y = [x EXCEPT !.pc = "count"]
        BY <3>1 DEF Drained
      <4> QED BY <2>2, <4>1, <4>2, UpIsCurrent
    <3>2. CASE PendingRows # {}
      <4> DEFINE z == [x EXCEPT !.pc = "item", !.work = PendingRows]
      <4>0. PendingRows \in SUBSET RowIds
        BY SMTT(30), <2>1 DEF RowIds
      <4>1. /\ z \in Replica /\ z.pc = "item" /\ z.work = PendingRows
            /\ z.done = x.done /\ z.bad = x.bad /\ z.stale = x.stale
        BY <1>1, <4>0 DEF Replica, Steps
      <4>2. Current(z)
        BY <1>1, <2>1, <4>1 DEF Current, CurrentIn
      <4>3. y = z
        BY <3>2
      <4> QED BY <4>1, <4>2, <4>3
    <3> QED BY <3>1, <3>2
  <2> QED
    BY <1>1, <1>8, <2>3, OneReplica DEF DrainRead
<1>9. CASE Compare(r)
  <2> DEFINE stale == {<<a, docs[a].active>> : a \in ActiveDocs}
             y == [x EXCEPT !.pc = "enqueue", !.stale = stale]
  <2>1. stale \in SUBSET (Assets \X Nat) /\ \A d \in stale : d[2] \in 1..Len(versions[d[1]])
    BY SMTT(30), <1>1 DEF ActiveDocs, Doc, KnowledgeInv, ActiveHasRow
  <2>2. y \in Replica /\ Current(y) /\ y.done \subseteq x.done
    BY <1>1, <2>1 DEF Replica, Steps, Current, CurrentIn
  <2>3. \/ rep' = [rep EXCEPT ![r] = y]
        \/ rep' = [rep EXCEPT ![r] = Up(r)]
    BY <1>9 DEF Compare
  <2> QED
    BY <1>1, <1>9, <2>2, <2>3, UpIsCurrent, OneReplica DEF Compare
<1> QED BY <1>2, <1>3, <1>4, <1>5, <1>6, <1>7, <1>8, <1>9

\* Seeding writes the registry; a document it adds is a draft, and one that was
\* active stays as it is.
LEMMA SeedCommitStep ==
    ASSUME KnowledgeInv, NEW r \in Replicas, SeedCommit(r)
    PROVE  KnowledgeInv'
<1> DEFINE x == rep[r]
<1>1. /\ x \in Replica /\ Current(x) /\ collection \in BOOLEAN
      /\ rep \in [Replicas -> Replica]
      /\ docs \in [Assets -> Doc]
  BY DEF KnowledgeInv, TypeOK, Doc
<1>2. UNCHANGED <<versions, queue, collection, vectors, lost, faults>>
  BY DEF SeedCommit, store, NoFault
<1>3. CASE \E a \in x.todo : docs[a].status # "absent"
  BY <1>1, <1>2, <1>3, DownIsCurrent, OneReplica DEF SeedCommit, Fail
<1>4. CASE ~ \E a \in x.todo : docs[a].status # "absent"
  <2> DEFINE drafts == {a \in Assets : docs'[a].status = "draft"}
             y == [x EXCEPT !.todo = drafts, !.pc = IF drafts = {} THEN "count" ELSE "ingest"]
  <2>1. docs' = [a \in Assets |-> IF a \in x.todo
                     THEN [status |-> "draft", active |-> 0] ELSE docs[a]]
    BY <1>4 DEF SeedCommit
  <2>2. docs' \in [Assets -> Doc]
    BY <1>1, <2>1 DEF Doc
  <2>3. \A a \in Assets : docs'[a].status = "active" => docs'[a] = docs[a]
    BY <1>1, <2>1
  <2>4. rep' = [rep EXCEPT ![r] = y]
    BY <1>1, <1>4 DEF SeedCommit
  <2>5. /\ y \in Replica /\ y.pc \in {"count", "ingest"}
        /\ y.work = x.work /\ y.done = x.done /\ y.bad = x.bad /\ y.stale = x.stale
    BY <1>1 DEF Replica, Steps
  <2>6. Current(y)
    BY <1>1, <2>5 DEF Current, CurrentIn
  <2>7. \A s \in Replicas : Current(rep'[s]) /\ rep'[s].done = rep[s].done
    BY <1>1, <2>4, <2>5, <2>6 DEF KnowledgeInv
  <2>8. TypeOK'
    BY <1>1, <1>2, <2>2, <2>4, <2>5 DEF KnowledgeInv, TypeOK, Doc
  <2>9. ActiveHasRow' /\ RowHasVersion'
    BY SMTT(30), <1>2, <2>3 DEF KnowledgeInv, ActiveHasRow, RowHasVersion
  <2>10. \A s \in Replicas : Current(rep[s])'
    BY <1>2, <2>7 DEF Current, CurrentIn
  <2>11. CompletedIsStored'
    BY SMTT(30), <1>2, <2>7 DEF KnowledgeInv, CompletedIsStored, BatchesOf
  <2> QED
    BY <2>8, <2>9, <2>10, <2>11 DEF KnowledgeInv
<1> QED BY <1>3, <1>4

\* The facts of the invariant about versions and rows survive when both only
\* grow: versions get longer, and rows keep document and version.
Grows ==
    /\ versions' \in [Assets -> Seq(VersionStates)]
    /\ queue' \in Seq(QueueRow)
    /\ \A a \in Assets : Len(versions[a]) <= Len(versions'[a])
    /\ Len(queue) <= Len(queue')
    /\ \A i \in 1..Len(queue) : /\ queue'[i].doc = queue[i].doc
                                /\ queue'[i].version = queue[i].version

LEMMA CurrentGrows ==
    ASSUME TypeOK, Grows, NEW x \in Replica, Current(x)
    PROVE  CurrentIn(x, versions', queue')
<1>1. Len(queue) \in Nat /\ Len(queue') \in Nat
  BY SMTT(30) DEF TypeOK, Grows
<1>2. \A a \in Assets : Len(versions[a]) \in Nat /\ Len(versions'[a]) \in Nat
  BY SMTT(30) DEF TypeOK, Grows
<1>3. \A d \in x.stale : d[1] \in Assets /\ d[2] \in Nat
  BY DEF Replica
<1>4. x.number \in Nat
  BY DEF Replica
<1>5. 1..Len(queue) \subseteq 1..Len(queue')
  BY SMTT(30), <1>1 DEF Grows
<1>6. \A d \in x.stale : d[2] \in 1..Len(versions'[d[1]])
  BY SMTT(30), <1>2, <1>3 DEF Current, CurrentIn, Grows
<1>7. /\ x.pc = "latest" => Len(versions'[x.doc]) > 0
      /\ x.pc \in {"active", "publish"} => x.number \in 1..Len(versions'[x.doc])
  BY SMTT(30), <1>2, <1>4 DEF Current, CurrentIn, Grows
<1> QED
  BY <1>5, <1>6, <1>7 DEF Current, CurrentIn

LEMMA OneReplicaGrows ==
    ASSUME KnowledgeInv, Grows,
           NEW r \in Replicas, NEW y \in Replica, CurrentIn(y, versions', queue'),
           y.done \subseteq rep[r].done,
           rep' = [rep EXCEPT ![r] = y]
    PROVE  /\ rep' \in [Replicas -> Replica]
           /\ \A s \in Replicas : Current(rep[s])' /\ rep'[s].done \subseteq rep[s].done
<1>1. rep \in [Replicas -> Replica] /\ TypeOK
  BY DEF KnowledgeInv, TypeOK
<1>2. rep' \in [Replicas -> Replica]
  BY <1>1
<1>3. ASSUME NEW s \in Replicas
      PROVE  CurrentIn(rep'[s], versions', queue') /\ rep'[s].done \subseteq rep[s].done
  <2>1. CASE s = r
    BY <1>1, <2>1
  <2>2. CASE s # r
    <3>1. rep'[s] = rep[s] /\ rep[s] \in Replica /\ Current(rep[s])
      BY <1>1, <2>2 DEF KnowledgeInv
    <3> QED BY <1>1, <3>1, CurrentGrows
  <2> QED BY <2>1, <2>2
<1> QED BY <1>2, <1>3 DEF Current

LEMMA RowTypes ==
    ASSUME TypeOK
    PROVE  \A i \in 1..Len(queue) : queue[i] \in QueueRow /\ queue[i].doc \in Assets
<1>1. queue \in Seq(QueueRow)
  BY DEF TypeOK, QueueRow
<1>2. \A i \in 1..Len(queue) : queue[i] \in QueueRow
  BY SMTT(30), <1>1
<1> QED BY <1>2 DEF QueueRow

LEMMA RowsGrow ==
    ASSUME KnowledgeInv, Grows
    PROVE  /\ \A i \in 1..Len(queue) : queue'[i].version \in 1..Len(versions'[queue'[i].doc])
           /\ \A a \in Assets : docs[a].status = "active" =>
                /\ docs[a].active \in 1..Len(versions'[a])
                /\ \E i \in 1..Len(queue') : /\ queue'[i].doc = a
                                             /\ queue'[i].version = docs[a].active
<1>1. Len(queue) \in Nat /\ Len(queue') \in Nat
  BY SMTT(30) DEF KnowledgeInv, TypeOK, Grows
<1>2. \A a \in Assets : Len(versions[a]) \in Nat /\ Len(versions'[a]) \in Nat
  BY SMTT(30) DEF KnowledgeInv, TypeOK, Grows
<1>3. \A i \in 1..Len(queue) : queue[i].doc \in Assets
  BY RowTypes DEF KnowledgeInv
<1>4. \A i \in 1..Len(queue) : queue'[i].version \in 1..Len(versions'[queue'[i].doc])
  BY SMTT(30), <1>1, <1>2, <1>3 DEF KnowledgeInv, RowHasVersion, Grows
<1>5. ASSUME NEW a \in Assets, docs[a].status = "active"
      PROVE  /\ docs[a].active \in 1..Len(versions'[a])
             /\ \E i \in 1..Len(queue') : /\ queue'[i].doc = a
                                          /\ queue'[i].version = docs[a].active
  <2>1. docs[a].active \in 1..Len(versions[a])
    BY <1>5 DEF KnowledgeInv, ActiveHasRow
  <2>2. PICK i \in 1..Len(queue) : queue[i].doc = a /\ queue[i].version = docs[a].active
    BY <1>5 DEF KnowledgeInv, ActiveHasRow
  <2>3. i \in 1..Len(queue')
    BY SMTT(30), <1>1 DEF Grows
  <2> QED
    BY SMTT(30), <1>2, <2>1, <2>2, <2>3 DEF Grows
<1> QED BY <1>4, <1>5

\* New rows are not completed, and no replica has handled them.
LEMMA StoredGrows ==
    ASSUME KnowledgeInv, Grows, UNCHANGED <<vectors, lost>>,
           \A i \in 1..Len(queue) : queue'[i].status = queue[i].status,
           \A i \in 1..Len(queue') : i > Len(queue) => queue'[i].status = "pending",
           \A s \in Replicas : rep'[s].done \subseteq rep[s].done
    PROVE  CompletedIsStored'
<1>1. Len(queue) \in Nat /\ Len(queue') \in Nat
  BY SMTT(30) DEF KnowledgeInv, TypeOK, Grows
<1> SUFFICES ASSUME ~lost, NEW i \in 1..Len(queue'),
                    queue'[i].status = "completed" \/ \E s \in Replicas : i \in rep'[s].done
             PROVE  BatchesOf(queue'[i].doc, queue'[i].version) \subseteq vectors
  BY DEF CompletedIsStored, BatchesOf
<1>2. i \in 1..Len(queue)
  <2>1. \A s \in Replicas : rep[s].done \subseteq 1..Len(queue)
    BY DEF KnowledgeInv, Current, CurrentIn
  <2> QED BY SMTT(30), <1>1, <2>1
<1>3. queue[i].status = "completed" \/ \E s \in Replicas : i \in rep[s].done
  BY <1>2
<1>4. BatchesOf(queue[i].doc, queue[i].version) \subseteq vectors
  BY <1>2, <1>3 DEF KnowledgeInv, CompletedIsStored
<1> QED
  BY <1>2, <1>4 DEF Grows

\* A version is added at the end.
LEMMA IngestCommitStep ==
    ASSUME KnowledgeInv, NEW r \in Replicas, IngestCommit(r)
    PROVE  KnowledgeInv'
<1> DEFINE x == rep[r]
<1>1. /\ TypeOK /\ x \in Replica /\ Current(x) /\ collection \in BOOLEAN
      /\ rep \in [Replicas -> Replica]
      /\ versions \in [Assets -> Seq(VersionStates)]
      /\ queue \in Seq(QueueRow)
  BY DEF KnowledgeInv, TypeOK, VersionStates, QueueRow
<1>2. UNCHANGED <<docs, queue, collection, vectors, lost, faults>> /\ x.pc = "commit"
  BY DEF IngestCommit, store, NoFault
<1>3. CASE Len(versions[x.doc]) >= x.number
  BY <1>1, <1>2, <1>3, DownIsCurrent, OneReplica DEF IngestCommit, Fail
<1>4. CASE ~(Len(versions[x.doc]) >= x.number)
  <2> DEFINE y == [x EXCEPT !.pc = "latest"]
  <2>1. x.doc \in Assets
    BY <1>1, <1>2 DEF Current, CurrentIn
  <2>2. /\ versions' = [versions EXCEPT ![x.doc] = Append(@, "draft")]
        /\ rep' = [rep EXCEPT ![r] = y]
    BY <1>1, <1>4 DEF IngestCommit, Goto
  <2>3. /\ versions' \in [Assets -> Seq(VersionStates)]
        /\ \A a \in Assets : Len(versions[a]) <= Len(versions'[a])
        /\ Len(versions'[x.doc]) > 0
    <3>1. /\ Append(versions[x.doc], "draft") \in Seq(VersionStates)
          /\ Len(Append(versions[x.doc], "draft")) = Len(versions[x.doc]) + 1
          /\ Len(versions[x.doc]) \in Nat
      BY SMTT(30), <1>1, <2>1 DEF VersionStates
    <3>2. \A a \in Assets : Len(versions[a]) \in Nat
      BY SMTT(30), <1>1
    <3> QED BY SMTT(30), <1>1, <2>1, <2>2, <3>1, <3>2
  <2>4. Grows
    BY SMTT(30), <1>1, <1>2, <2>3 DEF Grows
  <2>5. /\ y \in Replica /\ y.pc = "latest" /\ y.doc = x.doc
        /\ y.work = x.work /\ y.done = x.done /\ y.bad = x.bad /\ y.stale = x.stale
    BY <1>1 DEF Replica, Steps
  <2>6. CurrentIn(y, versions', queue')
    <3>1. CurrentIn(x, versions', queue')
      BY <1>1, <2>4, CurrentGrows
    <3> QED BY <2>1, <2>3, <2>5, <3>1 DEF CurrentIn
  <2>7. /\ rep' \in [Replicas -> Replica]
        /\ \A s \in Replicas : Current(rep[s])' /\ rep'[s].done \subseteq rep[s].done
    BY <2>2, <2>4, <2>5, <2>6, OneReplicaGrows
  <2>8. TypeOK'
    BY <1>1, <1>2, <2>3, <2>7 DEF TypeOK, VersionStates
  <2>9. ActiveHasRow' /\ RowHasVersion'
    BY <1>2, <2>4, RowsGrow DEF ActiveHasRow, RowHasVersion
  <2>10. CompletedIsStored'
    <3>1. \A i \in 1..Len(queue') : ~(i > Len(queue))
      BY SMTT(30), <1>1, <1>2
    <3> QED BY <1>2, <2>4, <2>7, <3>1, StoredGrows
  <2> QED
    BY <2>7, <2>8, <2>9, <2>10 DEF KnowledgeInv
<1> QED BY <1>3, <1>4

\* A published version gets its row in the same transaction.
LEMMA PublishStep ==
    ASSUME KnowledgeInv, NEW r \in Replicas, Publish(r)
    PROVE  KnowledgeInv'
<1> DEFINE x == rep[r]
           a == x.doc
           left == x.todo \ {a}
           y == [x EXCEPT !.todo = left, !.doc = NoDoc, !.number = 0, !.seen = 0,
                          !.after = "count", !.pc = IF left = {} THEN "drain" ELSE "ingest"]
           row == Row(a, x.number)
<1>1. /\ TypeOK /\ x \in Replica /\ Current(x)
      /\ rep \in [Replicas -> Replica]
      /\ docs \in [Assets -> Doc]
      /\ versions \in [Assets -> Seq(VersionStates)]
      /\ queue \in Seq(QueueRow)
  BY DEF KnowledgeInv, TypeOK, Doc, VersionStates, QueueRow
<1>2. UNCHANGED <<collection, vectors, lost, faults>> /\ x.pc = "publish"
  BY DEF Publish, store, NoFault
<1>3. a \in Assets /\ x.number \in 1..Len(versions[a]) /\ x.number \in Nat
  BY <1>1, <1>2 DEF Current, CurrentIn, Replica
<1>4. /\ versions' = [versions EXCEPT ![a] = Activated(a, x.seen, x.number)]
      /\ docs' = [docs EXCEPT ![a] = [status |-> "active", active |-> x.number]]
      /\ queue' = Append(queue, row)
      /\ rep' = [rep EXCEPT ![r] = y]
  BY <1>1 DEF Publish, Enqueued
<1>5. /\ Activated(a, x.seen, x.number) \in Seq(VersionStates)
      /\ Len(Activated(a, x.seen, x.number)) = Len(versions[a])
  <2>1. /\ versions[a] \in Seq(VersionStates) /\ DOMAIN versions[a] = 1..Len(versions[a])
        /\ Len(versions[a]) \in Nat
        /\ \A v \in 1..Len(versions[a]) : versions[a][v] \in VersionStates
    BY SMTT(30), <1>1, <1>3
  <2>2. Activated(a, x.seen, x.number) \in [1..Len(versions[a]) -> VersionStates]
    BY <2>1 DEF Activated, VersionStates
  <2> HIDE DEF a, x
  <2> QED BY SMTT(30), <2>1, <2>2
<1>6. /\ versions' \in [Assets -> Seq(VersionStates)]
      /\ \A b \in Assets : Len(versions'[b]) = Len(versions[b]) /\ Len(versions[b]) \in Nat
  BY SMTT(30), <1>1, <1>3, <1>4, <1>5
<1>7. /\ row \in QueueRow /\ row.doc = a /\ row.version = x.number /\ row.status = "pending"
      /\ queue' \in Seq(QueueRow)
      /\ Len(queue') = Len(queue) + 1 /\ Len(queue) \in Nat
      /\ \A i \in 1..Len(queue) : queue'[i] = queue[i]
      /\ queue'[Len(queue) + 1] = row
  <2>1. row \in QueueRow /\ row.doc = a /\ row.version = x.number /\ row.status = "pending"
    BY <1>3 DEF Row, QueueRow
  <2> HIDE DEF row
  <2> QED BY SMTT(30), <1>1, <1>4, <2>1
<1>8. Grows
  BY SMTT(30), <1>6, <1>7 DEF Grows
<1>9. /\ y \in Replica /\ y.pc \in {"drain", "ingest"}
      /\ y.work = x.work /\ y.done = x.done /\ y.bad = x.bad /\ y.stale = x.stale
  <2> DEFINE p == IF left = {} THEN "drain" ELSE "ingest"
  <2>1. p \in {"drain", "ingest"} /\ p \in Steps
    BY DEF Steps
  <2>2. left \in SUBSET Assets
    BY <1>1 DEF Replica
  <2>3. y = [x EXCEPT !.todo = left, !.doc = NoDoc, !.number = 0, !.seen = 0,
                      !.after = "count", !.pc = p]
    OBVIOUS
  <2> HIDE DEF p, left, x, y, a
  <2> QED
    BY <1>1, <2>1, <2>2, <2>3 DEF Replica
<1>10. CurrentIn(y, versions', queue')
  <2>1. CurrentIn(x, versions', queue')
    BY <1>1, <1>8, CurrentGrows
  <2> QED BY <1>9, <2>1 DEF CurrentIn
<1>11. /\ rep' \in [Replicas -> Replica]
       /\ \A s \in Replicas : Current(rep[s])' /\ rep'[s].done \subseteq rep[s].done
  BY <1>4, <1>8, <1>9, <1>10, OneReplicaGrows
<1>12. TypeOK'
  <2>1. docs' \in [Assets -> Doc]
    BY <1>1, <1>3, <1>4 DEF Doc
  <2> QED
    BY <1>1, <1>2, <1>6, <1>7, <1>11, <2>1 DEF TypeOK, Doc, VersionStates, QueueRow
<1>13. RowHasVersion'
  <2> SUFFICES ASSUME NEW i \in 1..Len(queue')
               PROVE  queue'[i].version \in 1..Len(versions'[queue'[i].doc])
    BY DEF RowHasVersion
  <2>1. CASE i \in 1..Len(queue)
    BY <1>8, <2>1, RowsGrow
  <2>2. CASE i = Len(queue) + 1
    BY <1>3, <1>6, <1>7, <2>2
  <2> QED BY SMTT(30), <1>7, <2>1, <2>2
<1>14. ActiveHasRow'
  <2> SUFFICES ASSUME NEW b \in Assets, docs'[b].status = "active"
               PROVE  /\ docs'[b].active \in 1..Len(versions'[b])
                      /\ \E i \in 1..Len(queue') : /\ queue'[i].doc = b
                                                   /\ queue'[i].version = docs'[b].active
    BY DEF ActiveHasRow
  <2>1. CASE b = a
    <3>1. docs'[b].active = x.number
      BY <1>1, <1>3, <1>4, <2>1
    <3>2. Len(queue) + 1 \in 1..Len(queue')
      BY SMTT(30), <1>7
    <3> QED BY <1>3, <1>6, <1>7, <2>1, <3>1, <3>2
  <2>2. CASE b # a
    <3>1. docs'[b] = docs[b]
      BY <1>1, <1>4, <2>2
    <3> QED BY <1>8, <3>1, RowsGrow
  <2> QED BY <2>1, <2>2
<1>15. CompletedIsStored'
  <2>1. \A i \in 1..Len(queue') : i > Len(queue) => queue'[i].status = "pending"
    BY SMTT(30), <1>7
  <2> QED BY <1>2, <1>7, <1>8, <1>11, <2>1, StoredGrows
<1> QED
  BY <1>11, <1>12, <1>13, <1>14, <1>15 DEF KnowledgeInv

-----------------------------------------------------------------------------
\* The row a replica works on exists, and the batches of its version are among
\* those of its document.
LEMMA RowOfWork ==
    ASSUME KnowledgeInv, NEW r \in Replicas, NEW i \in rep[r].work
    PROVE  /\ i \in 1..Len(queue) /\ i \in RowIds
           /\ BatchesOf(queue[i].doc, queue[i].version) \subseteq DocumentBatches(queue[i].doc)
<1>1. i \in 1..Len(queue)
  BY DEF KnowledgeInv, Current, CurrentIn
<1>2. queue[i].doc \in Assets /\ queue[i].version \in 1..Len(versions[queue[i].doc])
  BY <1>1, RowTypes DEF KnowledgeInv, RowHasVersion
<1>3. DOMAIN versions[queue[i].doc] = 1..Len(versions[queue[i].doc])
  BY SMTT(30), <1>2 DEF KnowledgeInv, TypeOK
<1>4. i \in RowIds
  BY SMTT(30), <1>1 DEF RowIds, KnowledgeInv, TypeOK
<1> QED
  BY <1>1, <1>2, <1>3, <1>4 DEF DocumentBatches

\* A row is counted as done only after the batches of its document, those of
\* its version among them, are in the store.
LEMMA ItemDoneStep ==
    ASSUME KnowledgeInv, NEW r \in Replicas, ItemDone(r)
    PROVE  KnowledgeInv'
<1> DEFINE x == rep[r]
<1>1. /\ TypeOK /\ x \in Replica /\ Current(x)
      /\ rep \in [Replicas -> Replica]
  BY DEF KnowledgeInv, TypeOK
<1>2. UNCHANGED <<docs, versions, queue, collection, lost, faults>> /\ collection /\ x.pc = "item"
  BY DEF ItemDone, database, NoFault
<1>3. PICK i \in x.work :
        /\ vectors' = Upserted(DocumentBatches(queue[i].doc))
        /\ rep' = [rep EXCEPT ![r].work = @ \ {i}, ![r].done = @ \cup {i}]
  BY DEF ItemDone
<1> DEFINE y == [x EXCEPT !.work = x.work \ {i}, !.done = x.done \cup {i}]
<1>4. /\ i \in 1..Len(queue) /\ i \in RowIds
      /\ BatchesOf(queue[i].doc, queue[i].version) \subseteq DocumentBatches(queue[i].doc)
  BY RowOfWork
<1>5. vectors' = vectors \cup DocumentBatches(queue[i].doc)
  BY <1>2, <1>3 DEF Upserted
<1>6. rep' = [rep EXCEPT ![r] = y]
  BY <1>1, <1>3
<1>7. /\ y \in Replica /\ y.pc = x.pc /\ y.doc = x.doc /\ y.number = x.number
      /\ y.stale = x.stale /\ y.bad = x.bad
      /\ y.work = x.work \ {i} /\ y.done = x.done \cup {i}
  BY <1>1, <1>4 DEF Replica
<1>8. Current(y)
  BY <1>1, <1>4, <1>7 DEF Current, CurrentIn
<1>9. rep' \in [Replicas -> Replica]
  BY <1>1, <1>6, <1>7
<1>10. \A s \in Replicas : Current(rep'[s]) /\ rep'[s].done \subseteq rep[s].done \cup {i}
  <2> TAKE s \in Replicas
  <2>1. CASE s = r
    BY <1>1, <1>6, <1>7, <1>8, <2>1
  <2>2. CASE s # r
    BY <1>1, <1>6, <2>2 DEF KnowledgeInv
  <2> QED BY <2>1, <2>2
<1>11. TypeOK'
  BY <1>1, <1>2, <1>9 DEF TypeOK
<1>12. ActiveHasRow' /\ RowHasVersion'
  BY <1>2 DEF KnowledgeInv, ActiveHasRow, RowHasVersion
<1>13. \A s \in Replicas : Current(rep[s])'
  BY <1>2, <1>10 DEF Current, CurrentIn
<1>14. CompletedIsStored'
  <2> SUFFICES ASSUME ~lost, NEW j \in 1..Len(queue),
                      queue[j].status = "completed" \/ \E s \in Replicas : j \in rep'[s].done
               PROVE  BatchesOf(queue[j].doc, queue[j].version) \subseteq vectors'
    BY SMTT(30), <1>2 DEF CompletedIsStored, BatchesOf
  <2>1. CASE j = i
    BY <1>4, <1>5, <2>1
  <2>2. CASE j # i
    <3>1. queue[j].status = "completed" \/ \E s \in Replicas : j \in rep[s].done
      BY <1>10, <2>2
    <3>2. BatchesOf(queue[j].doc, queue[j].version) \subseteq vectors
      BY <3>1 DEF KnowledgeInv, CompletedIsStored
    <3> QED BY <1>5, <3>2
  <2> QED BY <2>1, <2>2
<1> QED
  BY <1>11, <1>12, <1>13, <1>14 DEF KnowledgeInv

\* What a fault leaves of the bound on them.
LEMMA FaultBound ==
    ASSUME KnowledgeInv, Fault \/ NoFault
    PROVE  faults' \in 0..MaxFaults
  BY SMTT(30), KnowledgeBounds DEF KnowledgeInv, TypeOK, Fault, NoFault

\* A failure may leave some batches behind, and claims nothing.
LEMMA ItemFailsStep ==
    ASSUME KnowledgeInv, NEW r \in Replicas, ItemFails(r)
    PROVE  KnowledgeInv'
<1> DEFINE x == rep[r]
<1>1. /\ TypeOK /\ x \in Replica /\ Current(x) /\ collection \in BOOLEAN /\ lost \in BOOLEAN
      /\ rep \in [Replicas -> Replica]
  BY DEF KnowledgeInv, TypeOK
<1>2. UNCHANGED <<docs, versions, queue, collection, lost>> /\ x.pc = "item"
  BY DEF ItemFails, database
<1>3. PICK i \in x.work :
        /\ \E n \in 0..(Batches(queue[i].doc) - 1) :
              vectors' = Upserted({p \in DocumentBatches(queue[i].doc) : p[3] <= n})
        /\ LET reps == [rep EXCEPT ![r].work = @ \ {i}, ![r].bad = @ \cup {i}]
           IN  IF collection THEN Fault /\ rep' = Unclean(reps) ELSE NoFault /\ rep' = reps
  BY DEF ItemFails
<1> DEFINE y == [x EXCEPT !.work = x.work \ {i}, !.bad = x.bad \cup {i}]
           reps == [rep EXCEPT ![r] = y]
<1>4. i \in 1..Len(queue) /\ i \in RowIds
  BY RowOfWork
<1>5. vectors \subseteq vectors'
  BY <1>3 DEF Upserted
<1>6. reps = [rep EXCEPT ![r].work = @ \ {i}, ![r].bad = @ \cup {i}]
  BY <1>1
<1>7. /\ y \in Replica /\ y.pc = x.pc /\ y.doc = x.doc /\ y.number = x.number
      /\ y.stale = x.stale /\ y.done = x.done
      /\ y.work = x.work \ {i} /\ y.bad = x.bad \cup {i}
  BY <1>1, <1>4 DEF Replica
<1>8. Current(y)
  BY <1>1, <1>4, <1>7 DEF Current, CurrentIn
<1>9. /\ reps \in [Replicas -> Replica]
      /\ \A s \in Replicas : Current(reps[s]) /\ reps[s].done = rep[s].done
  <2>1. reps \in [Replicas -> Replica]
    BY <1>1, <1>7
  <2>2. ASSUME NEW s \in Replicas PROVE Current(reps[s]) /\ reps[s].done = rep[s].done
    <3>1. CASE s = r
      BY <1>1, <1>7, <1>8, <3>1
    <3>2. CASE s # r
      BY <1>1, <3>2 DEF KnowledgeInv
    <3> QED BY <3>1, <3>2
  <2> QED BY <2>1, <2>2
<1>10. (rep' = reps \/ rep' = Unclean(reps)) /\ (Fault \/ NoFault)
  BY <1>3, <1>6
<1> HIDE DEF reps
<1>11. /\ rep' \in [Replicas -> Replica]
       /\ \A s \in Replicas : Current(rep'[s]) /\ rep'[s].done \subseteq rep[s].done
  BY <1>9, <1>10, UncleanKeeps
<1>12. faults' \in 0..MaxFaults
  BY <1>10, FaultBound
<1> QED
  BY <1>1, <1>2, <1>5, <1>11, <1>12, ReplicasOnly

\* What follows the queue: the rows handled so far are forgotten, or kept.
LEMMA AfterDrain ==
    ASSUME KnowledgeInv, NEW r \in Replicas, rep[r].pc = "item"
    PROVE  /\ [Drained(r) EXCEPT !.bad = {}] \in Replica
           /\ Current([Drained(r) EXCEPT !.bad = {}])
           /\ [Drained(r) EXCEPT !.bad = {}].done \subseteq rep[r].done
<1> DEFINE x == rep[r]
           z == Drained(r)
           y == [z EXCEPT !.bad = {}]
<1>1. x \in Replica /\ Current(x)
  BY DEF KnowledgeInv, TypeOK
<1>2. z \in Replica /\ Current(z) /\ z.done \subseteq x.done
  <2>1. CASE x.after = "up"
    BY <2>1, UpIsCurrent DEF Drained
  <2>2. CASE x.after # "up"
    <3> DEFINE w == [x EXCEPT !.pc = "count"]
    <3>1. /\ w \in Replica /\ w.pc = "count" /\ w.stale = x.stale
          /\ w.work = x.work /\ w.done = x.done /\ w.bad = x.bad
      BY <1>1 DEF Replica, Steps
    <3>2. Current(w)
      BY <1>1, <3>1 DEF Current, CurrentIn
    <3>3. z = w
      BY <2>2 DEF Drained
    <3> QED BY <3>1, <3>2, <3>3
  <2> QED BY <2>1, <2>2
<1> HIDE DEF z
<1>3. /\ y \in Replica /\ y.pc = z.pc /\ y.doc = z.doc /\ y.number = z.number
      /\ y.stale = z.stale /\ y.work = z.work /\ y.done = z.done /\ y.bad = {}
  BY <1>2 DEF Replica
<1>4. Current(y)
  BY <1>2, <1>3 DEF Current, CurrentIn
<1> QED BY <1>2, <1>3, <1>4 DEF z

\* The commit marks as completed exactly the rows whose batches were stored.
LEMMA DrainCommitStep ==
    ASSUME KnowledgeInv, NEW r \in Replicas, DrainCommit(r)
    PROVE  KnowledgeInv'
<1> DEFINE x == rep[r]
           y == IF x.done = {} THEN [Drained(r) EXCEPT !.bad = {}]
                ELSE [x EXCEPT !.pc = "drain", !.done = {}, !.bad = {}]
<1>1. /\ TypeOK /\ x \in Replica /\ Current(x)
      /\ rep \in [Replicas -> Replica]
      /\ queue \in Seq(QueueRow) /\ versions \in [Assets -> Seq(VersionStates)]
  BY DEF KnowledgeInv, TypeOK, QueueRow, VersionStates
<1>2. UNCHANGED <<docs, versions, collection, vectors, lost, faults>> /\ x.pc = "item"
  BY DEF DrainCommit, store, NoFault
<1>3. /\ queue' = [i \in DOMAIN queue |->
                      [queue[i] EXCEPT !.status = Marked(i, queue[i].status, x.done, x.bad)]]
      /\ rep' = [rep EXCEPT ![r] = y]
  BY DEF DrainCommit
<1>4. DOMAIN queue = 1..Len(queue) /\ Len(queue) \in Nat
      /\ \A i \in 1..Len(queue) : queue[i] \in QueueRow
  BY SMTT(30), <1>1
<1>5. ASSUME NEW i \in 1..Len(queue)
      PROVE  /\ queue'[i] \in QueueRow
             /\ queue'[i].doc = queue[i].doc /\ queue'[i].version = queue[i].version
             /\ queue'[i].status = "completed" => queue[i].status = "completed" \/ i \in x.done
  <2>1. queue'[i] = [queue[i] EXCEPT !.status = Marked(i, queue[i].status, x.done, x.bad)]
    BY <1>3, <1>4
  <2>2. Marked(i, queue[i].status, x.done, x.bad) \in {"pending", "completed", "failed"}
    BY <1>4 DEF Marked, QueueRow
  <2>3. Marked(i, queue[i].status, x.done, x.bad) = "completed"
        => queue[i].status = "completed" \/ i \in x.done
    BY DEF Marked
  <2> QED BY <1>4, <2>1, <2>2, <2>3 DEF QueueRow
<1>6. queue' \in Seq(QueueRow) /\ Len(queue') = Len(queue)
  <2>1. queue' \in [1..Len(queue) -> QueueRow]
    BY <1>3, <1>4, <1>5
  <2> QED BY SMTT(30), <1>4, <2>1
<1>7. Grows
  <2>1. \A a \in Assets : Len(versions[a]) \in Nat
    BY SMTT(30), <1>1
  <2>2. versions' = versions
    BY <1>2
  <2>3. \A a \in Assets : Len(versions[a]) <= Len(versions'[a])
    BY SMTT(30), <2>1, <2>2
  <2>4. \A i \in 1..Len(queue) : /\ queue'[i].doc = queue[i].doc
                                 /\ queue'[i].version = queue[i].version
    BY <1>5
  <2> QED BY SMTT(30), <1>1, <1>4, <1>6, <2>2, <2>3, <2>4 DEF Grows
<1>8. y \in Replica /\ Current(y) /\ y.done \subseteq x.done
  <2>1. CASE x.done = {}
    BY <1>2, <2>1, AfterDrain
  <2>2. CASE x.done # {}
    <3> DEFINE w == [x EXCEPT !.pc = "drain", !.done = {}, !.bad = {}]
    <3>1. /\ w \in Replica /\ w.pc = "drain" /\ w.stale = x.stale
          /\ w.work = x.work /\ w.done = {} /\ w.bad = {}
      BY <1>1 DEF Replica, Steps
    <3>2. Current(w)
      BY <1>1, <3>1 DEF Current, CurrentIn
    <3>3. y = w
      BY <2>2
    <3> QED BY <3>1, <3>2, <3>3
  <2> QED BY <2>1, <2>2
<1> HIDE DEF y
<1>9. CurrentIn(y, versions', queue')
  BY <1>1, <1>7, <1>8, CurrentGrows
<1>10. /\ rep' \in [Replicas -> Replica]
       /\ \A s \in Replicas : Current(rep[s])' /\ rep'[s].done \subseteq rep[s].done
  BY <1>3, <1>7, <1>8, <1>9, OneReplicaGrows
<1>11. TypeOK'
  BY <1>1, <1>2, <1>6, <1>10 DEF TypeOK, QueueRow
<1>12. ActiveHasRow' /\ RowHasVersion'
  BY <1>2, <1>6, <1>7, RowsGrow DEF ActiveHasRow, RowHasVersion
<1>13. CompletedIsStored'
  <2> SUFFICES ASSUME ~lost, NEW i \in 1..Len(queue),
                      queue'[i].status = "completed" \/ \E s \in Replicas : i \in rep'[s].done
               PROVE  BatchesOf(queue'[i].doc, queue'[i].version) \subseteq vectors
    BY <1>2, <1>6 DEF CompletedIsStored, BatchesOf
  <2>1. queue[i].status = "completed" \/ \E s \in Replicas : i \in rep[s].done
    BY <1>5, <1>10
  <2>2. BatchesOf(queue[i].doc, queue[i].version) \subseteq vectors
    BY <2>1 DEF KnowledgeInv, CompletedIsStored
  <2> QED BY <1>5, <2>2
<1> QED
  BY <1>10, <1>11, <1>12, <1>13 DEF KnowledgeInv

-----------------------------------------------------------------------------
\* The count, and what a fault does: the database is left alone.
LEMMA CountReadStep ==
    ASSUME KnowledgeInv, NEW r \in Replicas, CountRead(r)
    PROVE  KnowledgeInv'
<1> DEFINE x == rep[r]
           y == [x EXCEPT !.pc = "compare"]
<1>1. /\ x \in Replica /\ Current(x) /\ collection \in BOOLEAN /\ lost \in BOOLEAN
      /\ rep \in [Replicas -> Replica]
  BY DEF KnowledgeInv, TypeOK
<1>2. UNCHANGED <<docs, versions, queue, collection, vectors, lost>>
  BY DEF CountRead, database, store
<1>3. /\ y \in Replica /\ y.pc = "compare" /\ y.stale = x.stale
      /\ y.work = x.work /\ y.done = x.done /\ y.bad = x.bad
  BY <1>1 DEF Replica, Steps
<1>4. Current(y)
  BY <1>1, <1>3 DEF Current, CurrentIn
<1>5. \/ NoFault /\ rep' = [rep EXCEPT ![r] = y]
      \/ NoFault /\ rep' = [rep EXCEPT ![r] = Up(r)]
      \/ Fault /\ rep' = Unclean([rep EXCEPT ![r] = Up(r)])
  BY <1>1 DEF CountRead, Goto
<1>6. CASE NoFault /\ rep' = [rep EXCEPT ![r] = y]
  <2> HIDE DEF y
  <2> QED BY <1>1, <1>2, <1>3, <1>4, <1>6, OneReplica DEF NoFault
<1>7. CASE NoFault /\ rep' = [rep EXCEPT ![r] = Up(r)]
  BY <1>1, <1>2, <1>7, UpIsCurrent, OneReplica DEF NoFault
<1>8. CASE Fault /\ rep' = Unclean([rep EXCEPT ![r] = Up(r)])
  <2> DEFINE reps == [rep EXCEPT ![r] = Up(r)]
  <2>1. Up(r) \in Replica /\ Current(Up(r)) /\ Up(r).done \subseteq x.done
    BY UpIsCurrent
  <2>2. /\ reps \in [Replicas -> Replica]
        /\ \A s \in Replicas : Current(reps[s]) /\ reps[s].done \subseteq rep[s].done
    BY <1>1, <2>1 DEF KnowledgeInv
  <2> HIDE DEF reps
  <2>3. /\ rep' \in [Replicas -> Replica]
        /\ \A s \in Replicas : Current(rep'[s]) /\ rep'[s].done \subseteq rep[s].done
    BY <1>8, <2>2, UncleanKeeps DEF reps
  <2>4. faults' \in 0..MaxFaults
    BY <1>8, FaultBound
  <2> QED BY <1>1, <1>2, <2>3, <2>4, ReplicasOnly
<1> QED BY <1>5, <1>6, <1>7, <1>8

\* A crash rolls the open transaction back: its rows are no longer claimed.
LEMMA CrashStep ==
    ASSUME KnowledgeInv, NEW r \in Replicas, Crash(r)
    PROVE  KnowledgeInv'
<1> DEFINE reps == [rep EXCEPT ![r] = Down]
<1>1. collection \in BOOLEAN /\ lost \in BOOLEAN /\ rep \in [Replicas -> Replica]
  BY DEF KnowledgeInv, TypeOK
<1>2. UNCHANGED <<docs, versions, queue, collection, vectors, lost>> /\ Fault
      /\ rep' = Unclean(reps)
  BY DEF Crash, database, store
<1>3. /\ reps \in [Replicas -> Replica]
      /\ \A s \in Replicas : Current(reps[s]) /\ reps[s].done \subseteq rep[s].done
  BY <1>1, DownIsCurrent DEF KnowledgeInv
<1> HIDE DEF reps
<1>4. /\ rep' \in [Replicas -> Replica]
      /\ \A s \in Replicas : Current(rep'[s]) /\ rep'[s].done \subseteq rep[s].done
  BY <1>2, <1>3, UncleanKeeps
<1>5. faults' \in 0..MaxFaults
  BY <1>2, FaultBound
<1> QED BY <1>1, <1>2, <1>4, <1>5, ReplicasOnly

LEMMA VolumeLossStep ==
    ASSUME KnowledgeInv, VolumeLoss
    PROVE  KnowledgeInv'
<1>1. rep \in [Replicas -> Replica] /\ \A s \in Replicas : Current(rep[s])
  BY DEF KnowledgeInv, TypeOK
<1>2. UNCHANGED <<docs, versions, queue>> /\ Fault /\ rep' = Unclean(rep) /\ ~collection' /\ lost'
      /\ collection' \in BOOLEAN /\ lost' \in BOOLEAN
  BY DEF VolumeLoss, database
<1>3. /\ rep' \in [Replicas -> Replica]
      /\ \A s \in Replicas : Current(rep'[s]) /\ rep'[s].done \subseteq rep[s].done
  BY <1>1, <1>2, UncleanKeeps
<1>4. faults' \in 0..MaxFaults
  BY <1>2, FaultBound
<1> QED BY <1>2, <1>3, <1>4, ReplicasOnly

\* The rows _reconcile_vectorstore adds are for the versions it read before,
\* which still exist.
LEMMA EnqueueStep ==
    ASSUME KnowledgeInv, NEW r \in Replicas, Enqueue(r)
    PROVE  KnowledgeInv'
<1> DEFINE x == rep[r]
           y == [x EXCEPT !.stale = {}, !.after = "up", !.pc = "drain"]
<1>1. /\ TypeOK /\ x \in Replica /\ Current(x)
      /\ rep \in [Replicas -> Replica]
      /\ queue \in Seq(QueueRow) /\ versions \in [Assets -> Seq(VersionStates)]
  BY DEF KnowledgeInv, TypeOK, QueueRow, VersionStates
<1>2. UNCHANGED <<docs, versions, collection, vectors, lost, faults>> /\ x.pc = "enqueue"
  BY DEF Enqueue, store, NoFault
<1>0. PICK n \in 0..Cardinality(Assets) :
        \E order \in [1..n -> {d \in x.stale : ~HasPending(d[1])}] :
          /\ queue' = queue \o [k \in 1..n |-> Row(order[k][1], order[k][2])]
          /\ rep' = [rep EXCEPT ![r] = IF n = 0 THEN Up(r) ELSE y]
  BY DEF Enqueue
<1>3. PICK order \in [1..n -> {d \in x.stale : ~HasPending(d[1])}] :
        /\ queue' = queue \o [k \in 1..n |-> Row(order[k][1], order[k][2])]
        /\ rep' = [rep EXCEPT ![r] = IF n = 0 THEN Up(r) ELSE y]
  BY <1>0
<1> DEFINE rows == [k \in 1..n |-> Row(order[k][1], order[k][2])]
<1>4. n \in Nat
  BY SMTT(30)
<1>5. \A k \in 1..n : /\ rows[k] \in QueueRow /\ rows[k].status = "pending"
                      /\ rows[k].version \in 1..Len(versions[rows[k].doc])
  <2> TAKE k \in 1..n
  <2>1. order[k] \in x.stale
    OBVIOUS
  <2>2. order[k][1] \in Assets /\ order[k][2] \in Nat
    BY <1>1, <2>1 DEF Replica
  <2>3. order[k][2] \in 1..Len(versions[order[k][1]])
    BY <1>1, <2>1 DEF Current, CurrentIn
  <2> QED BY <2>2, <2>3 DEF Row, QueueRow
<1>6. rows \in Seq(QueueRow) /\ Len(rows) = n
  <2>1. rows \in [1..n -> QueueRow]
    BY <1>5
  <2> QED BY SMTT(30), <1>4, <2>1
<1> HIDE DEF rows
<1>7. /\ queue' \in Seq(QueueRow)
      /\ Len(queue') = Len(queue) + n /\ Len(queue) \in Nat
      /\ \A i \in 1..Len(queue) : queue'[i] = queue[i]
      /\ \A i \in 1..Len(queue') : i > Len(queue) => i - Len(queue) \in 1..n /\ queue'[i] = rows[i - Len(queue)]
  <2>1. queue' = queue \o rows
    BY <1>3 DEF rows
  <2>2. /\ queue' \in Seq(QueueRow) /\ Len(queue') = Len(queue) + n /\ Len(queue) \in Nat
        /\ \A i \in 1..Len(queue) + n :
              queue'[i] = IF i <= Len(queue) THEN queue[i] ELSE rows[i - Len(queue)]
    <3>1. Len(queue) \in Nat
      BY SMTT(30), <1>1
    <3>2. /\ queue \o rows \in Seq(QueueRow)
          /\ Len(queue \o rows) = Len(queue) + Len(rows)
          /\ \A i \in 1..Len(queue) + Len(rows) :
                (queue \o rows)[i] = IF i <= Len(queue) THEN queue[i] ELSE rows[i - Len(queue)]
      BY <1>1, <1>6, ConcatProperties
    <3> QED BY <1>6, <2>1, <3>1, <3>2
  <2>3. \A i \in 1..Len(queue) : queue'[i] = queue[i]
    BY SMTT(30), <1>4, <2>2
  <2>4. \A i \in 1..Len(queue') : i > Len(queue) => i - Len(queue) \in 1..n /\ queue'[i] = rows[i - Len(queue)]
    BY SMTT(30), <1>4, <2>2
  <2> QED BY <2>2, <2>3, <2>4
<1>8. \A a \in Assets : Len(versions[a]) \in Nat /\ versions'[a] = versions[a]
  BY SMTT(30), <1>1, <1>2
<1>9. Grows
  BY SMTT(30), <1>1, <1>2, <1>4, <1>7, <1>8 DEF Grows
<1>10. \E z \in Replica : /\ Current(z) /\ z.done \subseteq x.done
                          /\ rep' = [rep EXCEPT ![r] = z]
  <2>1. CASE n = 0
    BY <1>3, <2>1, UpIsCurrent
  <2>2. CASE n # 0
    <3>1. /\ y \in Replica /\ y.pc = "drain" /\ y.stale = {}
          /\ y.work = x.work /\ y.done = x.done /\ y.bad = x.bad
      BY <1>1 DEF Replica, Steps
    <3>2. Current(y)
      BY <1>1, <3>1 DEF Current, CurrentIn
    <3>3. rep' = [rep EXCEPT ![r] = y]
      BY <1>3, <2>2
    <3> HIDE DEF y
    <3> QED BY <3>1, <3>2, <3>3
  <2> QED BY <2>1, <2>2
<1>11. /\ rep' \in [Replicas -> Replica]
       /\ \A s \in Replicas : Current(rep[s])' /\ rep'[s].done \subseteq rep[s].done
  <2>1. PICK z \in Replica : Current(z) /\ z.done \subseteq x.done /\ rep' = [rep EXCEPT ![r] = z]
    BY <1>10
  <2>2. CurrentIn(z, versions', queue')
    BY <1>1, <1>9, <2>1, CurrentGrows
  <2> QED BY <1>9, <2>1, <2>2, OneReplicaGrows
<1>12. TypeOK'
  BY <1>1, <1>2, <1>7, <1>11 DEF TypeOK, QueueRow
<1>13. ActiveHasRow'
  BY <1>2, <1>9, RowsGrow DEF ActiveHasRow
<1>14. RowHasVersion'
  <2> SUFFICES ASSUME NEW i \in 1..Len(queue')
               PROVE  queue'[i].version \in 1..Len(versions'[queue'[i].doc])
    BY DEF RowHasVersion
  <2>1. CASE i \in 1..Len(queue)
    BY <1>9, <2>1, RowsGrow
  <2>2. CASE i > Len(queue)
    BY <1>2, <1>5, <1>7, <2>2
  <2>3. Len(queue) \in Nat /\ i \in Nat /\ i >= 1
    BY SMTT(30), <1>7
  <2>4. i \in 1..Len(queue) \/ i > Len(queue)
    BY SMTT(30), <2>3
  <2> QED
    BY <2>1, <2>2, <2>4
<1>15. CompletedIsStored'
  <2>1. \A i \in 1..Len(queue') : i > Len(queue) => queue'[i].status = "pending"
    BY <1>5, <1>7
  <2> QED BY <1>2, <1>7, <1>9, <1>11, <2>1, StoredGrows
<1> QED
  BY <1>11, <1>12, <1>13, <1>14, <1>15 DEF KnowledgeInv

-----------------------------------------------------------------------------
\* Every step of every replica, every crash and every loss keeps the invariant.
LEMMA InvStep == KnowledgeInv /\ [Next]_vars => KnowledgeInv'
<1> SUFFICES ASSUME KnowledgeInv, [Next]_vars PROVE KnowledgeInv'
  OBVIOUS
<1>1. CASE VolumeLoss
  BY <1>1, VolumeLossStep
<1>2. ASSUME NEW r \in Replicas, Step(r) PROVE KnowledgeInv'
  BY <1>2, ReadSteps, SeedCommitStep, IngestCommitStep, PublishStep, ItemDoneStep,
     ItemFailsStep, DrainCommitStep, CountReadStep, EnqueueStep DEF Step
<1>3. ASSUME NEW r \in Replicas, Crash(r) PROVE KnowledgeInv'
  BY <1>3, CrashStep
<1>4. CASE UNCHANGED vars
  <2>1. UNCHANGED <<docs, versions, queue, collection, vectors, lost, rep, faults>>
    BY <1>4 DEF vars, database, store
  <2>2. /\ collection \in BOOLEAN /\ lost \in BOOLEAN /\ faults \in 0..MaxFaults
        /\ rep \in [Replicas -> Replica] /\ \A s \in Replicas : Current(rep[s])
    BY DEF KnowledgeInv, TypeOK
  <2> QED BY <2>1, <2>2, ReplicasOnly
<1> QED BY <1>1, <1>2, <1>3, <1>4 DEF Next

\* The types of the database, the store and the replicas, for any number of
\* replicas, documents, batches and faults.
THEOREM KnowledgeTypes == Spec => []TypeOK
<1>1. KnowledgeInv => TypeOK
  BY DEF KnowledgeInv
<1> QED BY <1>1, InvInit, InvStep, PTL DEF Spec

\* For any number of replicas that start, crash, publish and drain at the same
\* time: while no volume is lost, an active document is in the store or some
\* row still owes it (activate_version, process_pending, _reconcile_vectorstore).
THEOREM NothingForgotten == Spec => []IndexedOrOwed
  BY InvInit, InvStep, InvImplies, PTL DEF Spec
=============================================================================
