---------------------------- MODULE RagKnowledge ----------------------------
(***************************************************************************)
(* The knowledge base over its life: engine replicas start, seed the       *)
(* registry, ingest the files of their image, publish versions, drain the  *)
(* re-embed queue into the vector store and reconcile it with the database *)
(* (rag/services/bootstrap.py, reembed.py, versioning.py,                  *)
(* ingest/pipeline.py).  Every database transaction is one action, cut     *)
(* where the code reads before it writes: two replicas start at the same   *)
(* time and the transactions run at READ COMMITTED.  Replicas crash at any *)
(* step, the embedder or the vector store fail, the store's volume is      *)
(* lost.  What ingesting makes of a file is RagChunks; here a file is the  *)
(* number of its chunks, or refused.                                       *)
(***************************************************************************)
EXTENDS Integers, Sequences, FiniteSets

CONSTANTS Assets,      \* document types in KNOWLEDGE_REGISTRY
          Place,       \* their places in the registry
          Replicas,
          Chunks,      \* asset -> number of chunks its file gives
          Refused,     \* assets whose file the validators refuse
          UpsertBatch, \* chunks per call of the vector store
          NoDoc,
          MaxFaults    \* bound on crashes, failures and losses

ASSUME KnowledgeBounds ==
    /\ IsFiniteSet(Assets)
    /\ Place \in [Assets -> Nat]
    /\ \A a, b \in Assets : Place[a] = Place[b] => a = b
    /\ Chunks \in [Assets -> Nat \ {0}]
    /\ Refused \subseteq Assets
    /\ UpsertBatch \in Nat \ {0}
    /\ MaxFaults \in Nat
    /\ NoDoc \notin Assets

VARIABLES docs,       \* rag_documents, by document type
          versions,   \* rag_document_versions with their chunks, by number
          queue,      \* rag_reembed_queue, in order of creation
          collection, \* the documents collection exists
          vectors,    \* what it holds: <<asset, version, batch>>
          lost,       \* the store's volume was lost at some time
          rep,        \* the replicas
          counted,    \* the vectors a replica counted
          faults

database == <<docs, versions, queue>>
store == <<collection, vectors, lost>>
vars == <<database, store, rep, counted, faults>>

Down == [pc |-> "down", clean |-> FALSE, todo |-> {}, doc |-> NoDoc, number |-> 0, seen |-> 0,
         stale |-> {}, work |-> {}, done |-> {}, bad |-> {}, after |-> "count"]

-----------------------------------------------------------------------------
(* Rows and vectors *)

Batches(a) == (Chunks[a] + UpsertBatch - 1) \div UpsertBatch

\* The batches of one version, and of every version of a document:
\* _process_item embeds what get_by_document returns.
BatchesOf(a, v) == {<<a, v, b>> : b \in 1..Batches(a)}

DocumentBatches(a) == UNION {BatchesOf(a, v) : v \in DOMAIN versions[a]}

\* The chunks of a set of batches; the last batch of a file may be short.
ChunksIn(batches) ==
    {c \in batches \X (1..UpsertBatch) :
        (c[1][3] - 1) * UpsertBatch + c[2] <= Chunks[c[1][1]]}

ActiveDocs == {a \in Assets : docs[a].status = "active"}

VectorCount == Cardinality(ChunksIn(vectors))

ChunkCount == Cardinality(ChunksIn(UNION {DocumentBatches(a) : a \in ActiveDocs}))

Row(a, v) == [doc |-> a, version |-> v, status |-> "pending"]

\* get_pending; no code sets 'retrying', and a row that failed, the only one
\* with a retry count, is no longer pending.
PendingRows == {i \in DOMAIN queue : queue[i].status = "pending"}

-----------------------------------------------------------------------------
Init ==
    /\ docs = [a \in Assets |-> [status |-> "absent", active |-> 0]]
    /\ versions = [a \in Assets |-> <<>>]
    /\ queue = <<>>
    /\ collection = FALSE /\ vectors = {} /\ lost = FALSE
    /\ rep = [r \in Replicas |-> Down]
    /\ counted = [r \in Replicas |-> 0]
    /\ faults = 0

Goto(r, pc) == rep' = [rep EXCEPT ![r].pc = pc]

\* An exception that leaves bootstrap() ends the process; it is started again.
Fail(r) == rep' = [rep EXCEPT ![r] = Down]

\* bootstrap() is done: nothing of it is used again.
Up(r) == [Down EXCEPT !.pc = "up", !.clean = rep[r].clean]

Fault == faults < MaxFaults /\ faults' = faults + 1

NoFault == UNCHANGED faults

\* Every boot in progress, or finished, has met a fault.
Unclean(reps) == [r \in Replicas |-> [reps[r] EXCEPT !.clean = FALSE]]

-----------------------------------------------------------------------------
(* bootstrap(): collections, seed, drafts *)

\* get_or_create_collection.
CreateCollection == collection' = TRUE /\ UNCHANGED <<vectors, lost>>

\* bootstrap_collections creates what does not exist.
Start(r) ==
    /\ rep[r].pc = "down"
    /\ rep' = [rep EXCEPT ![r] = [Down EXCEPT !.pc = "seed", !.clean = TRUE]]
    /\ CreateCollection
    /\ UNCHANGED <<database, counted>> /\ NoFault

\* seed_knowledge_assets asks for every type, and inserts the missing ones.
SeedRead(r) ==
    /\ rep[r].pc = "seed"
    /\ rep' = [rep EXCEPT ![r].todo = {a \in Assets : docs[a].status = "absent"},
                          ![r].pc = "insert"]
    /\ UNCHANGED <<database, store, counted>> /\ NoFault

\* source_path is unique: rows inserted meanwhile make the insert fail.
SeedCommit(r) ==
    /\ rep[r].pc = "insert"
    /\ IF \E a \in rep[r].todo : docs[a].status # "absent"
       THEN Fail(r) /\ UNCHANGED docs
       ELSE /\ docs' = [a \in Assets |-> IF a \in rep[r].todo
                            THEN [status |-> "draft", active |-> 0] ELSE docs[a]]
            /\ LET drafts == {a \in Assets : docs'[a].status = "draft"}
               IN  rep' = [rep EXCEPT ![r].todo = drafts,
                                      ![r].pc = IF drafts = {} THEN "count" ELSE "ingest"]
    /\ UNCHANGED <<versions, queue, store, counted>> /\ NoFault

-----------------------------------------------------------------------------
(* IngestPipeline.ingest of one draft *)

\* Drafts come in the order they were inserted, that of the registry.  The
\* file is loaded, chunked and validated; get_by_checksum ends the ingest
\* when a version with this content exists.
IngestCheck(r) ==
    /\ rep[r].pc = "ingest"
    /\ \E a \in rep[r].todo :
        /\ \A b \in rep[r].todo : Place[a] <= Place[b]
        /\ IF a \in Refused THEN Fail(r)
           ELSE rep' = [rep EXCEPT ![r].doc = a,
                                   ![r].pc = IF versions[a] # <<>> THEN "latest" ELSE "number"]
    /\ UNCHANGED <<database, store, counted>> /\ NoFault

\* _create_version reads the latest number.
IngestNumber(r) ==
    /\ rep[r].pc = "number"
    /\ rep' = [rep EXCEPT ![r].number = Len(versions[rep[r].doc]) + 1, ![r].pc = "commit"]
    /\ UNCHANGED <<database, store, counted>> /\ NoFault

\* Version, job and chunks are committed together; (document, number) is unique.
IngestCommit(r) ==
    /\ rep[r].pc = "commit"
    /\ IF Len(versions[rep[r].doc]) >= rep[r].number
       THEN Fail(r) /\ UNCHANGED versions
       ELSE /\ versions' = [versions EXCEPT ![rep[r].doc] = Append(@, "draft")]
            /\ Goto(r, "latest")
    /\ UNCHANGED <<docs, queue, store, counted>> /\ NoFault

\* bootstrap() activates the latest version there is, in its own transaction.
Latest(r) ==
    /\ rep[r].pc = "latest"
    /\ rep' = [rep EXCEPT ![r].number = Len(versions[rep[r].doc]), ![r].pc = "active"]
    /\ UNCHANGED <<database, store, counted>> /\ NoFault

ActiveVersions(a) == {v \in DOMAIN versions[a] : versions[a][v] = "active"}

\* activate_version: get_active returns one of the active versions, or none.
ActiveRead(r) ==
    /\ rep[r].pc = "active"
    /\ \E v \in IF ActiveVersions(rep[r].doc) = {} THEN {0} ELSE ActiveVersions(rep[r].doc) :
            rep' = [rep EXCEPT ![r].seen = v, ![r].pc = "publish"]
    /\ UNCHANGED <<database, store, counted>> /\ NoFault

\* supersede the active version, when it is another one, then activate.
Activated(a, seen, new) ==
    [v \in DOMAIN versions[a] |->
        CASE v = new -> "active"
          [] v = seen /\ v # new -> "superseded"
          [] OTHER -> versions[a][v]]

\* Only a document that has no row yet is queued.
EnqueuedOnce(a, v) ==
    IF \E i \in DOMAIN queue : queue[i].doc = a THEN queue ELSE Append(queue, Row(a, v))

\* enqueue
Enqueued(a, v) == Append(queue, Row(a, v))

\* The rest of activate_version; the next draft, or the queue.
Publish(r) ==
    /\ rep[r].pc = "publish"
    /\ LET a == rep[r].doc
           left == rep[r].todo \ {a}
       IN  /\ versions' = [versions EXCEPT ![a] = Activated(a, rep[r].seen, rep[r].number)]
           /\ docs' = [docs EXCEPT ![a] = [status |-> "active", active |-> rep[r].number]]
           /\ queue' = Enqueued(a, rep[r].number)
           /\ rep' = [rep EXCEPT ![r].todo = left, ![r].doc = NoDoc, ![r].number = 0,
                                 ![r].seen = 0, ![r].after = "count",
                                 ![r].pc = IF left = {} THEN "drain" ELSE "ingest"]
    /\ UNCHANGED <<store, counted>> /\ NoFault

-----------------------------------------------------------------------------
(* _drain_reembed_queue: process_pending until it processes nothing.  Its  *)
(* transaction holds the rows it has marked until it commits.              *)

\* What comes after the queue: the reconciliation, or the end of it.
Drained(r) == IF rep[r].after = "up" THEN Up(r) ELSE [rep[r] EXCEPT !.pc = "count"]

DrainRead(r) ==
    /\ rep[r].pc = "drain"
    /\ rep' = [rep EXCEPT ![r] =
                IF PendingRows = {} THEN Drained(r)
                ELSE [rep[r] EXCEPT !.pc = "item", !.work = PendingRows]]
    /\ UNCHANGED <<database, store, counted>> /\ NoFault

\* A row that another replica has only read is waited for too.
RowUnclaimed(r, i) ==
    \A s \in Replicas \ {r} : i \notin rep[s].work \cup rep[s].done \cup rep[s].bad

\* mark_processing waits for a row that another transaction has updated.
RowFree(r, i) == \A s \in Replicas \ {r} : i \notin rep[s].done \cup rep[s].bad

\* The rows are taken in the order they were created.
NextRow(r, i) == i \in rep[r].work /\ \A j \in rep[r].work : i <= j

\* A call of the store; without a collection it fails.
Upserted(batches) == IF collection THEN vectors \cup batches ELSE vectors

\* _process_item: embed_chunks, then the vectors are written batch by batch.
\* Nothing reads the embedding_status that embed_chunks commits in between.
ItemDone(r) ==
    /\ rep[r].pc = "item" /\ collection
    /\ \E i \in rep[r].work :
        /\ NextRow(r, i) /\ RowFree(r, i)
        /\ vectors' = Upserted(DocumentBatches(queue[i].doc))
        /\ rep' = [rep EXCEPT ![r].work = @ \ {i}, ![r].done = @ \cup {i}]
    /\ UNCHANGED <<database, collection, lost, counted>> /\ NoFault

\* The embedder fails, or the store after some batches; without a collection
\* the first batch fails.  Chunks come in the order of their index, those of
\* all versions together.
ItemFails(r) ==
    /\ rep[r].pc = "item"
    /\ \E i \in rep[r].work :
        /\ NextRow(r, i) /\ RowFree(r, i)
        /\ \E n \in 0..(Batches(queue[i].doc) - 1) :
            vectors' = Upserted({p \in DocumentBatches(queue[i].doc) : p[3] <= n})
        /\ LET reps == [rep EXCEPT ![r].work = @ \ {i}, ![r].bad = @ \cup {i}]
           IN  IF collection THEN Fault /\ rep' = Unclean(reps) ELSE NoFault /\ rep' = reps
    /\ UNCHANGED <<database, collection, lost, counted>>

\* A failure is logged, and the row is done.
MarkedDone(i, status, done, bad) == IF i \in done \cup bad THEN "completed" ELSE status

\* mark_completed or mark_failed, whatever the row says by now.
Marked(i, status, done, bad) ==
    CASE i \in done -> "completed"
      [] i \in bad /\ i \notin done -> "failed"
      [] OTHER -> status

DrainCommit(r) ==
    /\ rep[r].pc = "item" /\ rep[r].work = {}
    /\ queue' = [i \in DOMAIN queue |->
                    [queue[i] EXCEPT !.status = Marked(i, @, rep[r].done, rep[r].bad)]]
    /\ rep' = [rep EXCEPT ![r] =
                IF rep[r].done = {} THEN [Drained(r) EXCEPT !.bad = {}]
                ELSE [rep[r] EXCEPT !.pc = "drain", !.done = {}, !.bad = {}]]
    /\ UNCHANGED <<docs, versions, store, counted>> /\ NoFault

-----------------------------------------------------------------------------
(* _reconcile_vectorstore *)

\* A count that fails (no collection, or a fault) skips the reconciliation.
CountRead(r) ==
    /\ rep[r].pc = "count"
    /\ \/ /\ collection /\ NoFault
          /\ counted' = [counted EXCEPT ![r] = VectorCount]
          /\ Goto(r, "compare")
       \/ ~collection /\ NoFault /\ UNCHANGED counted /\ rep' = [rep EXCEPT ![r] = Up(r)]
       \/ /\ collection /\ Fault /\ UNCHANGED counted
          /\ rep' = Unclean([rep EXCEPT ![r] = Up(r)])
    /\ UNCHANGED <<database, store>>

\* Nothing to do at nine tenths, rounded down, of the rows.
Compare(r) ==
    /\ rep[r].pc = "compare"
    /\ rep' = [rep EXCEPT ![r] =
                IF ChunkCount > 0 /\ counted[r] < (ChunkCount * 9) \div 10
                THEN [rep[r] EXCEPT !.pc = "enqueue",
                                    !.stale = {<<a, docs[a].active>> : a \in ActiveDocs}]
                ELSE Up(r)]
    /\ counted' = [counted EXCEPT ![r] = 0]
    /\ UNCHANGED <<database, store>> /\ NoFault

\* A document that was ever queued counts as queued.
HasRow(a) == \E i \in DOMAIN queue : queue[i].doc = a

HasPending(a) == \E i \in PendingRows : queue[i].doc = a

\* The active documents read before that have no waiting row are queued
\* again, in the registry's order, and the queue is drained when there was one.
Enqueue(r) ==
    /\ rep[r].pc = "enqueue"
    /\ LET again == {d \in rep[r].stale : ~HasPending(d[1])}
       IN  \E n \in 0..Cardinality(Assets) : \E order \in [1..n -> again] :
            /\ \A d \in again : \E k \in 1..n : order[k] = d
            /\ \A j, k \in 1..n : j < k => Place[order[j][1]] < Place[order[k][1]]
            /\ queue' = queue \o [k \in 1..n |-> Row(order[k][1], order[k][2])]
            /\ rep' = [rep EXCEPT ![r] =
                        IF n = 0 THEN Up(r)
                        ELSE [rep[r] EXCEPT !.stale = {}, !.after = "up", !.pc = "drain"]]
    /\ UNCHANGED <<docs, versions, store, counted>> /\ NoFault

-----------------------------------------------------------------------------
(* Faults *)

\* The transaction of a replica that dies is rolled back.
Crash(r) ==
    /\ rep[r].pc # "down" /\ Fault
    /\ rep' = Unclean([rep EXCEPT ![r] = Down])
    /\ counted' = [counted EXCEPT ![r] = 0]
    /\ UNCHANGED <<database, store>>

VolumeLoss ==
    /\ collection /\ Fault
    /\ collection' = FALSE /\ vectors' = {} /\ lost' = TRUE
    /\ rep' = Unclean(rep)
    /\ UNCHANGED <<database, counted>>

-----------------------------------------------------------------------------
Step(r) ==
    \/ Start(r) \/ SeedRead(r) \/ SeedCommit(r)
    \/ IngestCheck(r) \/ IngestNumber(r) \/ IngestCommit(r)
    \/ Latest(r) \/ ActiveRead(r) \/ Publish(r)
    \/ DrainRead(r) \/ ItemDone(r) \/ ItemFails(r) \/ DrainCommit(r)
    \/ CountRead(r) \/ Compare(r) \/ Enqueue(r)

Next == VolumeLoss \/ \E r \in Replicas : Step(r) \/ Crash(r)

Spec == Init /\ [][Next]_vars

\* Kubernetes restarts a process that ends, and a started one runs.
FairSpec == Spec /\ \A r \in Replicas : WF_vars(Step(r))

-----------------------------------------------------------------------------
Steps == {"down", "seed", "insert", "ingest", "number", "commit", "latest", "active",
          "publish", "drain", "item", "count", "compare", "enqueue", "up"}

RowIds == Nat \ {0}

Replica == [pc : Steps, clean : BOOLEAN, todo : SUBSET Assets, doc : Assets \cup {NoDoc},
            number : Nat, seen : Nat, stale : SUBSET (Assets \X Nat),
            work : SUBSET RowIds, done : SUBSET RowIds, bad : SUBSET RowIds,
            after : {"count", "up"}]

\* Every variable has its type.
TypeOK ==
    /\ docs \in [Assets -> [status : {"absent", "draft", "active"}, active : Nat]]
    /\ versions \in [Assets -> Seq({"draft", "active", "superseded"})]
    /\ queue \in Seq([doc : Assets, version : Nat, status : {"pending", "completed", "failed"}])
    /\ collection \in BOOLEAN /\ lost \in BOOLEAN
    /\ rep \in [Replicas -> Replica]
    /\ faults \in 0..MaxFaults

\* While no volume is lost, the chunks of every active version are in the
\* store, or a row of the queue still owes them: no crash between two
\* transactions, no failed batch and no second replica publishing or draining
\* at the same time forgets a document (activate_version, process_pending).
IndexedOrOwed ==
    ~lost => \A a \in ActiveDocs :
        \/ BatchesOf(a, docs[a].active) \subseteq vectors
        \/ \E i \in DOMAIN queue : queue[i].doc = a /\ queue[i].status # "completed"

\* When the replicas are up after boots one of which met no fault, and no row
\* waits, the store holds at least nine tenths of the chunks, whatever was
\* lost before (_reconcile_vectorstore).
BootRepairs ==
    (/\ \A r \in Replicas : rep[r].pc = "up"
     /\ \E r \in Replicas : rep[r].clean
     /\ PendingRows = {})
    => VectorCount >= (ChunkCount * 9) \div 10

\* In the end every replica stays up: a boot that loses a race for a unique
\* row, or is ended by a fault, is repeated and succeeds, provided the
\* validators accept the files of the image.
BootsComplete == Refused = {} => <>[](\A r \in Replicas : rep[r].pc = "up")

\* A finished boot that met no fault leaves every active document in the
\* store: _reconcile_vectorstore "handles: ... Partial embedding failures from
\* previous runs - Any state where PostgreSQL and ChromaDB are out of sync".
DriftRepaired ==
    \A r \in Replicas : rep[r].pc = "up" /\ rep[r].clean =>
        \A a \in ActiveDocs : BatchesOf(a, docs[a].active) \subseteq vectors

=============================================================================
