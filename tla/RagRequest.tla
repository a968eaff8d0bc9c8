----------------------------- MODULE RagRequest -----------------------------
(***************************************************************************)
(* One retrieval after another (RAGOrchestrator.retrieve_context) while a  *)
(* booting replica publishes documents and writes their vectors.  A        *)
(* retrieval is a chain of awaits: the strategy's queries of the vector    *)
(* store, one query per gap, the reads of the active versions, and two     *)
(* audit transactions.  The store grows between any two of them, and each  *)
(* of them may fail.                                                       *)
(***************************************************************************)
EXTENDS RagRetrieval, RagSignals

CONSTANTS Library,     \* document type -> the file it is ingested from
          Queries,     \* what the gateway asks
          Reruns,      \* what reruns start from: [name, symbol, ta, macro]
          UpsertBatch  \* chunks per call of the vector store

Docs == DOMAIN Library

VARIABLES published, \* documents with an active version
          loaded,    \* document -> batches of it in the vector store
          req,       \* the retrieval in progress, or the last one
          log        \* its rows in rag_retrieval_logs and rag_analysis_citations

vars == <<published, loaded, req, log>>

-----------------------------------------------------------------------------
(* The booting replica: activate_version commits before the queue is       *)
(* drained.                                                                *)

Stored(type) ==
    LET chunks == Chunked(Library[type])
    IN  AsTuple([i \in DOMAIN chunks |->
            [id |-> <<type, i>>, doc |-> type, type |-> type,
             section |-> chunks[i].section, sub |-> chunks[i].sub,
             direction |-> chunks[i].direction, flags |-> chunks[i].flags]])

StoredChunks == [type \in Docs |-> Stored(type)]

BatchesIn(type) == (Len(StoredChunks[type]) + UpsertBatch - 1) \div UpsertBatch

\* The documents whose file the validators let through.
Accepted == {type \in Docs : Ingestible(Library[type])}

Publish(type) ==
    /\ type \in Accepted \ published
    /\ published' = published \cup {type}
    /\ UNCHANGED <<loaded, req, log>>

\* Vectors of a draft are written too.
IndexableDraft(type) == loaded[type] < BatchesIn(type)

Indexable(type) == type \in published /\ loaded[type] < BatchesIn(type)

Upsert(type) ==
    /\ Indexable(type)
    /\ loaded' = [loaded EXCEPT ![type] = @ + 1]
    /\ UNCHANGED <<published, req, log>>

-----------------------------------------------------------------------------
(* The collections as a query finds them.  Nothing writes to the scenario  *)
(* collection.                                                             *)

Documents ==
    LET Loaded(type) == IF type \notin Docs THEN <<>>
                        ELSE Take(StoredChunks[type], loaded[type] * UpsertBatch)
    IN  FlatMap(Loaded, FillOrder)

Collection(from) == IF from = "scenarios" THEN <<>> ELSE Nearest(req.query, Documents)

-----------------------------------------------------------------------------
(* retrieve_context *)

NoLog == [row |-> "none", citations |-> "none"]

Idle == [pc |-> "idle"]

Mins == MinChunks(req.query.signals)

Asked(query) ==
    /\ req.pc \in {"idle", "answered", "failed"}
    /\ req' = [pc |-> "query", query |-> query, at |-> 1, chunks |-> <<>>]
    /\ log' = NoLog
    /\ UNCHANGED <<published, loaded>>

Ask(query) == Asked(query)

\* The engine's own rerun of an analysis derives the query itself.
Rerun(r) == ~EndsEarly(r.ta) /\ Asked(RerunQuery(r.name, r.symbol, r.ta, r.macro))

\* The next bucket; after the last one, the candidates by score.
Merged(bucket) ==
    LET chunks == AddBucket(req.chunks, bucket)
    IN  IF req.at < Len(BucketsOf(req.query))
        THEN [req EXCEPT !.at = @ + 1, !.chunks = chunks]
        ELSE [pc |-> "fill", query |-> req.query, at |-> 1,
              chunks |-> ByScore(chunks), extra |-> <<>>]

Query ==
    /\ req.pc = "query"
    /\ LET b == BucketsOf(req.query)[req.at]
       IN  req' = Merged(Retrieve(Collection(b.from), b.types, b.groups, b.topK, ScoreThreshold))
    /\ UNCHANGED <<published, loaded, log>>

\* Only the query of the scenario collection may fail.
QueryFails ==
    /\ req.pc = "query"
    /\ req' = IF BucketsOf(req.query)[req.at].from = "scenarios" THEN Merged(<<>>)
              ELSE [pc |-> "failed"]
    /\ UNCHANGED <<published, loaded, log>>

\* The types whose minimum the candidates miss, in the order they are filled.
Gaps == SelectSeq(FillOrder, LAMBDA type : Deficit(req.chunks, Mins, type) > 0)

Filled(extra) ==
    IF req.at < Len(Gaps) THEN [req EXCEPT !.at = @ + 1, !.extra = extra]
    ELSE [pc |-> "cite", query |-> req.query,
          chunks |-> Rerank(req.chunks \o extra, Mins)]

\* A query that fails leaves its gap.
Fill ==
    /\ req.pc = "fill"
    /\ req' = IF Gaps = <<>> THEN Filled(<<>>)
              ELSE LET type == Gaps[req.at]
                       collection == Collection(IF type = "chart_scenario_library"
                                                THEN "scenarios" ELSE "documents")
                   IN  Filled(req.extra \o Fetched(req.query, req.chunks,
                                            Deficit(req.chunks, Mins, type), collection, type))
    /\ UNCHANGED <<published, loaded, log>>

FillFails ==
    /\ req.pc = "fill" /\ Gaps # <<>>
    /\ req' = Filled(req.extra)
    /\ UNCHANGED <<published, loaded, log>>

\* The active versions of the documents.
VersionMap == [type \in published |-> 1]

\* build_citations, coverage, conflicts and the bundle.
Cite ==
    /\ req.pc = "cite"
    /\ req' = [pc |-> "log", query |-> req.query, chunks |-> req.chunks,
               citations |-> Citations(req.chunks, VersionMap),
               coverage |-> Coverage(req.query, req.chunks, Mins),
               conflict |-> Conflict(req.chunks)]
    /\ UNCHANGED <<published, loaded, log>>

LogRetrieval ==
    /\ req.pc = "log"
    /\ log' = [log EXCEPT !.row = [returned |-> Len(req.chunks), coverage |-> req.coverage,
                                   conflict |-> req.conflict]]
    /\ req' = [req EXCEPT !.pc = "cited"]
    /\ UNCHANGED <<published, loaded>>

LogCitations ==
    /\ req.pc = "cited"
    /\ log' = [log EXCEPT !.citations = req.citations]
    /\ req' = [req EXCEPT !.pc = "answered"]
    /\ UNCHANGED <<published, loaded>>

\* The database fails: the caller gets an error, whatever was retrieved.
DatabaseFails ==
    /\ req.pc \in {"cite", "log", "cited"}
    /\ req' = [pc |-> "failed"]
    /\ UNCHANGED <<published, loaded, log>>

-----------------------------------------------------------------------------
Init ==
    /\ published = {}
    /\ loaded = [type \in Docs |-> 0]
    /\ req = Idle
    /\ log = NoLog

Next ==
    \/ \E type \in Docs : Publish(type) \/ Upsert(type)
    \/ \E query \in Queries : Ask(query)
    \/ \E r \in Reruns : Rerun(r)
    \/ Query \/ QueryFails \/ Fill \/ FillFails
    \/ Cite \/ LogRetrieval \/ LogCitations \/ DatabaseFails

Spec == Init /\ [][Next]_vars

-----------------------------------------------------------------------------
\* Every variable has its type, and a step of the retrieval its fields.
TypeOK ==
    /\ published \subseteq Docs
    /\ \A type \in Docs : loaded[type] \in 0..BatchesIn(type)
    /\ req.pc \in {"idle", "query", "fill", "cite", "log", "cited", "answered", "failed"}
    /\ req.pc = "query" => req.at \in 1..Len(BucketsOf(req.query))
    /\ req.pc = "fill" => req.at \in 1..(Len(FillOrder) + 1)

Keeping == {type \in Docs : KeepsWords(Library[type])}

Fitting == {type \in Docs : ParentsFit(Library[type])}

\* The chunks of a published document, and of every small file the validators
\* let through, hold all words of its sections in order, none lost between two
\* windows or by merging; and after small chunks were merged and renumbered, a
\* chunk's parent is an earlier chunk of the same section
\* (_split_by_token_limit, _merge_small_chunks, _reindex).
ChunksFaithful ==
    /\ Losing = {} /\ published \subseteq Keeping
    /\ Misparented = {} /\ published \subseteq Fitting

\* No chunk is in a bundle twice, although the store grows between the queries
\* and the gap filler asks for types the strategy has asked for already
\* (fill_gaps "Deduplicates by chunk_id"); and an answered retrieval has one
\* citation in the audit log for every chunk of its bundle, and a row that counts
\* them: a chunk is in the store only when its document has an active version
\* (_build_version_map, log_citations).
BundleIsAudited ==
    LET chunks == req.chunks
        ids == {chunks[i].id : i \in DOMAIN chunks}
    IN  /\ req.pc \in {"cite", "log", "cited", "answered"} =>
               Cardinality(ids) = Len(chunks)
        /\ req.pc = "answered" =>
               /\ log.row.returned = Len(chunks)
               /\ {c[1] : c \in log.citations} = ids
=============================================================================
