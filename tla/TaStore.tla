------------------------------ MODULE TaStore ------------------------------
(***************************************************************************)
(* The rows an analysis writes (src/src/engine/ta/storage) and the unit of  *)
(* work it writes them in.  Prices are integers in units of 0.00001, so that*)
(* round(price, 4) is an integer division.                                  *)
(* A candidate is [sym, pattern, dir, price]; a stored row adds user and by,*)
(* the analysis that wrote it.  A transaction is a record                   *)
(*   rows, snaps   what it has added                                        *)
(*   state         "ok"; "aborted": a statement failed and its error was    *)
(*                 swallowed, so that Postgres answers COMMIT with ROLLBACK;*)
(*                 "broken": a flush failed, so that commit() raises        *)
(***************************************************************************)
EXTENDS Naturals, Sequences, FiniteSets

Round4(price) == (price + 5) \div 10

DedupKey(c) == <<c.sym, c.pattern, c.dir, Round4(c.price)>>

NoTx == [rows |-> {}, snaps |-> {}, state |-> "ok"]

\* A mutated form of ExistingKeys: the transaction's own rows only.
ExistingKeysOwn(rows, tx, cands, user) == {DedupKey(row) : row \in tx.rows}

\* _fetch_existing_dedup_keys: the user's active rows for these symbols, as the
\* statement sees them: what is committed plus the transaction's own rows.
ExistingKeys(rows, tx, cands, user) ==
  {DedupKey(row) : row \in {w \in rows \cup tx.rows : /\ w.user = user
                                                     /\ \E i \in DOMAIN cands : cands[i].sym = w.sym}}

\* The candidates that survive: the first of every key not stored yet.
FreshCandidates(keys, cands) ==
  {i \in DOMAIN cands : /\ DedupKey(cands[i]) \notin keys
                        /\ \A j \in 1..(i - 1) : DedupKey(cands[j]) # DedupKey(cands[i])}

RowOf(c, user, by) ==
  [sym |-> c.sym, pattern |-> c.pattern, dir |-> c.dir, price |-> c.price, user |-> user, by |-> by]

\* bulk_create_smc_candidates and bulk_create_snd_candidates after the read.
BulkCreate(tx, keys, cands, user, by) ==
  [tx EXCEPT !.rows = @ \cup {RowOf(cands[i], user, by) : i \in FreshCandidates(keys, cands)}]

\* _get_latest_version and the insert of SnapshotRepository.create
LatestVersion(snaps, user, sym, tf) ==
  LET versions == {0} \cup {s.version : s \in {w \in snaps : w.user = user /\ w.sym = sym /\ w.tf = tf}}
  IN CHOOSE v \in versions : \A w \in versions : w <= v
CreateSnapshots(tx, snaps, user, sym, tfs, by) ==
  [tx EXCEPT !.snaps = {[user |-> user, sym |-> sym, tf |-> tf, by |-> by,
                         version |-> 1 + LatestVersion(snaps, user, sym, tf)] : tf \in tfs}]

\* A statement on a transaction that is no longer ok fails and is swallowed by
\* the caller's except; on an ok one it may fail in either way.
Fail(tx, kind) == IF tx.state = "ok" THEN [tx EXCEPT !.state = kind] ELSE tx

\* A mutated form of Durable: an aborted transaction commits.
DurableUnlessBroken(tx) == tx.state # "broken"

\* DatabaseManager.session: what the commit makes durable, and whether it raises.
Durable(tx) == tx.state = "ok"
CommitRaises(tx) == tx.state = "broken"

\* get_latest_snapshot, find_active_candidates
ActiveCandidates(rows, user, sym) == {w \in rows : w.user = user /\ w.sym = sym}
=============================================================================
