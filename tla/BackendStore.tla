---------------------------- MODULE BackendStore ----------------------------
(***************************************************************************)
(* The layout stores of the engines: RocksDB (src/src/rocksdb), redb      *)
(* (src/src/redb), libmdbx (src/src/libmdbx), parity-db                    *)
(* (src/storages/parity), fjall (src/storages/fjall) and the FST engine    *)
(* itself (src/src/fst/store.rs) with its faults.  Each has the same four  *)
(* layouts and the same per-entry fan-out; they differ in how a commit     *)
(* reaches the engine:                                                     *)
(*                                                                         *)
(*   atomic          the writes go into one WriteBatch, write transaction  *)
(*                   or change list, so a failing commit writes nothing;   *)
(*                   fjall and FST insert into their partitions or columns *)
(*                   one by one, and an FST insert whose seal fails stays  *)
(*                   in the memtable (keepsFailedPut).                     *)
(*   committedReads  the Dictionary read of value_to_birth_key sees the    *)
(*                   engine's committed state, not the writes this commit  *)
(*                   has staged (RocksDB get_cf, parity-db Db::get).       *)
(*   swallowRead     redb's `if let Ok(Some(pk)) = v2pk.get(..)` treats a  *)
(*                   failed read as "value not present".                   *)
(*                                                                         *)
(* A commit is one step (it takes &mut self).  Its fault model: any one of *)
(* the engine calls it makes (a read of value_to_birth_key or a write) may *)
(* fail, and with redb any of its value_to_birth_key reads may fail        *)
(* silently.  The engine itself is abstracted to its committed state.      *)
(*                                                                         *)
(* LayoutSpec checks that a backend implements the layout semantics of     *)
(* FstStore: every step is a Commit of FstStore or leaves the observable   *)
(* state unchanged.                                                        *)
(***************************************************************************)
EXTENDS Integers, Sequences, FiniteSets, SequencesExt

CONSTANTS
    Keys, Vals, NoVal, NoKey,
    Layout,        \* "Plain", "UniqueIndex", "Range" or "Dictionary"
    Backends,      \* engines to check, of "Fst", "RocksDB", "Redb", "Libmdbx", "Parity",
                   \* "ParityBench" (src/src/parity_store.rs) and "Fjall"
    MaxBatch,      \* model bound: entries per commit
    MaxCommits,    \* model bound: successful commits
    MaxAttempts,   \* model bound: commits attempted, failed ones included
    WriteErrors,   \* fault model: an engine call inside commit may fail
    ReadErrors,    \* fault model: redb's value_to_birth_key reads may fail
    IterErrors     \* fault model: the iterator of a get_keys_for_value scan may fail

ASSUME /\ Backends \subseteq {"Fst", "RocksDB", "Redb", "Libmdbx", "Parity", "ParityBench", "Fjall"}
       /\ WriteErrors \in BOOLEAN /\ ReadErrors \in BOOLEAN /\ IterErrors \in BOOLEAN

VARIABLES
    backend,    \* the engine the store was opened on
    db,         \* the engine's committed columns, one field per column
    inserted,   \* ProgressTracker.inserted
    last,       \* history: value of the last committed entry per key
    entries,    \* history: entries committed
    commits,    \* successful commits
    attempts,   \* commits attempted
    retry       \* the caller: the batch of a failed commit, to be retried

vars == <<backend, db, inserted, last, entries, commits, attempts, retry>>

Entry == Keys \X Vals
Batches == UNION {[1 .. n -> Entry] : n \in 1 .. MaxBatch}
NoHit == [pk |-> NoKey, new |-> FALSE]

\* The columns; vkb (value||key) and pkk (birth_key||key) are sets of pairs.
EmptyDb ==
    [kv |-> [k \in Keys |-> NoVal], vk |-> [v \in Vals |-> NoKey], vkb |-> {},
     k2pk |-> [k \in Keys |-> NoKey], pk2v |-> [k \in Keys |-> NoVal],
     v2pk |-> [v \in Vals |-> NoKey], pkk |-> {}]

\* One engine call made by commit: a put into a column, or the read of
\* value_to_birth_key.
Put(col, key, val) == [kind |-> "put", col |-> col, key |-> key, val |-> val]
ReadV2pk == [kind |-> "get", col |-> "v2pk", key |-> NoKey, val |-> NoVal]

Apply(s, op) ==
    IF op.kind = "get" THEN s
    ELSE IF op.col \in {"vkb", "pkk"} THEN [s EXCEPT ![op.col] = @ \cup {op.key}]
    ELSE [s EXCEPT ![op.col][op.key] = op.val]

-----------------------------------------------------------------------------
(***************************************************************************)
(* The fan-out of one entry.  st holds the columns with this commit's      *)
(* writes applied (cur), the engine calls so far (ops), the value cache    *)
(* and the processed count.  impl holds the backend's traits, bad is the   *)
(* set of entries whose value_to_birth_key read fails silently.            *)
(***************************************************************************)

\* Mutant: key_to_birth_key receives the value instead of the birth key.
DictionaryOpsSwapped(impl, st, i, k, v, bad) ==
    LET view == IF impl.committedReads THEN db ELSE st.cur
        cached == impl.cache /\ st.cache[v] # NoHit
        hit == IF cached THEN st.cache[v]
               ELSE IF i \notin bad /\ view.v2pk[v] # NoKey
                    THEN [pk |-> view.v2pk[v], new |-> FALSE]
                    ELSE [pk |-> k, new |-> TRUE]
    IN  [ops  |-> (IF cached THEN <<>> ELSE <<ReadV2pk>>)
                  \o (IF hit.new THEN <<Put("v2pk", v, hit.pk), Put("pk2v", hit.pk, v)>>
                                 ELSE <<>>)
                  \o <<Put("k2pk", k, v), Put("pkk", <<hit.pk, k>>, NoVal)>>,
         hit  |-> hit,
         n    |-> IF hit.new THEN 4 ELSE 2]

\* Dictionary: the birth key from the value cache, else from a read of
\* value_to_birth_key, else the key itself as a new birth key.
DictionaryOps(impl, st, i, k, v, bad) ==
    LET view == IF impl.committedReads THEN db ELSE st.cur
        cached == impl.cache /\ st.cache[v] # NoHit
        hit == IF cached THEN st.cache[v]
               ELSE IF i \notin bad /\ view.v2pk[v] # NoKey
                    THEN [pk |-> view.v2pk[v], new |-> FALSE]
                    ELSE [pk |-> k, new |-> TRUE]
    IN  [ops  |-> (IF cached THEN <<>> ELSE <<ReadV2pk>>)
                  \o (IF hit.new THEN <<Put("v2pk", v, hit.pk), Put("pk2v", hit.pk, v)>>
                                 ELSE <<>>)
                  \o <<Put("k2pk", k, hit.pk), Put("pkk", <<hit.pk, k>>, NoVal)>>,
         hit  |-> hit,
         n    |-> IF hit.new THEN 4 ELSE 2]

\* Mutant: the Range index put is skipped when key_to_value already holds
\* the value.
EntryOpsSkipUnchanged(impl, st, i, k, v, bad) ==
    CASE Layout = "Plain" ->
            [ops |-> <<Put("kv", k, v)>>, hit |-> NoHit, n |-> 1]
      [] Layout = "UniqueIndex" ->
            [ops |-> <<Put("kv", k, v), Put("vk", v, k)>>, hit |-> NoHit, n |-> 2]
      [] Layout = "Range" ->
            [ops |-> IF st.cur.kv[k] = v THEN <<Put("kv", k, v)>>
                     ELSE <<Put("kv", k, v), Put("vkb", <<v, k>>, NoVal)>>,
             hit |-> NoHit, n |-> 2]
      [] Layout = "Dictionary" -> DictionaryOps(impl, st, i, k, v, bad)

EntryOps(impl, st, i, k, v, bad) ==
    CASE Layout = "Plain" ->
            [ops |-> <<Put("kv", k, v)>>, hit |-> NoHit, n |-> 1]
      [] Layout = "UniqueIndex" ->
            [ops |-> <<Put("kv", k, v), Put("vk", v, k)>>, hit |-> NoHit, n |-> 2]
      [] Layout = "Range" ->
            [ops |-> <<Put("kv", k, v), Put("vkb", <<v, k>>, NoVal)>>,
             hit |-> NoHit, n |-> 2]
      [] Layout = "Dictionary" -> DictionaryOps(impl, st, i, k, v, bad)

\* All engine calls of a commit, in order, and the columns after them.
CommitOps(impl, batch, bad) ==
    LET step(st, ie) ==
            LET r == EntryOps(impl, st, ie[1], ie[2][1], ie[2][2], bad)
            IN  [cur   |-> FoldLeft(Apply, st.cur, r.ops),
                 ops   |-> st.ops \o r.ops,
                 cache |-> IF Layout = "Dictionary" /\ r.hit # NoHit
                           THEN [st.cache EXCEPT ![ie[2][2]] = r.hit] ELSE st.cache,
                 n     |-> st.n + r.n]
    IN  FoldLeft(step,
                 [cur |-> db, ops |-> <<>>, cache |-> [v \in Vals |-> NoHit], n |-> 0],
                 [i \in DOMAIN batch |-> <<i, batch[i]>>])

\* How many engine calls of a non-atomic commit stay applied when call j
\* fails: those before it, and the failing one too when it is an insert
\* of the FST engine (Column::insert puts the entry in the memtable before
\* the seal that fails).
Applied(impl, ops, j) ==
    IF impl.keepsFailedPut /\ ops[j].kind = "put" THEN j ELSE j - 1

-----------------------------------------------------------------------------
Init ==
    /\ backend \in Backends
    /\ db = EmptyDb
    /\ inserted = 0
    /\ last = [k \in Keys |-> NoVal]
    /\ entries = 0
    /\ commits = 0
    /\ attempts = 0
    /\ retry = <<>>

\* Store::commit.  fail = 0: every call succeeds, the engine commits and
\* progress.record(processed) runs.  fail = j > 0: the j-th engine call
\* fails and commit returns the error; an atomic backend drops its batch
\* or transaction, fjall keeps the calls before it.  The caller follows
\* the error policy of the spec: a failed batch is committed again.
Commit(impl, batch, fail, bad) ==
    LET r == CommitOps(impl, batch, bad)
    IN
    /\ attempts < MaxAttempts
    /\ retry # <<>> => batch = retry
    /\ attempts' = attempts + 1
    /\ UNCHANGED backend
    /\ \/ /\ fail = 0
          /\ commits < MaxCommits
          /\ db' = r.cur
          /\ inserted' = IF impl.progress THEN inserted + r.n ELSE inserted
          /\ last' = FoldLeft(LAMBDA m, e : [m EXCEPT ![e[1]] = e[2]], last, batch)
          /\ entries' = entries + Len(batch)
          /\ commits' = commits + 1
          /\ retry' = <<>>
       \/ /\ WriteErrors /\ fail \in 1 .. Len(r.ops)
          /\ db' = IF impl.atomic THEN db
                  ELSE FoldLeft(Apply, db, SubSeq(r.ops, 1, Applied(impl, r.ops, fail)))
          /\ retry' = batch
          /\ UNCHANGED <<inserted, last, entries, commits>>

Failures == 0 .. 5 * MaxBatch
BadReads == IF ReadErrors THEN SUBSET (1 .. MaxBatch) ELSE {{}}

\* WriteBatch written by write_opt; get_cf reads the committed db.
RocksDbCommit ==
    \E b \in Batches, f \in Failures :
        Commit([atomic |-> TRUE, committedReads |-> TRUE, cache |-> TRUE,
                keepsFailedPut |-> FALSE, progress |-> TRUE], b, f, {})

\* One write transaction; v2pk.get inside it sees the transaction's own
\* inserts, and a failed get counts as "absent".
RedbCommit ==
    \E b \in Batches, f \in Failures, bad \in BadReads :
        Commit([atomic |-> TRUE, committedReads |-> FALSE, cache |-> TRUE,
                keepsFailedPut |-> FALSE, progress |-> TRUE], b, f, bad)

\* One read-write transaction; txn.get sees the transaction's own puts.
LibmdbxCommit ==
    \E b \in Batches, f \in Failures :
        Commit([atomic |-> TRUE, committedReads |-> FALSE, cache |-> TRUE,
                keepsFailedPut |-> FALSE, progress |-> TRUE], b, f, {})

\* Mutant: parity-db without the per-commit value cache.
ParityCommitNoCache ==
    \E b \in Batches, f \in Failures :
        Commit([atomic |-> TRUE, committedReads |-> TRUE, cache |-> FALSE,
                keepsFailedPut |-> FALSE, progress |-> TRUE], b, f, {})

\* One change list handed to Db::commit; Db::get reads the committed db.
ParityCommit ==
    \E b \in Batches, f \in Failures :
        Commit([atomic |-> TRUE, committedReads |-> TRUE, cache |-> TRUE,
                keepsFailedPut |-> FALSE, progress |-> TRUE], b, f, {})

\* The copy of the parity-db store that parity_bench uses: the same
\* change list and Db::get, and no progress tracker.
ParityBenchCommit ==
    \E b \in Batches, f \in Failures :
        Commit([atomic |-> TRUE, committedReads |-> TRUE, cache |-> TRUE,
                keepsFailedPut |-> FALSE, progress |-> FALSE], b, f, {})

\* Partition::insert per put, each visible at once; no batch.
FjallCommit ==
    \E b \in Batches, f \in Failures :
        Commit([atomic |-> FALSE, committedReads |-> FALSE, cache |-> TRUE,
                keepsFailedPut |-> FALSE, progress |-> TRUE], b, f, {})

\* The FST engine's own Store::commit: one Column::insert per column write
\* under that column's lock, value_to_birth_key read from the column
\* itself (so this commit's own writes are seen), and a failure of any
\* insert (its seal's I/O) or of the read returned at once.
FstCommit ==
    \E b \in Batches, f \in Failures :
        Commit([atomic |-> FALSE, committedReads |-> FALSE, cache |-> TRUE,
                keepsFailedPut |-> TRUE, progress |-> TRUE], b, f, {})

Next ==
    \/ backend = "Fst" /\ FstCommit
    \/ backend = "RocksDB" /\ RocksDbCommit
    \/ backend = "Redb" /\ RedbCommit
    \/ backend = "Libmdbx" /\ LibmdbxCommit
    \/ backend = "Parity" /\ ParityCommit
    \/ backend = "ParityBench" /\ ParityBenchCommit
    \/ backend = "Fjall" /\ FjallCommit

Spec == Init /\ [][Next]_vars

-----------------------------------------------------------------------------
(***************************************************************************)
(* Reads.  The lookups are the same in every backend; the index scan of   *)
(* get_keys_for_value differs in what it does with an iterator error.     *)
(***************************************************************************)

GetValue(k) ==
    IF Layout = "Dictionary"
    THEN IF db.k2pk[k] = NoKey THEN NoVal ELSE db.pk2v[db.k2pk[k]]
    ELSE db.kv[k]

\* UniqueIndex only.
GetKeyForValue(v) == db.vk[v]

GetKeysForValue(v) ==
    IF Layout = "Range" THEN {k \in Keys : <<v, k>> \in db.vkb}
    ELSE IF db.v2pk[v] = NoKey THEN {}
    ELSE {k \in Keys : <<db.v2pk[v], k>> \in db.pkk}

\* A get_keys_for_value scan over the index entries found for a value,
\* visited in key order from the seek position, whose iterator returns an
\* error at position fail (0: never).  swallows: the loop is `while let
\* Some(Ok((k, _))) = iter.next()`, which ends at the error and returns
\* Ok with the keys read so far; otherwise the error is returned.
KeysScan(found, fail, swallows) ==
    LET s == SetToSeq(found)
        n == IF fail - 1 < Len(s) THEN fail - 1 ELSE Len(s)
    IN  IF fail = 0 THEN [ok |-> TRUE, keys |-> found]
        ELSE IF swallows THEN [ok |-> TRUE, keys |-> ToSet(SubSeq(s, 1, n))]
        ELSE [ok |-> FALSE, keys |-> {}]

\* iterator_cf(From(prefix)) and `while let Some(Ok(..))`.
RocksDbKeysForValue(v, fail) == KeysScan(GetKeysForValue(v), fail, TRUE)

\* range(prefix..) on the read transaction's table, `while let Some(Ok(..))`.
RedbKeysForValue(v, fail) == KeysScan(GetKeysForValue(v), fail, TRUE)

\* cursor into_iter_from(prefix), `while let Some(Ok(..))`.
LibmdbxKeysForValue(v, fail) == KeysScan(GetKeysForValue(v), fail, TRUE)

\* Db::iter, seek, `while let Some((k, _)) = iter.next()?`.
ParityKeysForValue(v, fail) == KeysScan(GetKeysForValue(v), fail, FALSE)

\* The same loop in parity_bench's copy of the store.
ParityBenchKeysForValue(v, fail) == KeysScan(GetKeysForValue(v), fail, FALSE)

\* Partition::prefix, each item unwrapped with `kv?`.
FjallKeysForValue(v, fail) == KeysScan(GetKeysForValue(v), fail, FALSE)

\* Column::keys_with_prefix collects the keys under the read lock and has
\* no fallible iterator; a failed get of value_to_birth_key is returned.
FstKeysForValue(v, fail) == KeysScan(GetKeysForValue(v), fail, FALSE)

KeysForValueRead(v, fail) ==
    CASE backend = "RocksDB"     -> RocksDbKeysForValue(v, fail)
      [] backend = "Redb"        -> RedbKeysForValue(v, fail)
      [] backend = "Libmdbx"     -> LibmdbxKeysForValue(v, fail)
      [] backend = "Parity"      -> ParityKeysForValue(v, fail)
      [] backend = "ParityBench" -> ParityBenchKeysForValue(v, fail)
      [] backend = "Fjall"       -> FjallKeysForValue(v, fail)
      [] backend = "Fst"         -> FstKeysForValue(v, fail)

IterFails == IF IterErrors THEN 0 .. Cardinality(Keys) + 1 ELSE {0}

-----------------------------------------------------------------------------
(***************************************************************************)
(* Properties.                                                             *)
(***************************************************************************)

TypeOK ==
    /\ db \in [kv : [Keys -> Vals \cup {NoVal}], vk : [Vals -> Keys \cup {NoKey}],
               vkb : SUBSET (Vals \X Keys), k2pk : [Keys -> Keys \cup {NoKey}],
               pk2v : [Keys -> Vals \cup {NoVal}], v2pk : [Vals -> Keys \cup {NoKey}],
               pkk : SUBSET (Keys \X Keys)]
    /\ inserted \in Nat

\* The layout store as FstStore specifies it, seen through the backend's
\* committed columns.
LS == INSTANCE FstStore WITH
        Layouts <- {Layout}, layout <- Layout,
        kv_col <- db.kv, vk_col <- db.vk, vk_btree <- db.vkb, k2pk <- db.k2pk,
        pk2v <- db.pk2v, v2pk <- db.v2pk, pk_k_btree <- db.pkk

\* Every commit of the backend, failed ones included, is a commit of the
\* layout store or leaves it unchanged: a failing commit writes nothing
\* and records no progress, and the backend's own way of reading
\* value_to_birth_key (committed state or its own staged writes) gives the
\* same birth keys.
LayoutSpec == LS!Spec

\* Every key is returned by get_keys_for_value of the value get_value
\* returns for it (Range and Dictionary), also after failed commits.
KeysForValueComplete ==
    Layout \in {"Range", "Dictionary"} =>
        \A k \in Keys : GetValue(k) # NoVal => k \in GetKeysForValue(GetValue(k))

\* The layout's columns agree: every key is found through its value's
\* index, every birth key of a key reads a value, and every value of
\* key_to_value has a value_to_key entry.
Consistent ==
    /\ KeysForValueComplete
    /\ Layout = "Dictionary" =>
           \A k \in Keys : db.k2pk[k] # NoKey => db.pk2v[db.k2pk[k]] # NoVal
    /\ Layout = "UniqueIndex" =>
           \A k \in Keys : db.kv[k] # NoVal => GetKeyForValue(db.kv[k]) # NoKey

\* Spec section 7 policy: columns written by a failed commit keep their
\* writes, and a caller that needs the columns to agree retries the batch.
\* Once the retry has succeeded (nothing is left to retry), the columns
\* agree again.
RetryRepairs == retry = <<>> => Consistent

\* A get_keys_for_value that returns Ok lists every key bound to the value,
\* whatever error the engine's iterator returns part-way through the scan
\* (once the caller's commits have all succeeded).  An error must reach
\* the caller rather than a shortened list.
ReadsComplete ==
    retry = <<>> /\ Layout \in {"Range", "Dictionary"} =>
        \A k \in Keys, f \in IterFails :
            GetValue(k) # NoVal =>
                LET r == KeysForValueRead(GetValue(k), f) IN r.ok => k \in r.keys

=============================================================================
