# TLA+ models of blockchain-benches: the FST engine, the backends and the dictionary driver

The repository benchmarks embedded key/value engines under four storage
layouts used by a blockchain indexer. Most backends (RocksDB, redb, libmdbx,
fjall, parity-db) are adapters over third-party engines. The FST engine is
different: it is a small log-structured store written here, with a memtable,
immutable on-disk segments, multi-way merge compaction on a background
thread, and a layout layer that builds the four layouts out of 1 to 4
columns. These modules model that engine in detail, the other backends'
layout code against it, and the dictionary benchmark driver that feeds them.

## Inventory

| Component | Source | State | Operations |
|---|---|---|---|
| Column | `src/src/fst/segment.rs` (`Column`) | `memtable` (BTreeMap), `segments` (Vec, list order), `next_segment_id`, `merging`, `segment_size` | `open`, `insert`, `flush`, `get`, `keys_with_prefix`, `multi_way_merge`, `snapshot_for_merge`, `finish_merge` |
| Segment files | `segment.rs` (`Segment`, `segment_paths`, `write_value`, `read_value_from_path`, `load_segments`) | per id a pair `col{c}_seg{id}.fst` (key to offset) and `.val` (u32-LE records) | seal, read a value by path, enumerate on open |
| Merger | `segment.rs` (`merge_segments`) | heap of `(key, Reverse(seg_id), idx, offset)`, `last_emitted` | merge N input segments into one, newest id wins per key |
| Compactor | `src/storages/fst/src/compactor.rs` | mpsc channel of column indices, worker thread | `request`, worker loop (snapshot, merge outside the lock, finish or clear `merging` on error), `Drop` (close, join) |
| Store | `src/src/fst/store.rs` (`Store`) | layout, `Vec<Arc<RwLock<Column>>>`, compactor, progress | `open`, `commit` (fan-out per layout, Dictionary birth-key cache), `flush`, `multi_way_merge`, `get_value`, `get_key_for_value`, `get_keys_for_value` |
| Sizing | `store.rs` (`compute_segment_size`, `StoreOptions`) | none | pure function of row estimate, KV width, memory budget; `from_estimates`, `Default` |
| Codecs, progress | `src/src/bench_codecs.rs`, `src/core/src/store_interface.rs` | progress counter (codecs are stateless) | `encode`/`decode` of Key16, Amount, TxHash, Timestamp (fixed width) and Address (any length); progress printing |
| Other backends | `src/src/{rocksdb,redb,libmdbx}/store.rs`, `src/storages/{fjall,parity}/src/store.rs`, `src/src/parity_store.rs` | engine handle, column families / tables / partitions | `commit` (same layout fan-out over a WriteBatch, a write transaction, a change list, or direct partition inserts), `get_*` reads |
| Dictionary driver | `src/src/bench_common.rs`, `src/src/parity_bench.rs` (`run_dictionary`, `AddressStream`) | shared `AtomicU64` counter, bounded(1024) channel, producer threads, batch | producers claim an index and send an address; the consumer batches, commits, joins, flushes |

How they interact. The caller thread owns the `Store` (`commit` and `flush`
take `&mut self`). `commit` turns each entry into one insert per column of the
layout. Each insert takes that column's write lock for one `Column::insert`.
When an insert seals the memtable into a segment, the Store sends the column
index on the compactor's channel. The compactor thread receives indices. For
each one it takes the column's write lock for `snapshot_for_merge`, which
flushes, checks the threshold, reserves an output id and sets `merging`. It
then runs `merge_segments` with no lock, reading the input files by path.
Finally it takes the lock again for `finish_merge`, which swaps the segments
and deletes the input files. The segment files on disk are the only shared
durable state. There is no manifest, and `Column::open` rebuilds the list
from the file names.

What is hard:
- the caller and the compactor interleave between the compactor's two
  lock acquisitions;
- the synchronous `multi_way_merge` ignores `merging`;
- merge errors must be cleaned up;
- reads depend on list order while recovery depends on id order;
- crashes can leave half-written files;
- the Dictionary layout reuses a key as the interning handle;
- index columns (Range, Dictionary) are never cleaned when a key is
  rebound.

What makes each component correct:
- Column: newer-wins for `get`, and no key ever lost. Every live segment
  is backed by its own files. Prefix scans are sorted and free of
  duplicates.
- Merger: for every key, the output holds the value of the newest input.
- Compactor: no overlapping merges on a column, `merging` always cleared,
  and queued requests drained at shutdown.
- Store: `get_keys_for_value(v)` equals `{k : get_value(k) = v}`, one birth
  key per value, and newer-wins through the Dictionary indirection.
- Recovery: reopening preserves what was flushed, keeps newer-wins, and
  tolerates crash leftovers.

## Modules

### FstColumn (with MC_FstColumn)

Models the columns and the compactor. A Table (`[Keys -> Vals \cup {NoVal}]`)
stands for a memtable, a segment's FST plus values, or a file pair. Variables:

- `memtable[c]`, `segments[c]` (a sequence of `[id, data]` in list order),
  `next_segment_id[c]` and `merging[c]` are the fields of `Column`.
- `files[c][id]` is the content of the file pair of segment `id`, or `NoFile`.
- `requests` is the mpsc channel.
- `cpc` and `csnap` are the compactor thread's position and its snapshot
  (column, reserved merge id, input ids, merged table).
- `kv` is a history variable: the last value inserted per key. It is the
  abstract key/value map the column should implement.

Actions:

- Caller: `Insert(c,k,v)` is `Column::insert` plus `compactor.request` when
  the insert sealed. `Flush(c)` is `Store::flush` on one column.
  `MultiWayMerge(c)` is `Column::multi_way_merge`. `MultiWayMergeFails(c)`
  is the same call when `merge_segments` fails on its inputs; it is only
  in `NextIO`/`SpecIO`, the fault model of the violation run.
- Compactor: `SnapshotForMerge` is one loop iteration up to the release of
  the first lock, including both `None` returns. `merge_segments` is
  three steps: `OpenInputs` opens and maps every input `.fst` (`MergeFails`
  is its `?` error when an input is gone, and the error branch that clears
  `merging`); `MergeSegments` opens the `.val` files and writes the output;
  `CompactorPanics` is the `File::open(val_path).unwrap()` panicking
  because the inputs were deleted between the two loops. The dead worker
  (`cpc = "dead"`) drops the channel's receiver and its queued requests;
  later `request` sends fail and are ignored. `FinishMerge` is
  `Column::finish_merge`.
- Helpers: `FlushState` is `Column::flush`. `MergeOf` is the result of
  `merge_segments` (for each key, the value in the input with the highest id).
  `Get` is `Column::get` (memtable, then the list from its end).
- Shutdown: `sender` is `Compactor.sender` (the channel's sending half) and
  `store` says whether the `Store` value is alive. `DropStore` is dropping
  the `Store`: the compactor's `Drop` takes the sender (closing the channel)
  and then joins the worker. It requires empty memtables, since the Store
  has no `Drop` that flushes and an unflushed memtable is simply lost.
  `WorkerExits` is the worker's `recv` returning `Err` once the channel is
  closed and drained, which ends its loop and lets the join return.
- Restart: `Reopen` is `Store::open` on the same directory after the
  worker has exited. `OpenColumn` is `Column::open`:
  `LoadSegments` enumerates the segment files and sorts them by id
  (`SortByKey`), and `next_segment_id` is the last id plus one.

Each caller operation is one step because it holds the column's write lock
for the whole call. `Store::flush` releases the lock between columns, so it
is one step per column.

Fairness: `WF_vars(Compactor)`. The worker thread loops on `recv` and never
waits on anything but the channel and the column lock, which the caller holds
only for one call. Under it, `DropJoins` says that a dropped Store's join
returns: the worker drains the queue, finishes or fails an in-flight merge,
and exits. The one exception is `SnapshotOutOfIds`, the model's id bound
`SegIdBound` stopping a snapshot that the program would take; it is named
in the property so that the bound cannot hide a hang. The caller gets no fairness, because a program may stop
calling the store at any time. For the same reason deadlock is not checked:
a store nobody calls, with an idle compactor, is a legal final state.

### FstStore (with MC_FstStore)

Models `Store` in `src/src/fst/store.rs`: how `commit` fans each entry out
over the columns of its layout, and how the reads look the entries up.
Each column is taken at the level of FstColumn's abstract promise, a map in
which the last insert of a key wins. Flushes, merges and the compactor leave
that map unchanged, so they are not actions here. The properties therefore
judge the layout logic alone, separately from the column's own
`finish_merge` ordering bug.

- `layout` is the layout `Store::open` was given, chosen in `Init` from the
  constant set `Layouts`, so that one run covers several layouts.
- Variables: one per column of the layout. `kv_col` and `vk_col` are maps.
  `vk_btree` (Range, `value||key`) and `pk_k_btree` (Dictionary,
  `birth_key||key`) are sets of pairs. `k2pk`, `pk2v` and `v2pk` are the
  Dictionary maps. `inserted` is the progress count.
- History variables `last` (the last value written per key) and `entries`
  are what the spec says the store holds.
- `Commit(batch)` is one step, because `commit` takes `&mut self`. It is a
  `FoldLeft` of `LayoutEntry` over the batch, starting from an empty
  per-commit `value_cache`. `DictionaryEntry` is the Dictionary arm of the
  match. It looks up the birth key in the cache, then in `value_to_birth_key`,
  then falls back to the key itself (`BirthKey`), and writes the columns in
  the code's order.
- `GetValue`, `GetKeyForValue` and `GetKeysForValue` are the read methods.
  Prefix scans are exact pair matches. The benchmarks' Range store pairs
  `KeyCodec` with `TimestampCodec`, both fixed-width, and Codecs checks the
  byte-level lookup that this abstraction stands for (`RangeKeysSound`).

### FstScan (extends FstColumn)

Models `Column::keys_with_prefix` and `prefix_upper_bound`
(`src/src/fst/segment.rs`). It extends FstColumn, and its configuration makes
the keys concrete byte strings (`Keys <- ColKeys`, sequences over
`0 .. ByteMax`) with one value and one column, so the column moves by FstColumn's own inserts, flushes, synchronous merges and
compactor merges. The scan is an operator evaluated on each reachable state.
That is exact, because `keys_with_prefix` runs under the column's read lock.

- `ByteMax` stands for `u8::MAX`. `prefix_upper_bound` only tests whether a
  byte equals the maximum, so `{0, 0xFF}` are the two cases that matter.
- `LexLt` is Rust's order on `Vec<u8>`.
- `Bump` is the loop of `prefix_upper_bound`: increment the last non-max byte
  and truncate after it.
- `Stream` is a `BTreeMap::range` or an FST `range().ge(lo).lt(hi)`.
  `TakePrefixed` is the open-ended branch, which stops at the first key
  without the prefix.
- `MemScan` and `SegScan` are the memtable part and one segment's part.
  Only the memtable part re-checks `starts_with` inside a bounded range.
- `KeysWithPrefix` folds over the memtable and then the segments, newest
  first, keeps the first copy of each key (`seen`), and sorts.

### SegmentFile (hosted by MC_ColumnFiles)

This module models the bytes of a segment (`src/src/fst/segment.rs`) as pure
operators. FstColumn treats a segment's files as whole values. It is checked
inside the `column` run: MC_ColumnFiles extends MC_FstColumn and
SegmentFile. Its operators are pure. The run checks them for every bounded
input once, in the column's initial state (`Init => \A input : ...`), so
the column's states are not multiplied by the inputs.

- The machine is scaled down:
  - a byte has `ByteBase = 2` values;
  - the length field has `LenDigits = 2` bytes, so `u32::MAX` is 3;
  - offsets have `OffBits = 3` bits, so the `u64` limit is 8.

  Values too large for their length field and files past the offset range
  are both among the inputs TLC enumerates. Keys are ranks in byte order,
  since the FST only compares them.
- The writer is a record of the FST entries, the values bytes, the running
  offset and the error `?` returned with:
  - `BuilderInsert` is `MapBuilder::insert` with its order check;
  - `WriteValue` is `write_value`: the `u32::try_from` check, then the
    little-endian length (`ToLE`), then the bytes;
  - `AdvanceOffset` is the `checked_add`;
  - `Emit` is one turn of the write loop;
  - `FlushFiles` is the loop of `Column::flush` over the memtable in
    BTreeMap order.
- `ReadValueFromPath` is `read_value_from_path`: seek, then `read_exact`
  the length, then `read_exact` the value. It gives `Absent` on EOF.
- `ReadAt` is `ValueReader::read_at`. It keeps the cached `pos` apart from
  where the `BufReader` really is (`cur`), and it seeks only when `pos`
  differs from the requested offset.
- `MergeSegmentFiles` is `merge_segments`:
  - `HeapBefore` is the order of `Reverse((key, Reverse(seg_id), idx, off))`;
  - `PushNext` is `streams[idx].next()`;
  - `MergeLoop` is the `while let` loop. It skips a key equal to
    `last_emitted` without reading its value, and otherwise reads it
    through the input's reader and emits it.
- The inputs are of two kinds:
  - a non-empty memtable over keys `{1, 2, 3}` with values of up to 4
    bytes;
  - two flushed segments with ids 0 and 1, in either list order (after a
    merge the list does not follow id order), with values of up to 1 byte.

### Codecs (hosted by MC_StoreCodecs)

This module models the benchmark codecs (`src/src/bench_codecs.rs`) and the
Range layout's use of them in `src/src/fst/store.rs`. Codecs have no state,
so every `encode` and `decode` is an operator:

- `DecodeKey`, `DecodeU64` and `DecodeTx` are the `try_into` of a
  fixed-length array; a slice of any other length gives `Invalid` (the
  codec's `InvalidInput`).
- `U64ToLE` and `U64FromLE` are `to_le_bytes` and `from_le_bytes` of
  `AmountCodec` and `TimestampCodec`.
- `AddressCodec` accepts every slice. It is the one variable-width codec
  (`FixedWidth`).
- `RangeKey` is Range's `concat(vbytes, kbytes)` entry of `commit`.
- `RangeKeysForValue` is Range's `get_keys_for_value`. It takes every key
  with the value's prefix (`keys_with_prefix` at its contract, which FstScan
  checks), strips the prefix, and decodes the rest with the key codec,
  returning the first decode error.

The widths are scaled down:
- bytes have 2 values;
- `Key16` and `u64` have 2 bytes;
- `TxHash` has 3 bytes;
- addresses have up to 2 bytes, so one address can extend another.

MC_StoreCodecs extends MC_StoreOptions and Codecs. It checks the operators
over every input of these widths in the store's initial states with the
default options. A Range store is taken to have committed any set of at most
two (key, value) pairs, since Range never removes an entry.

### Sizing (with MC_StoreOptions)

Models `compute_segment_size`, `StoreOptions::from_estimates` and
`StoreOptions::default` (`src/src/fst/store.rs`). The policy has no state,
so its operations are operators. `MIN_SEGMENT_ROWS` and
`TARGET_MAX_SEGMENTS` are the constants `MinSegmentRows` and
`TargetMaxSegments`, and the `u64`/`usize` arithmetic is done on a word of
`Width` bits with the release build's wrap (`WrapAdd`). TLC's integers are
32-bit, so the real width cannot be enumerated; on a 6-bit word TLC
enumerates every row estimate, the wrapping ones included. `SpecSegmentSize`
is spec section 4.6 with the ceiling defined by its meaning (`Ceil`), not
by the code's add-and-divide.

`estimate` and `options` are the caller's estimate and the `StoreOptions`
built from it (or `Default`), which are handed to `Store::open_with_options`.
`SizingInit` chooses them over every estimate. `MC_StoreOptions` runs FstStore
opened with them. `open_with_options` takes the options by value and keeps
only the columns' `segment_size`, which FstStore abstracts. So the options
are checked in the initial states, and the store's first step drops them,
which keeps the store's states from being multiplied by every estimate.

### BackendStore (instantiates FstStore)

Models `commit` and the reads of the RocksDB, redb, libmdbx, parity-db and
fjall stores, of the parity-db store that `parity_bench` uses
(`src/src/parity_store.rs`, backend `"ParityBench"`: the same change list
and `Db::get`, without a progress tracker, so its commit leaves `inserted`
unchanged), and the FST engine's own commit under engine errors. All six
use the FST store's layout fan-out. What differs is how a commit reaches the
engine.

`backend` is chosen in `Init` from `Backends`. `db` holds the engine's
committed columns. One `Commit(impl, batch, fail, bad)` step folds
`EntryOps` over the batch. The fold produces the sequence of engine calls the
code makes (`ReadV2pk`, `Put`), the state it reads back, and the
per-commit value cache.

The fault model: call number `fail` of the commit returns an error. With redb,
the `value_to_birth_key` reads of the entries in `bad` fail silently.

- An atomic backend (RocksDB WriteBatch with `write_opt`, redb and libmdbx
  write transactions, the parity-db change list) then writes nothing.
- fjall keeps the calls made before the failing one. The FST engine keeps
  those and the failing insert too (`Applied`).
- `committedReads` (RocksDB `get_cf`, parity `Db::get`) makes the Dictionary
  lookup read `db`, not the commit's own staged writes.

Reads under faults: with `IterErrors`, the iterator of a
`get_keys_for_value` scan may return an error at any position (`IterFails`).
`KeysScan` is the scan loop. RocksDB, redb and libmdbx loop with
`while let Some(Ok((k, _))) = iter.next()`, which ends at the error and
returns `Ok` with the keys read so far. fjall (`kv?`), both parity-db stores
(`iter.next()?`) return the error. The FST engine collects the keys under
the read lock with no fallible iterator. The per-backend operators
(`RocksDbKeysForValue` ... `FstKeysForValue`) say which loop each uses.

The caller of a failed commit is modelled after spec section 7: it retries
the same batch (`retry`) until that batch succeeds.

`LayoutSpec` is FstStore's `Spec` under the refinement mapping
`LS == INSTANCE FstStore WITH kv_col <- db.kv, ...`. Each backend step must
be an FstStore `Commit` of the same batch, or leave the mapped state
unchanged.

### BenchDriver (with MC_BenchDriver)

Models `run_dictionary` and `AddressStream` (`src/src/bench_common.rs`; the
copy in `src/src/parity_bench.rs` is the same code without the flush).

Producers:
- Each producer thread is `ppc[t]`.
- `Fetch(t)` is `counter.fetch_add` with the `idx >= total` break and the
  address choice (`NextAddr`): a fresh address when `idx % 5 = 0` or `last`
  is `None`, else the thread's `last`. A fresh address is named by the
  thread and index that drew it.
- `Send(t)` is the blocking `tx.send` into a channel of `Cap` slots. It fails,
  ending the thread, once the receiver is gone.

Consumer:
- `Recv` is one iteration of `for i in 0..total`: a blocking `recv`, then the
  push, then a commit once the batch holds `BATCH` entries.
- `FinalCommit`, `Join` and `Flush` follow the loop.
- A failed commit or flush (`CommitBatch`, `StoreErrors`) returns early. The
  stream is dropped with it, which closes the receiver (`rxOpen`).
- The store is a map from key to address. `got` is a history of received
  indices.

The other jobs of `run_all_parallel`: `job` is chosen in `Init` from
`Jobs`, since each job runs on its own thread with its own store and shares
nothing with the others. For `run_plain`, `run_index` and `run_range` there
are no producers. `Generate` is one iteration of their loop: it pushes key
`i` with a value made on the spot (`LocalVal`) and commits a full batch.
`FinalCommit` then commits the partial batch and goes straight to `Flush`
(`AfterLoop`).

Fairness: weak fairness for every thread's steps. These are OS threads, and
each of their steps is enabled until taken (a blocked `send` or `recv` is
simply not enabled). `Returned` lets the finished program stutter. Deadlock is
still checked for every other state, so "everyone blocked" would be reported.

## Runs

| Run | Config | Checks | Result |
|---|---|---|---|
| column | `MC_FstColumn_all.cfg` (module MC_ColumnFiles) | `TypeOK`, `NoKeyLost`, `FilesMatchSegments`, `DurableNewestWins`, `FlushReadBack`, `MergeNewestWins`, `ReopenReadsNewest`, `DropJoins`, `MergingClearedOrDead` | pass |
| column_compactor_panic | `MC_FstColumn_panic.cfg` | `MergingCleared` | violation (finding) |
| column_prefix_scan | `MC_FstScan.cfg` | `UpperBoundExact`, `PrefixScanExact` | pass |
| column_newer_wins | `MC_FstColumn_newer.cfg` | `NewerWins` | violation (findings) |
| store_layouts | `MC_FstStore_layouts.cfg` (module MC_StoreCodecs) | `TypeOK`, `KeysForValueComplete`, `SizingMatchesSpec`, `CodecsExact`, `RangeKeysSound` | pass |
| store_range_exact | `MC_FstStore_range_exact.cfg` | `KeysForValueExact` | violation (finding) |
| store_dictionary_newer_wins | `MC_FstStore_dictionary_newer.cfg` | `NewerWins` | violation (finding) |
| backend_atomic | `MC_BackendStore_atomic.cfg` | `TypeOK`, `LayoutSpec` | pass |
| backend_range_retry | `MC_BackendStore_range_retry.cfg` | `RetryRepairs` | pass |
| backend_read_errors | `MC_BackendStore_read_errors.cfg` | `ReadsComplete` | violation (findings) |
| backend_dictionary_retry | `MC_BackendStore_dictionary_retry.cfg` | `RetryRepairs` | violation (finding) |
| driver_dictionary | `MC_BenchDriver.cfg` | `TypeOK`, `ExactlyOnce`, `FreshAddressBound`, `Terminates` | pass |

Every property of a passing run has a mutant in PROJECT.json. A mutant is a
plausible bug in the mapped code, and TLC finds it under the run's own
configuration.

### Column runs

Bounds: one column, two keys, two values, `MergeThreshold = 4` (the code's
`MERGE_THRESHOLD`), ids below 6 (`SegIdBound = 6`), and `SegmentSize = 1`,
so every insert seals a segment. That is the smallest setting in which
flushes race a merge. The ids are used up exactly by the cases that matter:
- four segments (ids 0 to 3), which start a merge;
- the merge output (id 4);
- a flush or a `multi_way_merge` during the merge (id 5).

Every mutant of the run is still found with this bound. The run uses no
symmetry, because it also checks liveness properties. It visits about
109,000 states in about 20 seconds. That includes the SegmentFile checks,
over about 36,000 file inputs in the initial state. The violation run `column_newer_wins` uses
`SegmentSize = 1` and ids below 8.

What the runs show:

- `FlushReadBack` holds. A flush fails exactly when some value is longer
  than `u32::MAX` or the file reaches the `u64` offset limit. Otherwise the
  FST holds exactly the memtable's keys, each at the offset the
  specification's layout gives (the sum of the records before it), and
  `read_value_from_path` returns each key's value. The mutant writes the
  length big-endian.
- `MergeNewestWins` holds. Over two flushed segments in either list order,
  `merge_segments` writes byte for byte the files a flush of the newest
  value of every key writes, and fails in the same way when the merged file
  does not fit the offsets. This rests on three things together: the heap
  breaks ties by `Reverse(seg_id)`, `last_emitted` drops the older copies,
  and `ValueReader` seeks whenever its cached position is stale after a
  skipped record. The mutant lets the reader seek only backwards: it then
  reads the skipped older record. A heap that orders ids ascending is
  also caught.

- `NoKeyLost` holds: every key ever inserted stays visible, through any
  interleaving of inserts, `multi_way_merge` and the compactor.
- `FilesMatchSegments` holds: each segment in the list is backed by files
  that hold its data. This depends on `snapshot_for_merge` reserving the
  output id under the lock. Without that reservation, a concurrent flush
  takes the same id and the merge overwrites its files.
- `MergingCleared` (liveness: `merging`, once set, is cleared again) fails
  in the run `column_compactor_panic`, in 10 steps:
  1. Four inserts seal four segments; the compactor snapshots them.
  2. It opens and maps their four `.fst` files (`OpenInputs`).
  3. `multi_way_merge`, which ignores `merging`, merges the same segments
     into segment 5 and deletes their files.
  4. The compactor's `File::open(val_path).unwrap()` panics. The worker
     dies and `merging` stays `TRUE`; every later compaction request of
     the column is lost. Drop's join returns, so `DropJoins` still holds.

  Spec section 7 says a failed compaction is logged and `merging` is
  cleared. The code does that only when the inputs are already gone at the
  `.fst` opens (`MergeFails`, an `Err` of `merge_segments`). We also saw
  that `merging` is only ever set while the single compactor thread is
  inside that very merge, or after it died. The `if self.merging` early
  return in `snapshot_for_merge` therefore never fires. Requests that arrive during a
  merge wait in the channel.
- `MergingClearedOrDead` holds in the run `column`, under weak fairness of
  the compactor thread: `merging`, once set, is cleared again unless the
  worker has died. When a `multi_way_merge` has deleted the inputs before
  the compactor opens their `.fst` files, `merge_segments` returns `Err`
  and the worker's error branch clears `merging` (`MergeFails`). The
  mutant whose error branch forgets to clear it is caught. The panic at the
  `.val` opens is the one way left to leave `merging` set.
- `DurableNewestWins` holds: for every key not in the memtable, the segment
  files on disk, read in id order as `Column::open` reads them, give the
  key's last inserted value. This holds even in the states where the
  in-memory list is misordered (the `NewerWins` finding below), because the
  merge output's id is older than any segment sealed during the merge.
- `ReopenReadsNewest` holds (an action property): after a reopen every key
  reads its last inserted value (spec section 8, scenario 2). So a restart
  repairs the misordering of the finding. The mutant that keeps the file
  enumeration order instead of sorting by id breaks it.
- `DropJoins` holds (liveness): once the Store is dropped the compactor
  thread exits, so `Drop` does not hang, with requests queued or a merge in
  flight. The mutant that drops the Store without taking the sender leaves
  the worker blocked in `recv` forever.
- `NewerWins` fails in 8 steps:
  1. Four inserts seal four segments.
  2. The compactor snapshots them and reserves id 4.
  3. An insert seals segment 5 with a new value for a key.
  4. The merge finishes. `finish_merge` appends segment 4 after segment 5.
  5. `get` scans from the end and returns the old value.

  This is the finding in PROJECT.json. The configuration checks
  `SpecIO`, which adds `MultiWayMergeFails`: an I/O error of
  `merge_segments` inside `multi_way_merge`, raised while it opens its
  inputs. TLC then reports a shorter trace, the second finding:
  1. Two inserts seal segments 0 and 1.
  2. `multi_way_merge` takes the list with `mem::take`, and
     `merge_segments(..)?` fails.
  3. The list stays empty, so `get(k1)` is `None`, although both files are
     intact on disk and a reopen would find them. Spec section 7 says a
     failed compaction leaves the segment list untouched.

  With `SPECIFICATION Spec` the configuration isolates the `finish_merge`
  trace.

The prefix-scan run uses the six byte strings of length 1 and 2 over
`{0, 0xFF}`, every prefix of length 0 to 2, `SegmentSize = 2`,
`MergeThreshold = 2` and ids below 3. That gives a memtable and two
segments holding overlapping keys, and merges in between. The run reaches
about 127,000 states.

- `UpperBoundExact` holds: `[p, prefix_upper_bound(p))`, or `[p, ...)` when
  there is no bound, selects exactly the keys with prefix `p`. This covers
  the empty prefix and prefixes that end in 0xFF. An all-0xFF prefix has no
  bound, yet every key at or above it starts with it, so the `break` in the
  open-ended branch never fires.
- `PrefixScanExact` holds: the result is strictly ascending, with each key
  once, and is exactly the set of resolved keys with the prefix (spec
  section 8). The segment streams do not re-check `starts_with`, so they
  rely on `lt(end)`. The mutant without it returns keys of the next prefix.

### FstStore runs

Bounds: three keys, two values, batches of up to 2 entries, 3 commits (4
where a run needs it), and keys and values symmetric. Two entries per batch
are enough to repeat a value, or a key, inside one commit, which is where the
`value_cache` matters. Three keys let two keys share a birth key while a
third rebinds.

- `KeysForValueComplete` holds for Range and Dictionary: every key is
  returned by `get_keys_for_value` of its current value.
- `SizingMatchesSpec` holds: for every row estimate whose
  `approx_rows + TARGET_MAX_SEGMENTS - 1` does not wrap, and entry sizes and
  budgets from 0 to 4 and the word's maximum, `from_estimates` gives the
  section 4.6 size (ceiling, clamp to the budget, the zero-row default).
  The mutant with a floor for the ceiling breaks it.
- Above `u64::MAX - 31` the release build's wrap of
  `approx_rows + TARGET_MAX_SEGMENTS - 1` gives `min(MIN_SEGMENT_ROWS,
  mem_cap)` where the spec's formula gives a larger size. No benchmark
  passes such an estimate, and a violation run would need a run slot, so
  this departure is described (hazard store.rs:522), not checked.
- `CodecsExact` holds. Every bench codec decodes its own encodings back
  (spec section 8), and it accepts only canonical encodings, so two byte
  keys never decode to one value. The mutant reads the `u64` big-endian.
- `RangeKeysSound` holds. With `KeyCodec`, Range's `get_keys_for_value`
  never returns the key of another value:
  - with a fixed-width value codec it returns exactly the keys committed
    with the value;
  - with `AddressCodec`, a value that extends another one puts its entries
    under the shorter value's prefix. Their suffix is longer than
    `KEY_LEN`, so `KeyCodec::decode` fails and the call returns
    `InvalidInput`. That is an error, but never a wrong key.

  The mutant lets the key decoder take the first `KEY_LEN` bytes of a
  longer slice, and a foreign key comes back. The store's own tests use
  `BytesCodec` for both keys and values. With that pairing the same
  ambiguity does return wrong keys (a lookup of `v` returns the rest of
  `v1`'s entry as a key). This is listed as the store.rs:173 hazard; it
  has no violation run, because no run slot is free.
- `KeysForValueExact` fails for Range (spec section 8 says "exactly"). After
  `(k1,v1)` and then `(k1,v2)`, `get_keys_for_value(v1)` still returns `k1`,
  because `value||key` entries are never removed.
- `NewerWins` fails for Dictionary. After `(k1,v1)`, the batch
  `(k1,v2),(k1,v1)` leaves `get_value(k1) = v2`. Step by step:
  1. `k1` is the birth key of `v1`.
  2. Binding `k1` to the new value `v2` makes `k1` also `v2`'s birth key, and
     the write `birth_key_to_value[k1] = v2` overwrites `v1`'s entry.
  3. `(k1,v1)` then resolves `v1` to birth key `k1`, which now reads `v2`.
- `ProgressMatchesSpec` (defined in FstStore, checked by no run of the
  project) fails for Dictionary when checked with `Layouts = {"Dictionary"}`
  and `MaxBatch = 2`. In a batch `(k1,v1),(k2,v1)`, the cache returns
  `is_new = true` for the second occurrence too, so the count grows by 8
  where spec section 6 says 6. It is listed as a hazard (store.rs:194)
  rather than a run, because the violation runs are spent on the findings
  above.

### Backend runs

Bounds: two keys, two values, batches of up to 2 entries, 3 successful
commits and 4 attempts. The Dictionary layout is used because it has the most
calls per entry (up to 5), and an error may hit any of them (`Failures`).

- `LayoutSpec` holds for RocksDB, redb, libmdbx and parity-db together
  (about 70,000 states): with an engine error possible at any call, each
  commit refines an FstStore commit or changes nothing.

  The per-commit value cache is what keeps the committed-read backends
  correct. Without it, RocksDB and parity-db read `value_to_birth_key` from
  the committed db, miss a value staged earlier in the same batch, and give
  it a second birth key. That is the mutant `ParityCommitNoCache`.
- The FST engine itself is the backend `"Fst"` (`FstCommit`). Its commit
  also stops at the first failing insert, but `Column::insert` puts the
  entry into the memtable before the seal that fails, so the failing insert
  stays applied (`Applied`, `keepsFailedPut`).
- `RetryRepairs` holds for fjall, the FST engine and `parity_bench`'s
  parity-db store with Range (about 27,000 states). After a failed commit
  leaves `key_to_value` written without `value||key`, a successful retry of
  the batch restores consistency.
- The same run lets the scan's iterator fail at any position. These three
  backends return the error, so their scans are complete whenever they
  return `Ok`; that follows from the `?` in their loops and is not checked
  as a property of its own. The backends whose loops swallow the error are
  the `ReadsComplete` findings below.
- `RetryRepairs` fails for fjall and for the FST engine with Dictionary;
  each backend alone violates it. For fjall, in 3 steps:
  1. `(k1,v1)` fails after its `value_to_birth_key` insert.
  2. The retry finds `v1` interned under birth key `k1`, so it treats the
     value as known and skips `birth_key_to_value`.
  3. `get_value(k1)` is then `None` for good.

  In the FST engine the same happens when the `value_to_birth_key` insert
  itself fails (`src/src/fst/store.rs:205`): its seal errors, but the entry
  stays in the memtable, so the retry sees the value as known.
- `ReadsComplete` fails for redb, RocksDB and libmdbx with Dictionary (two
  findings; the configuration's comment says how to isolate each):
  1. redb, even with `IterErrors = FALSE`: the failed read of
     `value_to_birth_key` inside commit is swallowed by
     `if let Ok(Some(pk))`, so the value is interned a second time.
     `get_keys_for_value` then follows only the newest birth key and misses
     the keys of the first.
  2. each of the three, with `IterErrors = TRUE`: after one commit of
     `(k1,v1)`, a scan whose iterator fails at its first entry returns
     `Ok([])`. Spec section 7 says I/O errors surface to the caller.

### Driver run

Bounds: two producer threads, `total = 6` (two multiples of five, 0 and 5),
`BATCH = 4` (so the final batch is partial), one channel slot (so producers
block), and failing commits and flush, for each of the four jobs. The run
reaches about 13,500 states, almost all of them in the dictionary job.

- `ExactlyOnce` holds: every claimed index is received once. A
  `run_dictionary` that returns `Ok` has committed all `total` keys,
  including the final partial batch, and so do `run_plain`, `run_index`
  and `run_range`.
- `FreshAddressBound` holds: the dictionary has at most one address per
  multiple of five, plus one per extra producer thread. The bound depends on
  `last` being kept in both branches of the address choice.
- `Terminates` holds: `run_dictionary` always returns and every producer ends,
  also when a commit fails while producers are blocked on the full channel.
  Dropping the stream closes the receiver and fails their `send`.
- `TypeOK` includes that the pending batch never reaches `BATCH` entries
  uncommitted. The mutant is an off-by-one in the commit condition.

## Not modelled yet, and the plan

In order of importance:

1. **Crash leftovers**: `Column::open` after a crash in the middle of a
   seal or a merge, with a truncated `.fst` or a missing `.val`. `Reopen`
   models a clean restart only (empty memtables, joined compactor), and the
   files are modelled as complete or absent. Read from the code, such a
   leftover makes `load_segments` return `CorruptSegment` (a `.fst` without
   its `.val`) or `Map::new` fail (a truncated `.fst`), so `Store::open`
   fails, where spec section 7 calls them harmless and rejected.
2. **Other I/O faults** in FstColumn: a failing flush or seal at column
   level (BackendStore's `FstCommit` models them at store level).
3. **Merger refinement**: SegmentFile checks `merge_segments` as a pure
   function against a flush of the newest table. FstColumn still applies
   its result in one step (`MergeOf`), which is exact because the output
   files only become visible at `finish_merge`.
4. `ProgressTracker::record`'s saturating add, which only differs from
   `+` at `u64::MAX`.

Item 1 is a divergence seen in the code; it would need its own violation
run.

The run budget (12 runs) is fully used. New checks must share a
configuration with an existing run, or replace one.

Left out for good:

- CLI parsing, timing and progress printing;
- the threads and joins of `run_all_parallel`: its jobs use separate
  directories and share nothing, so each is checked on its own;
- the per-backend bench binaries (`src/src/fst/bench.rs` and the like).
  They import a `NamedJob` type and call `run_all_parallel` with named jobs,
  but `bench_common.rs` defines no `NamedJob` and its `run_all_parallel`
  takes plain boxed closures, so they do not build against this library as
  it stands;
- the internal byte format of `.fst` files, which belongs to the `fst`
  crate (SegmentFile models the map as its sorted key/offset pairs). The
  `.val` format is modelled in SegmentFile;
- engine durability. redb uses `Durability::None` and libmdbx uses
  `UtterlyNoSync`; what survives a crash is up to the engines, not this
  source;
- the per-backend copies of the codecs in `src/src/parity_bench.rs`, which
  are the same conversions as `bench_codecs.rs`.
