----------------------------- MODULE FstColumn -----------------------------
(***************************************************************************)
(* The columns of the FST engine (src/src/fst/segment.rs, Column) and the  *)
(* background Compactor thread (src/storages/fst/src/compactor.rs) that    *)
(* merges their segments.                                                  *)
(*                                                                         *)
(* A column holds a memtable, a list of immutable segments and the         *)
(* next_segment_id counter; every segment also exists on disk as a pair of *)
(* files named by its id.  Byte keys and values are abstracted to model    *)
(* values; a memtable, a segment or a file is a Table, a total function    *)
(* from Keys to Vals \cup {NoVal}.                                         *)
(*                                                                         *)
(* Two threads act on the columns.  The caller (the thread that owns the   *)
(* Store) inserts, flushes and runs the synchronous multi_way_merge; each  *)
(* of those takes the column's write lock for one call, so each is one     *)
(* atomic step here.  The compactor takes the write lock twice per merge   *)
(* (snapshot_for_merge, finish_merge) and runs merge_segments in between   *)
(* without any lock, so a merge is three steps between which the caller   *)
(* may act.                                                                *)
(***************************************************************************)
EXTENDS Integers, Sequences, FiniteSets, FiniteSetsExt

CONSTANTS
    Cols,            \* column indices of the Store
    Keys,            \* byte keys, abstracted
    Vals,            \* byte values, abstracted
    NoVal,           \* absence of a key in a table
    NoFile,          \* absence of a segment's files on disk
    SegmentSize,     \* StoreOptions.segment_size: memtable rows that trigger a seal
    MergeThreshold,  \* MERGE_THRESHOLD of the compactor
    SegIdBound       \* model bound: segment ids are drawn from 0..SegIdBound-1

ASSUME /\ NoVal \notin Vals
       /\ SegmentSize \in Nat \ {0}
       /\ MergeThreshold \in Nat \ {0}
       /\ SegIdBound \in Nat

VARIABLES
    memtable,         \* memtable[c]: the column's BTreeMap of recent writes
    segments,         \* segments[c]: Seq of [id, data], the Vec<Segment> in list order
    next_segment_id,  \* next_segment_id[c]
    merging,          \* merging[c]: the flag guarding overlapping compactions
    files,            \* files[c][id]: contents of col{c}_seg{id}.fst/.val, or NoFile
    requests,         \* the mpsc channel of column indices to the compactor
    cpc,              \* compactor thread: "recv", "merge", "values", "finish",
                      \* "exited", or "dead" (panicked)
    csnap,            \* compactor's snapshot: [col, merge_id, metas, merged]
    sender,           \* Compactor.sender is Some: the channel's sending half is open
    store,            \* the Store value: "open", or "dropped" (its Drop is joining)
    kv                \* history: kv[c][k] is the value of the last insert of k into c

colVars == <<memtable, segments, next_segment_id, merging, files>>
compVars == <<requests, cpc, csnap, sender>>
vars == <<colVars, compVars, store, kv>>

SegIds == 0 .. (SegIdBound - 1)
Table == [Keys -> Vals \cup {NoVal}]
EmptyTable == [k \in Keys |-> NoVal]
Rows(t) == Cardinality({k \in Keys : t[k] # NoVal})
Segment == [id : SegIds, data : Table]
SegIdsOf(segs) == {segs[i].id : i \in DOMAIN segs}

-----------------------------------------------------------------------------
(***************************************************************************)
(* Helpers translating the column's internal functions.                    *)
(***************************************************************************)

\* Column::flush on a column state [segs, next, files]: seal the memtable
\* into segment next (both files written, Segment pushed, id advanced,
\* memtable cleared); a no-op on an empty memtable.
FlushState(st, mt) ==
    IF mt = EmptyTable THEN st
    ELSE [segs  |-> Append(st.segs, [id |-> st.next, data |-> mt]),
          next  |-> st.next + 1,
          files |-> [st.files EXCEPT ![st.next] = mt]]

ColState(c) == [segs |-> segments[c], next |-> next_segment_id[c], files |-> files[c]]

\* Mutant: the heap orders equal keys by plain seg_id, so the oldest
\* copy is popped first and kept.
MergeOfOldestWins(fs, metas) ==
    [k \in Keys |->
        LET holders == {m \in metas : fs[m][k] # NoVal}
        IN  IF holders = {} THEN NoVal ELSE fs[Min(holders)][k]]

\* merge_segments: for every key, the value of the input with the highest
\* segment id that holds it (the heap ordered by (key, Reverse(seg_id))
\* pops the newest copy first and skips the older duplicates).  Inputs
\* are read from the files on disk by path.
MergeOf(fs, metas) ==
    [k \in Keys |->
        LET holders == {m \in metas : fs[m][k] # NoVal}
        IN  IF holders = {} THEN NoVal ELSE fs[Max(holders)][k]]

\* The segment loop of Column::get: from the end of the list to its
\* front, the first segment holding k wins.
SegsGet(segs, k) ==
    LET hits == {i \in DOMAIN segs : segs[i].data[k] # NoVal}
    IN  IF hits = {} THEN NoVal ELSE segs[Max(hits)].data[k]

\* Column::get: the memtable first, then the segments.
Get(c, k) ==
    IF memtable[c][k] # NoVal THEN memtable[c][k] ELSE SegsGet(segments[c], k)

\* The elements of a finite set S in ascending order of lt (sort_by_key):
\* the j-th element is the one with j - 1 elements below it.
SortByKey(S, lt(_, _)) ==
    [j \in 1 .. Cardinality(S) |->
        CHOOSE x \in S : Cardinality({y \in S : lt(y, x)}) = j - 1]

\* load_segments: one Segment for every id whose col{c}_seg files are on
\* disk, in directory order; Column::open sorts them by id.  The sorted
\* list is what the pair of calls yields whatever order read_dir gives.
LoadSegments(fs) ==
    LET ids == SortByKey({i \in SegIds : fs[i] # NoFile}, LAMBDA a, b : a < b)
    IN  [j \in DOMAIN ids |-> [id |-> ids[j], data |-> fs[ids[j]]]]

\* Mutant: the segments are not sorted after load_segments, and read_dir
\* lists them newest first.
OpenColumnUnsorted(fs) ==
    LET segs == LoadSegments(fs)
    IN  [segs  |-> [j \in DOMAIN segs |-> segs[Len(segs) + 1 - j]],
         next  |-> IF segs = <<>> THEN 0 ELSE segs[Len(segs)].id + 1,
         files |-> fs]

\* Column::open on the files fs: the sorted segments, next_segment_id one
\* past the last id (0 for none), an empty memtable, merging cleared.
OpenColumn(fs) ==
    LET segs == LoadSegments(fs)
    IN  [segs  |-> segs,
         next  |-> IF segs = <<>> THEN 0 ELSE segs[Len(segs)].id + 1,
         files |-> fs]

-----------------------------------------------------------------------------
Init ==
    /\ memtable = [c \in Cols |-> EmptyTable]
    /\ segments = [c \in Cols |-> <<>>]
    /\ next_segment_id = [c \in Cols |-> 0]
    /\ merging = [c \in Cols |-> FALSE]
    /\ files = [c \in Cols |-> [i \in SegIds |-> NoFile]]
    /\ requests = <<>>
    /\ cpc = "recv"
    /\ csnap = [col |-> CHOOSE c \in Cols : TRUE, merge_id |-> 0,
                metas |-> {}, merged |-> EmptyTable]
    /\ sender = TRUE
    /\ store = "open"
    /\ kv = [c \in Cols |-> EmptyTable]

SetColState(c, st) ==
    /\ segments' = [segments EXCEPT ![c] = st.segs]
    /\ next_segment_id' = [next_segment_id EXCEPT ![c] = st.next]
    /\ files' = [files EXCEPT ![c] = st.files]

-----------------------------------------------------------------------------
(***************************************************************************)
(* Caller actions.                                                         *)
(***************************************************************************)

\* Mutant: insert seals only when len() > segment_size (off by one).
InsertLateSeal(c, k, v) ==
    LET mt == [memtable[c] EXCEPT ![k] = v] IN
    /\ kv' = [kv EXCEPT ![c][k] = v]
    /\ IF Rows(mt) > SegmentSize
       THEN /\ next_segment_id[c] < SegIdBound
            /\ SetColState(c, FlushState(ColState(c), mt))
            /\ memtable' = [memtable EXCEPT ![c] = EmptyTable]
            /\ requests' = IF cpc = "dead" THEN requests ELSE Append(requests, c)
       ELSE /\ memtable' = [memtable EXCEPT ![c] = mt]
            /\ UNCHANGED <<segments, next_segment_id, files, requests>>
    /\ UNCHANGED <<merging, cpc, csnap, sender, store>>

\* Store::commit, one insertion: Column::insert under the write lock, and
\* compactor.request(c) when the insert sealed the memtable.
Insert(c, k, v) ==
    LET mt == [memtable[c] EXCEPT ![k] = v] IN
    /\ kv' = [kv EXCEPT ![c][k] = v]
    /\ IF Rows(mt) >= SegmentSize
       THEN /\ next_segment_id[c] < SegIdBound
            /\ SetColState(c, FlushState(ColState(c), mt))
            /\ memtable' = [memtable EXCEPT ![c] = EmptyTable]
            /\ requests' = IF cpc = "dead" THEN requests ELSE Append(requests, c)
       ELSE /\ memtable' = [memtable EXCEPT ![c] = mt]
            /\ UNCHANGED <<segments, next_segment_id, files, requests>>
    /\ UNCHANGED <<merging, cpc, csnap, sender, store>>

\* Store::flush for one column: Column::flush (the empty case is a no-op).
Flush(c) ==
    /\ memtable[c] # EmptyTable
    /\ next_segment_id[c] < SegIdBound
    /\ SetColState(c, FlushState(ColState(c), memtable[c]))
    /\ memtable' = [memtable EXCEPT ![c] = EmptyTable]
    /\ UNCHANGED <<merging, compVars, store, kv>>

\* Store::multi_way_merge for one column: Column::multi_way_merge.  It
\* flushes, returns if at most one segment is left, else takes ALL
\* segments (it does not look at merging), merges them into a segment
\* with a fresh id, makes that the only segment and deletes the inputs.
MultiWayMerge(c) ==
    LET st    == FlushState(ColState(c), memtable[c])
        metas == SegIdsOf(st.segs)
        mid   == st.next
    IN
    /\ st.next <= SegIdBound
    /\ Len(st.segs) > 1 => mid < SegIdBound
    /\ memtable' = [memtable EXCEPT ![c] = EmptyTable]
    /\ IF Len(st.segs) <= 1
       THEN SetColState(c, st)
       ELSE LET out == MergeOf(st.files, metas) IN
            SetColState(c, [segs  |-> <<[id |-> mid, data |-> out]>>,
                            next  |-> mid + 1,
                            files |-> [i \in SegIds |->
                                         IF i = mid THEN out
                                         ELSE IF i \in metas THEN NoFile
                                         ELSE st.files[i]]])
    /\ UNCHANGED <<merging, compVars, store, kv>>

-----------------------------------------------------------------------------
(***************************************************************************)
(* Compactor thread: while let Ok(idx) = rx.recv() { ... }                 *)
(***************************************************************************)

\* Mutant: snapshot_for_merge without `self.next_segment_id += 1`, so the
\* merge output id is not reserved.
SnapshotForMergeNoReserve ==
    /\ cpc = "recv"
    /\ requests # <<>>
    /\ requests' = Tail(requests)
    /\ LET c  == Head(requests)
           st == FlushState(ColState(c), memtable[c])
       IN IF merging[c]
          THEN UNCHANGED <<colVars, cpc, csnap>>
          ELSE /\ st.next + 1 <= SegIdBound
               /\ memtable' = [memtable EXCEPT ![c] = EmptyTable]
               /\ SetColState(c, st)
               /\ IF Len(st.segs) < MergeThreshold
                  THEN UNCHANGED <<merging, cpc, csnap>>
                  ELSE /\ merging' = [merging EXCEPT ![c] = TRUE]
                       /\ csnap' = [col |-> c, merge_id |-> st.next,
                                    metas |-> SegIdsOf(st.segs),
                                    merged |-> EmptyTable]
                       /\ cpc' = "merge"
    /\ UNCHANGED <<sender, store, kv>>

\* One iteration of the loop: rx.recv() yields column c and the compactor
\* calls snapshot_for_merge(MERGE_THRESHOLD) under c's write lock.  It
\* returns None at once if merging is set; otherwise it flushes the
\* memtable and returns None if fewer than MergeThreshold segments
\* remain; otherwise it reserves next_segment_id as the merge output id,
\* captures the ids of all segments and sets merging.
SnapshotForMerge ==
    /\ cpc = "recv"
    /\ requests # <<>>
    /\ requests' = Tail(requests)
    /\ LET c  == Head(requests)
           st == FlushState(ColState(c), memtable[c])
       IN IF merging[c]
          THEN UNCHANGED <<colVars, cpc, csnap>>
          ELSE /\ st.next + 1 <= SegIdBound
               /\ memtable' = [memtable EXCEPT ![c] = EmptyTable]
               /\ IF Len(st.segs) < MergeThreshold
                  THEN /\ SetColState(c, st)
                       /\ UNCHANGED <<merging, cpc, csnap>>
                  ELSE /\ SetColState(c, [st EXCEPT !.next = st.next + 1])
                       /\ merging' = [merging EXCEPT ![c] = TRUE]
                       /\ csnap' = [col |-> c, merge_id |-> st.next,
                                    metas |-> SegIdsOf(st.segs),
                                    merged |-> EmptyTable]
                       /\ cpc' = "merge"
    /\ UNCHANGED <<sender, store, kv>>

\* The rest of merge_segments, outside any lock: with every .val file
\* opened, the heap merge writes the output files col{c}_seg{merge_id}.
MergeSegments ==
    LET c == csnap.col
        out == MergeOf(files[c], csnap.metas)
    IN
    /\ cpc = "values"
    /\ \A m \in csnap.metas : files[c][m] # NoFile
    /\ files' = [files EXCEPT ![c][csnap.merge_id] = out]
    /\ csnap' = [csnap EXCEPT !.merged = out]
    /\ cpc' = "finish"
    /\ UNCHANGED <<memtable, segments, next_segment_id, merging, requests, sender, store, kv>>

\* The first loop of merge_segments: File::open, Mmap::map and Map::new of
\* every input .fst, with no lock held.  An unlinked file stays readable
\* through its mapping, so the inputs' keys are now fixed.
OpenInputs ==
    LET c == csnap.col IN
    /\ cpc = "merge"
    /\ \A m \in csnap.metas : files[c][m] # NoFile
    /\ cpc' = "values"
    /\ UNCHANGED <<colVars, requests, csnap, sender, store, kv>>

\* The value readers: File::open(val_path).unwrap().  A multi_way_merge
\* that deleted the inputs since their .fst files were opened makes the
\* unwrap panic: the worker thread unwinds, dropping the receiver and the
\* queued requests, and merging is never cleared.
CompactorPanics ==
    LET c == csnap.col IN
    /\ cpc = "values"
    /\ \E m \in csnap.metas : files[c][m] = NoFile
    /\ cpc' = "dead"
    /\ requests' = <<>>
    /\ UNCHANGED <<colVars, csnap, sender, store, kv>>

\* Mutant: the error branch logs and goes back to recv without clearing
\* merging.
MergeFailsKeepsMerging ==
    LET c == csnap.col IN
    /\ cpc = "merge"
    /\ \E m \in csnap.metas : files[c][m] = NoFile
    /\ cpc' = "recv"
    /\ UNCHANGED <<colVars, requests, csnap, sender, store, kv>>

\* merge_segments fails (File::open of an input returns an error): the
\* compactor takes the write lock and clears merging.
MergeFails ==
    LET c == csnap.col IN
    /\ cpc = "merge"
    /\ \E m \in csnap.metas : files[c][m] = NoFile
    /\ merging' = [merging EXCEPT ![c] = FALSE]
    /\ cpc' = "recv"
    /\ UNCHANGED <<memtable, segments, next_segment_id, files, requests, csnap, sender, store, kv>>

\* Mutant: finish_merge replaces the whole list by the merged segment,
\* forgetting segments flushed while the merge ran.
FinishMergeReplacesAll ==
    LET c == csnap.col IN
    /\ cpc = "finish"
    /\ segments' = [segments EXCEPT ![c] =
                      <<[id |-> csnap.merge_id, data |-> csnap.merged]>>]
    /\ merging' = [merging EXCEPT ![c] = FALSE]
    /\ files' = [files EXCEPT ![c] =
                   [i \in SegIds |-> IF i \in csnap.metas THEN NoFile ELSE @[i]]]
    /\ cpc' = "recv"
    /\ UNCHANGED <<memtable, next_segment_id, requests, csnap, sender, store, kv>>

\* Column::finish_merge under the write lock: drop the inputs from the
\* list, push the merged segment at the END of the list, clear merging
\* and delete the input files.
FinishMerge ==
    LET c == csnap.col
        notInput(s) == s.id \notin csnap.metas
    IN
    /\ cpc = "finish"
    /\ segments' = [segments EXCEPT ![c] =
                      Append(SelectSeq(@, notInput),
                             [id |-> csnap.merge_id, data |-> csnap.merged])]
    /\ merging' = [merging EXCEPT ![c] = FALSE]
    /\ files' = [files EXCEPT ![c] =
                   [i \in SegIds |-> IF i \in csnap.metas THEN NoFile ELSE @[i]]]
    /\ cpc' = "recv"
    /\ UNCHANGED <<memtable, next_segment_id, requests, csnap, sender, store, kv>>

\* rx.recv() returns Err once the sender is gone and the channel is empty
\* (queued indices are still delivered first): the worker leaves its loop
\* and the thread ends.
WorkerExits ==
    /\ cpc = "recv"
    /\ requests = <<>>
    /\ ~sender
    /\ cpc' = "exited"
    /\ UNCHANGED <<colVars, requests, csnap, sender, store, kv>>

\* Mutant: Drop for Compactor joins without taking the sender first.
DropStoreKeepsSender ==
    /\ store = "open"
    /\ \A c \in Cols : memtable[c] = EmptyTable
    /\ store' = "dropped"
    /\ UNCHANGED <<colVars, requests, cpc, csnap, sender, kv>>

\* The caller drops the Store when run_* returns, after its Store::flush,
\* so every memtable is empty.  Drop for Compactor takes the sender
\* (closing the channel) and then joins the worker thread; the caller
\* blocks in the join until the worker has exited.
DropStore ==
    /\ store = "open"
    /\ \A c \in Cols : memtable[c] = EmptyTable
    /\ store' = "dropped"
    /\ sender' = FALSE
    /\ UNCHANGED <<colVars, requests, cpc, csnap, kv>>

\* The join has returned and Store::open is called on the same directory
\* (the FST bench reopens every store for its final multi_way_merge).
\* Each column is rebuilt by Column::open from its files alone, and
\* Compactor::new starts a worker on a fresh channel.
Reopen ==
    /\ store = "dropped"
    /\ cpc \in {"exited", "dead"}
    /\ LET st == [c \in Cols |-> OpenColumn(files[c])] IN
       /\ segments' = [c \in Cols |-> st[c].segs]
       /\ next_segment_id' = [c \in Cols |-> st[c].next]
    /\ merging' = [c \in Cols |-> FALSE]
    /\ store' = "open"
    /\ sender' = TRUE
    /\ cpc' = "recv"
    /\ UNCHANGED <<memtable, files, requests, csnap, kv>>

-----------------------------------------------------------------------------
Caller ==
    \/ store = "open" /\ \E c \in Cols :
        \/ \E k \in Keys, v \in Vals : Insert(c, k, v)
        \/ Flush(c)
        \/ MultiWayMerge(c)
    \/ DropStore
    \/ Reopen

Compactor ==
    \/ SnapshotForMerge
    \/ OpenInputs
    \/ MergeSegments
    \/ CompactorPanics
    \/ MergeFails
    \/ FinishMerge
    \/ WorkerExits

Next == Caller \/ Compactor

\* The compactor thread is never descheduled forever; the caller may stop.
Spec == Init /\ [][Next]_vars /\ WF_vars(Compactor)

\* An I/O error of merge_segments inside Column::multi_way_merge, raised
\* while it opens and maps its inputs (File::open, Mmap::map, Map::new),
\* before any output file exists.  The segment list was already taken
\* with mem::take and the id reserved; `?` returns with the list left
\* empty.  The input files stay on disk.
MultiWayMergeFails(c) ==
    LET st == FlushState(ColState(c), memtable[c]) IN
    /\ st.next < SegIdBound
    /\ Len(st.segs) > 1
    /\ memtable' = [memtable EXCEPT ![c] = EmptyTable]
    /\ SetColState(c, [segs |-> <<>>, next |-> st.next + 1, files |-> st.files])
    /\ UNCHANGED <<merging, compVars, store, kv>>

\* The column under I/O faults of the synchronous merge.
NextIO == Next \/ (store = "open" /\ \E c \in Cols : MultiWayMergeFails(c))

SpecIO == Init /\ [][NextIO]_vars /\ WF_vars(Compactor)

-----------------------------------------------------------------------------
(***************************************************************************)
(* Properties.                                                             *)
(***************************************************************************)

\* Types; a memtable never keeps segment_size rows after a call (the
\* sizing policy's memory budget relies on it).
\* Model bound: the worker's next snapshot_for_merge would draw a segment
\* id at or beyond SegIdBound, so the model cannot take it.
SnapshotOutOfIds ==
    /\ cpc = "recv"
    /\ requests # <<>>
    /\ ~merging[Head(requests)]
    /\ FlushState(ColState(Head(requests)), memtable[Head(requests)]).next + 1 > SegIdBound

TypeOK ==
    /\ memtable \in [Cols -> {t \in Table : Rows(t) < SegmentSize}]
    /\ \A c \in Cols : segments[c] \in Seq(Segment)
    /\ next_segment_id \in [Cols -> 0 .. SegIdBound]
    /\ merging \in [Cols -> BOOLEAN]
    /\ files \in [Cols -> [SegIds -> Table \cup {NoFile}]]
    /\ requests \in Seq(Cols)
    /\ cpc \in {"recv", "merge", "values", "finish", "exited", "dead"}
    /\ sender \in BOOLEAN
    /\ store \in {"open", "dropped"}
    /\ csnap \in [col : Cols, merge_id : SegIds, metas : SUBSET SegIds, merged : Table]
    /\ kv \in [Cols -> Table]

\* No key ever inserted into a column becomes invisible to Column::get,
\* whatever the interleaving of inserts, flushes, the synchronous
\* multi_way_merge and the compactor's snapshot/merge/finish.
NoKeyLost ==
    \A c \in Cols, k \in Keys : kv[c][k] # NoVal => Get(c, k) # NoVal

\* Every segment in a column's list is backed by the files of its id, and
\* they hold that segment's data: reads open values files by path, so a
\* file of a live segment must never be deleted or rewritten (the merge
\* output id is reserved before the lock is released).
FilesMatchSegments ==
    \A c \in Cols : \A i \in DOMAIN segments[c] :
        files[c][segments[c][i].id] = segments[c][i].data

\* Newer-wins: Column::get returns the value of the last insert of every
\* key (spec section 4.1, invariant 1).
NewerWins ==
    \A c \in Cols, k \in Keys : Get(c, k) = kv[c][k]

\* Recovery from a crash at any instant: the files on disk, read the way
\* Column::open reads them (ascending ids, the highest holding a key
\* wins), give every key that is not pending in a memtable the value of
\* its last insert.  Inputs of a merge are deleted only after the merged
\* files exist, and a merged file holds the newest input value of each
\* key, so no interleaving of flushes, compactions and multi_way_merge
\* leaves the disk stale, even where the in-memory list order is.
DurableNewestWins ==
    \A c \in Cols, k \in Keys :
        memtable[c][k] = NoVal => SegsGet(LoadSegments(files[c]), k) = kv[c][k]

\* A Store that is flushed, dropped and opened again reads back the value
\* of the last insert of every key (spec section 8, scenario 2, with
\* compactions and synchronous merges racing before the drop).
ReopenReadsNewest ==
    [][Reopen => \A c \in Cols, k \in Keys : Get(c, k)' = kv[c][k]]_vars

\* Dropping the Store returns: once the Store is dropped, the compactor
\* thread drains the requests already queued, finishes any merge in
\* flight and exits (or has already died), so the join in Drop for Compactor returns and the
\* directory can be opened again.
\* (The model's SegIdBound can stop the worker short: a snapshot whose
\* flush or merge output would need an id beyond it is disabled.)
DropJoins == store = "dropped" ~> (cpc \in {"exited", "dead"} \/ SnapshotOutOfIds)

\* A compaction that starts always ends: merging, once set, is cleared
\* again, so later requests for that column are not ignored forever
\* (spec section 7: a failed compaction is logged and merging cleared).
MergingCleared ==
    \A c \in Cols : merging[c] ~> ~merging[c]

\* The compactor's error branch (compactor.rs, Err of merge_segments):
\* when a multi_way_merge has deleted the inputs before the compactor
\* opens their .fst files, the worker logs the error and clears merging,
\* so a compaction ends unless the worker thread itself has died.
MergingClearedOrDead ==
    \A c \in Cols : merging[c] ~> (~merging[c] \/ cpc = "dead")

=============================================================================
