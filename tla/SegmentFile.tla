---------------------------- MODULE SegmentFile ----------------------------
(***************************************************************************)
(* The byte layer of an FST segment (src/src/fst/segment.rs): the values   *)
(* file written by Column::flush and merge_segments, and read back by      *)
(* read_value_from_path (Column::get) and by the ValueReader of each merge *)
(* input.                                                                  *)
(*                                                                         *)
(* A values file is a sequence of records `u32 length, little-endian ||   *)
(* bytes`; the FST map sends a key to the offset of its record.  The      *)
(* machine is scaled down: a byte has ByteBase values, the record length  *)
(* has LenDigits bytes (u32::MAX is ByteBase^LenDigits - 1) and offsets   *)
(* are OffBits-bit words (u64), so that a value too large for its length  *)
(* field and an offset that leaves the word are inputs TLC enumerates.    *)
(* Keys are the ranks 1 .. n of byte strings in byte order: the FST only  *)
(* compares them.  Offsets count bytes from 0.                            *)
(***************************************************************************)
EXTENDS Naturals, Sequences, FiniteSets, SequencesExt

CONSTANTS
    ByteBase,    \* values of a byte (256)
    LenDigits,   \* bytes of a record's length field (4)
    OffBits,     \* bits of an offset (64)
    RecKeys,     \* the keys, as ranks in byte order: 1 .. n
    MaxValLen    \* the longest value of a flushed memtable

ASSUME /\ ByteBase \in Nat \ {0, 1} /\ LenDigits \in Nat \ {0}
       /\ OffBits \in Nat \ {0} /\ MaxValLen \in Nat
       /\ RecKeys \subseteq Nat \ {0}

Bytes == 0 .. ByteBase - 1
U32Max == ByteBase ^ LenDigits - 1
OffLimit == 2 ^ OffBits

\* The values of at most n bytes.
ValuesUpTo(n) == UNION {[1 .. l -> Bytes] : l \in 0 .. n}

\* No value: an absent memtable entry, or a read that failed.
Absent == <<-1>>

\* u32::to_le_bytes and u32::from_le_bytes.
ToLE(n) == [i \in 1 .. LenDigits |-> (n \div ByteBase ^ (i - 1)) % ByteBase]
RECURSIVE FromLE(_)
FromLE(s) == IF s = <<>> THEN 0 ELSE s[1] + ByteBase * FromLE(Tail(s))

-----------------------------------------------------------------------------
(***************************************************************************)
(* Writing: the MapBuilder, the values BufWriter and the running offset.  *)
(* err is the error the write loop returned with `?`, "none" if none.     *)
(***************************************************************************)
NewWriter == [fst |-> <<>>, val |-> <<>>, off |-> 0, err |-> "none"]

\* MapBuilder::insert, which refuses a key not above the last one.
BuilderInsert(w, k) ==
    IF w.fst # <<>> /\ Last(w.fst)[1] >= k
    THEN [w EXCEPT !.err = "order"]
    ELSE [w EXCEPT !.fst = Append(@, <<k, w.off>>)]

\* Mutant: the length is written big-endian.
WriteValueBigEndian(w, v) ==
    IF Len(v) > U32Max THEN [w EXCEPT !.err = "too_large"]
    ELSE [w EXCEPT !.val = @ \o Reverse(ToLE(Len(v))) \o v]

\* write_value: u32::try_from(len) ("value too large"), the length, the bytes.
WriteValue(w, v) ==
    IF Len(v) > U32Max THEN [w EXCEPT !.err = "too_large"]
    ELSE [w EXCEPT !.val = @ \o ToLE(Len(v)) \o v]

\* offset.checked_add(4 + len) ("value offsets exceeded u64").
AdvanceOffset(w, v) ==
    IF w.off + LenDigits + Len(v) >= OffLimit
    THEN [w EXCEPT !.err = "overflow"]
    ELSE [w EXCEPT !.off = @ + LenDigits + Len(v)]

\* One iteration of the write loop of Column::flush and of merge_segments:
\* map_builder.insert(key, offset)?, write_value(..)?, the checked add.
Emit(w, k, v) ==
    IF w.err # "none" THEN w
    ELSE LET w1 == BuilderInsert(w, k)
             w2 == IF w1.err = "none" THEN WriteValue(w1, v) ELSE w1
         IN  IF w2.err = "none" THEN AdvanceOffset(w2, v) ELSE w2

\* The keys of a memtable (key -> value or Absent) in BTreeMap order.
PresentKeys(mt) == SetToSortSeq({k \in RecKeys : mt[k] # Absent}, <)

\* The files Column::flush writes for a non-empty memtable.
FlushFiles(mt) ==
    FoldLeft(LAMBDA w, k : Emit(w, k, mt[k]), NewWriter, PresentKeys(mt))

\* The offset the FST map holds for k, or Absent.
FstGet(fst, k) ==
    IF \E i \in DOMAIN fst : fst[i][1] = k
    THEN fst[CHOOSE i \in DOMAIN fst : fst[i][1] = k][2]
    ELSE Absent

-----------------------------------------------------------------------------
(***************************************************************************)
(* Reading.                                                                *)
(***************************************************************************)

\* read_value_from_path (Segment::read_value): seek to the offset,
\* read_exact the length, read_exact the value; Absent for UnexpectedEof.
ReadValueFromPath(val, off) ==
    IF off + LenDigits > Len(val) THEN Absent
    ELSE LET n == FromLE(SubSeq(val, off + 1, off + LenDigits))
         IN  IF off + LenDigits + n > Len(val) THEN Absent
             ELSE SubSeq(val, off + LenDigits + 1, off + LenDigits + n)

\* A ValueReader: pos is its cached position, cur where its BufReader is.
NewReader == [pos |-> 0, cur |-> 0]

\* Mutant: the reader seeks only backwards, taking a later offset to be
\* reached by reading on.
ReadAtForwardOnly(r, val, off) ==
    LET cur == IF off < r.pos THEN off ELSE r.cur
        pos == IF off < r.pos THEN off ELSE r.pos
        v   == ReadValueFromPath(val, cur)
        n   == Len(v)
    IN  [value  |-> v,
         reader |-> [pos |-> IF pos + LenDigits + n < OffLimit
                             THEN pos + LenDigits + n ELSE pos,
                     cur |-> cur + LenDigits + n]]

\* ValueReader::read_at: seek only when offset differs from pos, read the
\* record where the reader is, then pos.checked_add(4 + len), keeping pos
\* on overflow.
ReadAt(r, val, off) ==
    LET cur == IF r.pos # off THEN off ELSE r.cur
        pos == IF r.pos # off THEN off ELSE r.pos
        v   == ReadValueFromPath(val, cur)
        n   == Len(v)
    IN  [value  |-> v,
         reader |-> [pos |-> IF pos + LenDigits + n < OffLimit
                             THEN pos + LenDigits + n ELSE pos,
                     cur |-> cur + LenDigits + n]]

-----------------------------------------------------------------------------
(***************************************************************************)
(* merge_segments: a BinaryHeap of Reverse((key, Reverse(seg_id), idx,    *)
(* offset)) fed by the FST stream of each input, the last emitted key to  *)
(* drop older copies, one ValueReader per input, and the write loop of    *)
(* flush.  segs are the inputs' files, [id, fst, val], in list order.     *)
(***************************************************************************)

\* Mutant: the seg ids are compared without Reverse, oldest first.
HeapBeforeOldestFirst(a, b) ==
    \/ a[1] < b[1]
    \/ a[1] = b[1] /\ a[2] < b[2]
    \/ a[1] = b[1] /\ a[2] = b[2] /\ a[3] < b[3]

\* The order in which the heap pops: smallest key, then highest seg id,
\* then lowest input index.
HeapBefore(a, b) ==
    \/ a[1] < b[1]
    \/ a[1] = b[1] /\ a[2] > b[2]
    \/ a[1] = b[1] /\ a[2] = b[2] /\ a[3] < b[3]

\* heap.pop()
HeapPop(h) == CHOOSE e \in h : \A f \in h \ {e} : HeapBefore(e, f)

\* streams[idx].next(), pushed onto the heap when the stream has a key.
PushNext(segs, st, idx) ==
    IF st.next[idx] > Len(segs[idx].fst) THEN st
    ELSE LET e == segs[idx].fst[st.next[idx]]
         IN  [st EXCEPT !.heap = @ \cup {<<e[1], segs[idx].id, idx, e[2]>>},
                        !.next[idx] = @ + 1]

\* The while-let loop: a key equal to the last emitted one is skipped (its
\* stream advanced, its value never read); any other is read through its
\* input's ValueReader and written.  A failed read or write returns.
RECURSIVE MergeLoop(_, _)
MergeLoop(segs, st) ==
    IF st.heap = {} \/ st.w.err # "none" THEN st
    ELSE LET e   == HeapPop(st.heap)
             idx == e[3]
             st1 == [st EXCEPT !.heap = @ \ {e}]
         IN  IF st.last = e[1]
             THEN MergeLoop(segs, PushNext(segs, st1, idx))
             ELSE LET r == ReadAt(st.rd[idx], segs[idx].val, e[4])
                  IN  IF r.value = Absent
                      THEN [st1 EXCEPT !.w.err = "read"]
                      ELSE MergeLoop(segs,
                               PushNext(segs, [st1 EXCEPT !.rd[idx] = r.reader,
                                                          !.w = Emit(@, e[1], r.value),
                                                          !.last = e[1]],
                                        idx))

\* The files merge_segments writes for the inputs segs.
MergeSegmentFiles(segs) ==
    LET st0 == [heap |-> {}, next |-> [i \in DOMAIN segs |-> 1],
                rd |-> [i \in DOMAIN segs |-> NewReader], last |-> 0,
                w |-> NewWriter]
        st1 == FoldLeft(LAMBDA st, i : PushNext(segs, st, i), st0,
                        [i \in 1 .. Len(segs) |-> i])
    IN  MergeLoop(segs, st1).w

-----------------------------------------------------------------------------
(***************************************************************************)
(* The inputs: the memtables Column::flush writes, and the segments of a *)
(* merge, each written by a flush that succeeded, with distinct ids and   *)
(* in either list order (merge inputs come from the segment list).        *)
(***************************************************************************)
CONSTANT MergeValLen    \* the longest value in a merge input

NoTable == [k \in RecKeys |-> Absent]
Tables(n) == [RecKeys -> ValuesUpTo(n) \cup {Absent}] \ {NoTable}

\* The files of a segment: those its flush wrote.
SegFiles(s) == LET w == FlushFiles(s.table)
               IN  [id |-> s.id, fst |-> w.fst, val |-> w.val]

MergeInputs ==
    {<<[id |-> a, table |-> t], [id |-> 1 - a, table |-> u]>> :
        a \in {0, 1},
        t \in {x \in Tables(MergeValLen) : FlushFiles(x).err = "none"},
        u \in {x \in Tables(MergeValLen) : FlushFiles(x).err = "none"}}

-----------------------------------------------------------------------------
(***************************************************************************)
(* The reference: the values file of the specification (section 5), and   *)
(* newer-wins (section 4.1).                                               *)
(***************************************************************************)
RecordSize(v) == LenDigits + Len(v)

\* The bytes of the records before k's.
SpecOffset(mt, k) ==
    FoldLeft(LAMBDA acc, j : acc + RecordSize(mt[j]), 0,
             SelectSeq(PresentKeys(mt), LAMBDA j : j < k))

\* Every length fits its u32 field and every record ends inside the u64
\* offset range.
SpecFits(mt) ==
    /\ \A k \in RecKeys : mt[k] # Absent => Len(mt[k]) <= U32Max
    /\ SpecOffset(mt, Max(RecKeys) + 1) < OffLimit

\* For each key, the value of the input with the highest id holding it.
NewestTable(ins) ==
    [k \in RecKeys |->
        LET has == {i \in DOMAIN ins : ins[i].table[k] # Absent}
        IN  IF has = {} THEN Absent
            ELSE ins[CHOOSE i \in has : \A j \in has : ins[j].id <= ins[i].id].table[k]]

-----------------------------------------------------------------------------
\* Column::flush succeeds exactly when every value fits the u32 length
\* field and the file fits the u64 offsets; then the FST map holds every
\* key of the memtable at its record's offset, and read_value_from_path
\* (what Column::get calls) returns each key's value.
FlushReadsBack(mt) ==
    LET w == FlushFiles(mt)
        keys == {k \in RecKeys : mt[k] # Absent}
    IN  /\ (w.err = "none") = SpecFits(mt)
        /\ w.err = "none" =>
               /\ {w.fst[i][1] : i \in DOMAIN w.fst} = keys
               /\ \A i \in DOMAIN w.fst :
                      /\ w.fst[i][2] = SpecOffset(mt, w.fst[i][1])
                      /\ ReadValueFromPath(w.val, w.fst[i][2]) = mt[w.fst[i][1]]

\* merge_segments writes exactly the files a flush of the newest value of
\* every key would write (the same error too, when the merged file does
\* not fit the offsets): the heap order, the skip of older copies, the
\* ValueReaders' cached positions across skipped records and the write
\* loop together keep newer-wins at the byte level.
MergeKeepsNewest(ins) ==
    MergeSegmentFiles([i \in DOMAIN ins |-> SegFiles(ins[i])])
        = FlushFiles(NewestTable(ins))
=============================================================================
