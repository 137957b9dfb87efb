------------------------------ MODULE FstScan ------------------------------
(***************************************************************************)
(* Prefix scans of an FST column (src/src/fst/segment.rs,                 *)
(* Column::keys_with_prefix and prefix_upper_bound), evaluated on every   *)
(* state of the FstColumn model, whose keys are here made concrete byte   *)
(* strings.                                                               *)
(*                                                                         *)
(* A byte is 0 .. ByteMax, ByteMax standing for u8::MAX (0xFF): what      *)
(* prefix_upper_bound does depends only on whether a byte is the maximum. *)
(* A key is a sequence of bytes, ordered as Rust orders Vec<u8>           *)
(* (lexicographically, a proper prefix first).  The scan runs under the   *)
(* column's read lock, so it sees one state of the column; the column     *)
(* itself moves by FstColumn's inserts, flushes, synchronous merges and   *)
(* compactor merges.                                                      *)
(***************************************************************************)
EXTENDS FstColumn, SequencesExt

CONSTANTS
    ByteMax,         \* u8::MAX, scaled down
    MaxLen,          \* longest key and prefix
    V,               \* the one value every key is written with
    Col              \* the one column

Bytes == 0 .. ByteMax
Strs == UNION {[1 .. n -> Bytes] : n \in 0 .. MaxLen}
ColKeys == Strs \ {<<>>}
None == <<-1>>

\* The instantiation used by the configuration: Cols <- ScanCols,
\* Keys <- ColKeys, Vals <- ScanVals.
ScanCols == {Col}
ScanVals == {V}

(***************************************************************************)
(* Byte strings.                                                           *)
(***************************************************************************)

\* Ord for [u8]: the first differing byte decides, a proper prefix is less.
RECURSIVE LexLt(_, _)
LexLt(a, b) ==
    CASE b = <<>>        -> FALSE
      [] a = <<>>        -> TRUE
      [] a[1] # b[1]     -> a[1] < b[1]
      [] OTHER           -> LexLt(Tail(a), Tail(b))

\* starts_with
StartsWith(k, p) == IsPrefix(p, k)

\* Mutant: the last non-0xFF byte is incremented but nothing is truncated.
RECURSIVE BumpNoTruncate(_, _)
BumpNoTruncate(out, i) ==
    CASE i = 0               -> None
      [] out[i] # ByteMax    -> [out EXCEPT ![i] = @ + 1]
      [] OTHER               -> BumpNoTruncate(out, i - 1)

\* The loop of prefix_upper_bound from position i down to the front.
RECURSIVE Bump(_, _)
Bump(out, i) ==
    CASE i = 0               -> None
      [] out[i] # ByteMax    -> Append(SubSeq(out, 1, i - 1), out[i] + 1)
      [] OTHER               -> Bump(out, i - 1)

\* prefix_upper_bound: None for the empty prefix, else the prefix with its
\* last non-0xFF byte incremented and cut after it, None if every byte is
\* 0xFF.
PrefixUpperBound(p) == IF p = <<>> THEN None ELSE Bump(p, Len(p))

(***************************************************************************)
(* keys_with_prefix.                                                       *)
(***************************************************************************)

\* The keys of a table in ascending order from lo, below hi when hi is
\* Some: a BTreeMap range or an FST range().ge(lo).lt(hi) stream.
Stream(keys, lo, hi) ==
    SortByKey({k \in keys : ~LexLt(k, lo) /\ (hi = None \/ LexLt(k, hi))},
              LexLt)

\* The open-ended scan: stop at the first key not starting with p.
RECURSIVE TakePrefixed(_, _)
TakePrefixed(s, p) ==
    IF s = <<>> \/ ~StartsWith(Head(s), p) THEN <<>>
    ELSE <<Head(s)>> \o TakePrefixed(Tail(s), p)

KeysOf(t) == {k \in ColKeys : t[k] # NoVal}

\* The memtable part: with a bound, keep the range's keys that start with
\* p; without one, break at the first key that does not.
MemScan(p, end) ==
    IF end # None
    THEN SelectSeq(Stream(KeysOf(memtable[Col]), p, end),
                   LAMBDA k : StartsWith(k, p))
    ELSE TakePrefixed(Stream(KeysOf(memtable[Col]), p, None), p)

\* Mutant: the segment stream is built with ge(prefix) but without lt(end).
SegScanNoUpperBound(t, p, end) ==
    IF end # None THEN Stream(KeysOf(t), p, None)
    ELSE TakePrefixed(Stream(KeysOf(t), p, None), p)

\* One segment's part: the whole bounded range, or the prefixed run of the
\* open-ended one.
SegScan(t, p, end) ==
    IF end # None THEN Stream(KeysOf(t), p, end)
    ELSE TakePrefixed(Stream(KeysOf(t), p, None), p)

\* Column::keys_with_prefix: the memtable, then the segments from newest
\* to oldest, each key pushed once (seen), then sorted.
KeysWithPrefix(p) ==
    LET end == PrefixUpperBound(p)
        parts == <<MemScan(p, end)>> \o
                 [i \in DOMAIN segments[Col] |->
                     SegScan(segments[Col][Len(segments[Col]) + 1 - i].data,
                             p, end)]
        keys == FoldLeft(LAMBDA acc, part :
                             acc \o SelectSeq(part,
                                      LAMBDA k : k \notin ToSet(acc)),
                         <<>>, parts)
    IN  SortSeq(keys, LexLt)

(***************************************************************************)
(* Properties.                                                             *)
(***************************************************************************)

\* The half-open range [p, prefix_upper_bound(p)), or [p, end of keys) when
\* there is no bound, selects exactly the column's keys that start with p,
\* for every prefix including the empty one and those ending in 0xFF bytes.
UpperBoundExact ==
    \A p \in Strs, s \in {k \in ColKeys : Get(Col, k) # NoVal} :
        LET end == PrefixUpperBound(p)
        IN  StartsWith(s, p) <=> (~LexLt(s, p) /\ (end = None \/ LexLt(s, end)))

\* keys_with_prefix(p) returns a strictly ascending sequence of distinct
\* keys, each starting with p, and every key the column resolves (in the
\* memtable or in any listed segment) that starts with p, whatever flushes
\* and merges have moved keys between generations.
PrefixScanExact ==
    \A p \in Strs :
        LET r == KeysWithPrefix(p)
        IN  /\ IsSorted(r, LexLt)
            /\ ToSet(r) = {k \in ColKeys : Get(Col, k) # NoVal /\ StartsWith(k, p)}

=============================================================================
