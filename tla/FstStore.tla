------------------------------ MODULE FstStore ------------------------------
(***************************************************************************)
(* The layout layer of the FST engine (src/src/fst/store.rs, Store): how   *)
(* Store::commit fans each (key, value) entry out over the 1 to 4 columns  *)
(* of a layout, and how get_value, get_key_for_value and                   *)
(* get_keys_for_value read them back.                                      *)
(*                                                                         *)
(* Each column is taken at the level of its abstract specification: a map  *)
(* in which the last insert of a key wins (the `kv` history of FstColumn). *)
(* Flushes, merges and the compactor do not change that map, so they are   *)
(* not actions here, and the properties below judge the layout logic      *)
(* alone.  commit and the reads run on the thread that owns the Store      *)
(* (&mut self / &self), so a whole commit is one step.                     *)
(*                                                                         *)
(* Encoded keys and values are model values; the codecs of the benchmarks  *)
(* are fixed-width, so value||key of the Range layout and pk||key of the   *)
(* Dictionary layout are modelled as pairs.                                *)
(***************************************************************************)
EXTENDS Integers, Sequences, FiniteSets, SequencesExt

CONSTANTS
    Keys,        \* encoded keys (KC::encode)
    Vals,        \* encoded values (VC::encode)
    NoVal,       \* absent value in a key->value column
    NoKey,       \* absent key in a value->key column
    Layouts,     \* layouts a store may be opened with
    MaxBatch,    \* model bound: entries per commit
    MaxCommits   \* model bound: number of commits

ASSUME /\ NoVal \notin Vals
       /\ NoKey \notin Keys
       /\ Layouts \subseteq {"Plain", "UniqueIndex", "Range", "Dictionary"}
       /\ MaxBatch \in Nat \ {0}
       /\ MaxCommits \in Nat

VARIABLES
    layout,       \* Store.layout, fixed by Store::open
    kv_col,       \* key_to_value column (Plain, UniqueIndex, Range)
    vk_col,       \* value_to_key column (UniqueIndex)
    vk_btree,     \* value_key_btree column: the set of value||key entries (Range)
    k2pk,         \* key_to_birth_key column (Dictionary)
    pk2v,         \* birth_key_to_value column (Dictionary)
    v2pk,         \* value_to_birth_key column (Dictionary)
    pk_k_btree,   \* birth_key_key_btree column: the set of pk||key entries (Dictionary)
    inserted,     \* ProgressTracker.inserted
    last,         \* history: last[k] is the value of the last entry for k
    entries,      \* history: number of entries committed
    commits       \* number of commits so far (bounded)

vars == <<layout, kv_col, vk_col, vk_btree, k2pk, pk2v, v2pk, pk_k_btree,
          inserted, last, entries, commits>>

Entry == Keys \X Vals
Batches == UNION {[1 .. n -> Entry] : n \in 1 .. MaxBatch}

\* The per-commit HashMap value_cache: value -> (birth key, is_new).
NoHit == [pk |-> NoKey, new |-> FALSE]

-----------------------------------------------------------------------------
(***************************************************************************)
(* One entry of Store::commit, on a record st holding every column, the    *)
(* processed count and the Dictionary value_cache.                         *)
(***************************************************************************)

PlainEntry(st, e) ==
    [st EXCEPT !.kv[e[1]] = e[2], !.processed = @ + 1]

UniqueIndexEntry(st, e) ==
    [st EXCEPT !.kv[e[1]] = e[2], !.vk[e[2]] = e[1], !.processed = @ + 2]

\* Mutant: the index entry is written only for a key not yet in kv_col.
RangeEntryFreshOnly(st, e) ==
    [st EXCEPT !.kv[e[1]] = e[2],
               !.vkb = IF st.kv[e[1]] = NoVal THEN @ \cup {<<e[2], e[1]>>} ELSE @,
               !.processed = @ + 2]

RangeEntry(st, e) ==
    [st EXCEPT !.kv[e[1]] = e[2], !.vkb = @ \cup {<<e[2], e[1]>>},
               !.processed = @ + 2]

\* The birth key of value v for key k: the value_cache first, then a
\* read of value_to_birth_key; if both miss, k itself, marked new.
BirthKey(st, k, v) ==
    IF st.cache[v] # NoHit THEN st.cache[v]
    ELSE IF st.v2pk[v] # NoKey THEN [pk |-> st.v2pk[v], new |-> FALSE]
    ELSE [pk |-> k, new |-> TRUE]

\* Mutant: value_to_birth_key is never consulted; every value is new.
DictionaryEntryNoLookup(st, e) ==
    LET k == e[1]  v == e[2]
        s1 == [st EXCEPT !.v2pk[v] = k, !.pk2v[k] = v, !.processed = @ + 2]
    IN  [s1 EXCEPT !.k2pk[k] = k, !.pkk = @ \cup {<<k, k>>}, !.processed = @ + 2]

\* Mutant: key_to_birth_key receives the value instead of the birth key.
DictionaryEntrySwapped(st, e) ==
    LET k == e[1]  v == e[2]
        hit == BirthKey(st, k, v)
        s1 == [st EXCEPT !.cache[v] = hit]
        s2 == IF hit.new
              THEN [s1 EXCEPT !.v2pk[v] = hit.pk, !.pk2v[hit.pk] = v,
                              !.processed = @ + 2]
              ELSE s1
    IN  [s2 EXCEPT !.k2pk[k] = v, !.pkk = @ \cup {<<hit.pk, k>>},
                   !.processed = @ + 2]

DictionaryEntry(st, e) ==
    LET k == e[1]  v == e[2]
        hit == BirthKey(st, k, v)
        s1 == [st EXCEPT !.cache[v] = hit]
        s2 == IF hit.new
              THEN [s1 EXCEPT !.v2pk[v] = hit.pk, !.pk2v[hit.pk] = v,
                              !.processed = @ + 2]
              ELSE s1
    IN  [s2 EXCEPT !.k2pk[k] = hit.pk, !.pkk = @ \cup {<<hit.pk, k>>},
                   !.processed = @ + 2]

LayoutEntry(st, e) ==
    CASE layout = "Plain"       -> PlainEntry(st, e)
      [] layout = "UniqueIndex" -> UniqueIndexEntry(st, e)
      [] layout = "Range"       -> RangeEntry(st, e)
      [] layout = "Dictionary"  -> DictionaryEntry(st, e)

-----------------------------------------------------------------------------
(***************************************************************************)
(* Reads.                                                                  *)
(***************************************************************************)

GetValue(k) ==
    IF layout = "Dictionary"
    THEN IF k2pk[k] = NoKey THEN NoVal ELSE pk2v[k2pk[k]]
    ELSE kv_col[k]

\* UniqueIndex only (InvalidInput otherwise).
GetKeyForValue(v) == vk_col[v]

\* Range and Dictionary only: the keys of the prefix scan of value_key_btree
\* for v, or of birth_key_key_btree for v's birth key, prefix stripped.
GetKeysForValue(v) ==
    IF layout = "Range" THEN {k \in Keys : <<v, k>> \in vk_btree}
    ELSE IF v2pk[v] = NoKey THEN {}
    ELSE {k \in Keys : <<v2pk[v], k>> \in pk_k_btree}

-----------------------------------------------------------------------------
Init ==
    /\ layout \in Layouts
    /\ kv_col = [k \in Keys |-> NoVal]
    /\ vk_col = [v \in Vals |-> NoKey]
    /\ vk_btree = {}
    /\ k2pk = [k \in Keys |-> NoKey]
    /\ pk2v = [k \in Keys |-> NoVal]
    /\ v2pk = [v \in Vals |-> NoKey]
    /\ pk_k_btree = {}
    /\ inserted = 0
    /\ last = [k \in Keys |-> NoVal]
    /\ entries = 0
    /\ commits = 0

\* Store::commit(batch): every entry in order, with a fresh value_cache,
\* then progress.record(processed).
Commit(batch) ==
    LET st0 == [kv |-> kv_col, vk |-> vk_col, vkb |-> vk_btree, k2pk |-> k2pk,
                pk2v |-> pk2v, v2pk |-> v2pk, pkk |-> pk_k_btree,
                cache |-> [v \in Vals |-> NoHit], processed |-> 0]
        st == FoldLeft(LayoutEntry, st0, batch)
    IN
    /\ commits < MaxCommits
    /\ kv_col' = st.kv
    /\ vk_col' = st.vk
    /\ vk_btree' = st.vkb
    /\ k2pk' = st.k2pk
    /\ pk2v' = st.pk2v
    /\ v2pk' = st.v2pk
    /\ pk_k_btree' = st.pkk
    /\ inserted' = inserted + st.processed
    /\ last' = FoldLeft(LAMBDA m, e : [m EXCEPT ![e[1]] = e[2]], last, batch)
    /\ entries' = entries + Len(batch)
    /\ commits' = commits + 1
    /\ UNCHANGED layout

Next == \E b \in Batches : Commit(b)

Spec == Init /\ [][Next]_vars

-----------------------------------------------------------------------------
(***************************************************************************)
(* Properties.                                                             *)
(***************************************************************************)

TypeOK ==
    /\ kv_col \in [Keys -> Vals \cup {NoVal}]
    /\ vk_col \in [Vals -> Keys \cup {NoKey}]
    /\ vk_btree \subseteq Vals \X Keys
    /\ k2pk \in [Keys -> Keys \cup {NoKey}]
    /\ pk2v \in [Keys -> Vals \cup {NoVal}]
    /\ v2pk \in [Vals -> Keys \cup {NoKey}]
    /\ pk_k_btree \subseteq Keys \X Keys
    /\ inserted \in Nat
    /\ last \in [Keys -> Vals \cup {NoVal}]

\* get_value(k) returns the value of the most recent entry for k, across
\* commits and within a batch (spec 4.1 invariant 1; for Dictionary via
\* key_to_birth_key and birth_key_to_value).
NewerWins ==
    \A k \in Keys : GetValue(k) = last[k]

\* Every key whose current value is v is returned by get_keys_for_value(v),
\* whichever commit bound it (Range: the value||key index; Dictionary: the
\* birth key's pk||key index).
KeysForValueComplete ==
    \A k \in Keys : GetValue(k) # NoVal => k \in GetKeysForValue(GetValue(k))

\* get_keys_for_value(v) is exactly the set of keys whose current value is
\* v (spec section 8, Range layout).
KeysForValueExact ==
    \A v \in Vals : GetKeysForValue(v) = {k \in Keys : GetValue(k) = v}

\* The progress count is +2 per Dictionary entry plus +2 per new birth key
\* (spec section 6); every value that has a birth key got it once.
ProgressMatchesSpec ==
    layout = "Dictionary" =>
        inserted = 2 * entries + 2 * Cardinality({v \in Vals : v2pk[v] # NoKey})

=============================================================================
