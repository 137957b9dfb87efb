------------------------------- MODULE Codecs -------------------------------
(***************************************************************************)
(* The byte codecs of the benchmarks (src/src/bench_codecs.rs) and the     *)
(* Range layout's use of them in the FST Store (src/src/fst/store.rs):     *)
(* the value_key_btree column holds value || key, and get_keys_for_value   *)
(* strips the value's encoding from every key with that prefix and         *)
(* decodes the rest with the key codec.                                    *)
(*                                                                         *)
(* Widths are scaled down: a byte has CodecBase values, Key16 has KeyLen   *)
(* bytes (KEY_LEN, 16), a u64 WordLen bytes (8), a TxHash TxLen bytes     *)
(* (32); an Address is any byte string, here of at most AddrMaxLen bytes. *)
(***************************************************************************)
EXTENDS Naturals, Sequences, FiniteSets, SequencesExt

CONSTANTS CodecBase, KeyLen, WordLen, TxLen, AddrMaxLen

ASSUME /\ CodecBase \in Nat \ {0, 1}
       /\ {KeyLen, WordLen, TxLen} \subseteq Nat \ {0} /\ AddrMaxLen \in Nat

CodecBytes == 0 .. CodecBase - 1
BytesOfLen(n) == [1 .. n -> CodecBytes]
BytesUpTo(n) == UNION {BytesOfLen(l) : l \in 0 .. n}

\* Result<T, E>: Ok(x), or the InvalidInput error of I::invalid_input.
Ok(x) == [ok |-> TRUE, val |-> x]
Invalid == [ok |-> FALSE]

\* u64::to_le_bytes and u64::from_le_bytes.
U64ToLE(n) == [i \in 1 .. WordLen |-> (n \div CodecBase ^ (i - 1)) % CodecBase]
RECURSIVE U64FromLE(_)
U64FromLE(s) == IF s = <<>> THEN 0 ELSE s[1] + CodecBase * U64FromLE(Tail(s))

\* Mutant: the decoder takes the first KEY_LEN bytes of a longer slice.
DecodeKeyTruncating(b) ==
    IF Len(b) >= KeyLen THEN Ok(SubSeq(b, 1, KeyLen)) ELSE Invalid

\* KeyCodec::decode: <[u8; KEY_LEN]>::try_from, "bad key length".
DecodeKey(b) == IF Len(b) = KeyLen THEN Ok(b) ELSE Invalid

\* Mutant: the word is read big-endian.
DecodeU64BigEndian(b) ==
    IF Len(b) = WordLen THEN Ok(U64FromLE(Reverse(b))) ELSE Invalid

\* AmountCodec and TimestampCodec::decode: an 8-byte array, from_le_bytes.
DecodeU64(b) == IF Len(b) = WordLen THEN Ok(U64FromLE(b)) ELSE Invalid

\* TxCodec::decode: a 32-byte array, "bad tx hash".
DecodeTx(b) == IF Len(b) = TxLen THEN Ok(b) ELSE Invalid

\* The codecs, with the values they encode.  Key16, TxHash and Address
\* encode as their bytes (as_ref); Amount and Timestamp as to_le_bytes.
Codecs == {"Key", "Amount", "Tx", "Timestamp", "Address"}

Domain(c) ==
    CASE c = "Key"                      -> BytesOfLen(KeyLen)
      [] c \in {"Amount", "Timestamp"}  -> 0 .. CodecBase ^ WordLen - 1
      [] c = "Tx"                       -> BytesOfLen(TxLen)
      [] c = "Address"                  -> BytesUpTo(AddrMaxLen)

Encode(c, x) == IF c \in {"Amount", "Timestamp"} THEN U64ToLE(x) ELSE x

\* AddressCodec::decode accepts every slice.
Decode(c, b) ==
    CASE c = "Key"                      -> DecodeKey(b)
      [] c \in {"Amount", "Timestamp"}  -> DecodeU64(b)
      [] c = "Tx"                       -> DecodeTx(b)
      [] c = "Address"                  -> Ok(b)

FixedWidth(c) == c # "Address"

-----------------------------------------------------------------------------
(***************************************************************************)
(* The Range layout.  A column is the set of its keys; keys_with_prefix is *)
(* taken at its contract (FstScan checks the scan itself).                 *)
(***************************************************************************)

\* commit, Range: the value_key_btree key concat(vbytes, kbytes).
RangeKey(kc, vc, k, v) == Encode(vc, v) \o Encode(kc, k)

\* get_keys_for_value, Range: for every key with the value's prefix, skip
\* it if shorter than the prefix, else KC::decode the rest; the first
\* decode error is returned with `?`.
RangeKeysForValue(kc, vc, col, v) ==
    LET prefix == Encode(vc, v)
        keys   == {x \in col : IsPrefix(prefix, x)}
        dec    == {Decode(kc, SubSeq(x, Len(prefix) + 1, Len(x))) :
                       x \in {y \in keys : Len(y) >= Len(prefix)}}
    IN  IF \E d \in dec : ~d.ok THEN Invalid ELSE Ok({d.val : d \in dec})

-----------------------------------------------------------------------------
\* The spec (section 8): decode(encode(x)) = x for every codec; and every
\* slice a codec accepts is the encoding of what it decodes to, so two
\* different byte keys never decode to one value.
CodecsRoundTrip ==
    \A c \in Codecs :
        /\ \A x \in Domain(c) : Decode(c, Encode(c, x)) = Ok(x)
        /\ \A b \in BytesUpTo(TxLen + 1) :
               Decode(c, b).ok => Encode(c, Decode(c, b).val) = b

\* With the bench's KeyCodec, get_keys_for_value of the Range layout never
\* returns a key bound to another value, whatever the value codec: with a
\* fixed-width value codec it returns exactly the keys committed with v,
\* and with AddressCodec, whose encodings can extend one another, the key
\* of a longer value fails KeyCodec's length check and the call returns
\* InvalidInput instead of a wrong key.  pairs are the (key, value) pairs
\* ever committed: Range never removes an entry.
RangeNoForeignKey(vc, pairs) ==
    \A v \in Domain(vc) :
        LET col  == {RangeKey("Key", vc, p[1], p[2]) : p \in pairs}
            r    == RangeKeysForValue("Key", vc, col, v)
            want == {p[1] : p \in {q \in pairs : q[2] = v}}
        IN  /\ r.ok => r.val = want
            /\ FixedWidth(vc) => r.ok
=============================================================================
