--------------------------- MODULE MC_StoreCodecs ---------------------------
(***************************************************************************)
(* The FST Store's layouts and sizing policy (MC_StoreOptions) together    *)
(* with the bench codecs and the Range lookup over them (Codecs).  The     *)
(* codec operators are pure; they are checked over every bounded input in *)
(* the store's initial states with the default options.                    *)
(***************************************************************************)
EXTENDS MC_StoreOptions, Codecs

\* The committed (key, value) sets of a Range store with value codec vc:
\* every set of at most two pairs.
CommitSets(vc) ==
    {{p, q} : p, q \in Domain("Key") \X Domain(vc)} \cup {{}}

StoreOpened == Init /\ estimate = NoEstimate /\ options = DefaultOptions

\* Every bench codec decodes its own encodings back and accepts only
\* canonical encodings (spec section 8: decode(encode(x)) = x).
CodecsExact == StoreOpened => CodecsRoundTrip

\* Range's get_keys_for_value with the bench's KeyCodec never returns the
\* key of another value, and is exact for the fixed-width value codecs
\* (spec section 8: exactly {k : get_value(k) = v}, up to rebinding).
RangeKeysSound ==
    StoreOpened => \A vc \in Codecs : \A pairs \in CommitSets(vc) :
                       RangeNoForeignKey(vc, pairs)
=============================================================================
