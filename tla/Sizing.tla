------------------------------- MODULE Sizing -------------------------------
(***************************************************************************)
(* The FST store's sizing policy (src/src/fst/store.rs): StoreOptions and  *)
(* compute_segment_size, which turns the row estimate, the average entry   *)
(* size and the memory budget into the memtable's seal threshold.          *)
(*                                                                         *)
(* The u64 and usize arithmetic is kept at a machine width Width, and the  *)
(* two constants of the code are parameters, so that TLC can enumerate     *)
(* every input of a scaled-down machine: the wrap of `approx_rows +        *)
(* TARGET_MAX_SEGMENTS - 1` is then reached by inputs TLC enumerates.      *)
(* The release build wraps on overflow; that is the build modelled.        *)
(***************************************************************************)
EXTENDS Integers

CONSTANTS
    MinSegmentRows,     \* MIN_SEGMENT_ROWS
    TargetMaxSegments,  \* TARGET_MAX_SEGMENTS
    Width               \* bits of u64 / usize in the model

ASSUME /\ MinSegmentRows \in Nat \ {0} /\ TargetMaxSegments \in Nat \ {0}
       /\ Width \in Nat \ {0}

Word == 0 .. 2^Width - 1

\* Release-build arithmetic of a Width-bit unsigned integer.
WrapAdd(a, b) == (a + b) % 2^Width
MaxOf(a, b) == IF a >= b THEN a ELSE b
MinOf(a, b) == IF a <= b THEN a ELSE b

\* StoreOptions::default.
DefaultOptions == [segment_size |-> MinSegmentRows]

\* Mutant: the ceiling written as a floor.
ComputeSegmentSizeFloor(approx_rows, avg_kv_bytes, mem_budget_bytes) ==
    LET desired == IF approx_rows = 0 THEN MinSegmentRows
                   ELSE MaxOf(approx_rows \div TargetMaxSegments, MinSegmentRows)
        mem_cap == MaxOf(MaxOf(mem_budget_bytes, 1) \div MaxOf(avg_kv_bytes, 1), 1)
    IN  MaxOf(MinOf(desired, mem_cap), 1)

\* compute_segment_size.
ComputeSegmentSize(approx_rows, avg_kv_bytes, mem_budget_bytes) ==
    LET avg_kv == MaxOf(avg_kv_bytes, 1)
        desired_by_segments ==
            IF approx_rows = 0 THEN MinSegmentRows
            ELSE MaxOf(WrapAdd(approx_rows, TargetMaxSegments - 1) \div TargetMaxSegments,
                       MinSegmentRows)
        mem_cap_rows == MaxOf(MaxOf(mem_budget_bytes, 1) \div avg_kv, 1)
    IN  MaxOf(MinOf(desired_by_segments, mem_cap_rows), 1)

\* StoreOptions::from_estimates.
FromEstimates(approx_rows, avg_kv_bytes, mem_budget_bytes) ==
    [segment_size |-> ComputeSegmentSize(approx_rows, avg_kv_bytes, mem_budget_bytes)]

-----------------------------------------------------------------------------
(***************************************************************************)
(* The reference: the policy as the specification states it (section      *)
(* 4.6), with the ceiling defined by what it is rather than by the         *)
(* add-and-divide the code uses.                                           *)
(***************************************************************************)
Ceil(a, b) == CHOOSE c \in 0 .. a : c * b >= a /\ (c = 0 \/ (c - 1) * b < a)

SpecSegmentSize(approx_rows, avg_kv_bytes, mem_budget_bytes) ==
    LET desired == IF approx_rows > 0
                   THEN MaxOf(Ceil(approx_rows, TargetMaxSegments), MinSegmentRows)
                   ELSE MinSegmentRows
        mem_cap == MaxOf(mem_budget_bytes \div MaxOf(avg_kv_bytes, 1), 1)
    IN  MaxOf(MinOf(desired, mem_cap), 1)

\* The row estimates whose ceiling does not wrap: approx_rows +
\* TARGET_MAX_SEGMENTS - 1 stays below 2^Width.
NoWrapRows == 0 .. 2^Width - TargetMaxSegments

\* Entry sizes and budgets enumerated: zero, one, the values around the
\* point where the budget covers fewer rows than MIN_SEGMENT_ROWS, and the
\* word's maximum.
SizingInputs == 0 .. 4
Budgets == SizingInputs \cup {2^Width - 1}

-----------------------------------------------------------------------------
(***************************************************************************)
(* The options a Store is opened with: the caller's estimate and the       *)
(* StoreOptions from_estimates builds from it, or Default when the caller  *)
(* gives none (estimate = NoEstimate).  They are fixed for the store's     *)
(* life, so they are chosen in the initial state and never change.        *)
(***************************************************************************)
VARIABLES
    estimate,   \* [rows, avg, mem] passed to from_estimates, or NoEstimate
    options     \* the StoreOptions given to Store::open_with_options

sizingVars == <<estimate, options>>

NoEstimate == [rows |-> 0, avg |-> 0, mem |-> 0, none |-> TRUE]

Estimates == {[rows |-> r, avg |-> a, mem |-> m, none |-> FALSE] :
                  r \in Word, a \in SizingInputs, m \in Budgets}

SizingInit ==
    \/ estimate = NoEstimate /\ options = DefaultOptions
    \/ /\ estimate \in Estimates
       /\ options = FromEstimates(estimate.rows, estimate.avg, estimate.mem)

-----------------------------------------------------------------------------
\* from_estimates computes the section 4.6 segment size for every estimate
\* whose ceiling does not overflow (the add-and-divide ceiling, the clamp
\* to the memory budget and the zero-row default all as specified).
SizingMatchesSpec ==
    ~estimate.none /\ estimate.rows \in NoWrapRows =>
        options.segment_size = SpecSegmentSize(estimate.rows, estimate.avg, estimate.mem)
=============================================================================
