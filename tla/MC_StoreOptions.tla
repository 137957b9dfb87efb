-------------------------- MODULE MC_StoreOptions --------------------------
(* The FST Store's layouts, opened with the StoreOptions of the sizing     *)
(* policy on a 6-bit machine, for TLC.                                     *)
EXTENDS MC_FstStore, Sizing

MCInit == Init /\ SizingInit

(* Store::open_with_options takes the StoreOptions by value and keeps only *)
(* segment_size inside the columns, which FstStore abstracts.  The options *)
(* are therefore checked in the initial states, and the store's first step *)
(* drops them (back to the caller's default, itself an initial state), so *)
(* the store's states are not multiplied by every estimate.                *)
MCNext == Next /\ estimate' = NoEstimate /\ options' = DefaultOptions

MCSpec == MCInit /\ [][MCNext]_<<vars, sizingVars>>
=============================================================================
