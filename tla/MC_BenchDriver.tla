--------------------------- MODULE MC_BenchDriver ---------------------------
(* Two producer threads, six keys (two of them multiples of five), a      *)
(* channel of one slot and batches of four, so that producers block, the  *)
(* final batch is partial and one thread's first index is not a multiple  *)
(* of five.                                                                *)
EXTENDS BenchDriver, TLC

CONSTANTS t1, t2

MCThreads == {t1, t2}
=============================================================================
