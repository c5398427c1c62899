------------------------------ MODULE MCQuoteCache -----------------------------
(***************************************************************************)
(* An instance of QuoteCache for TLC: more bodies than the cache holds, and *)
(* callers enough to count one body twice at the same time.                *)
(***************************************************************************)
EXTENDS QuoteCache, TLC

QuoteSymmetry == Permutations(Calls) \cup Permutations(Bodies)
===============================================================================
