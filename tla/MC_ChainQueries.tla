--------------------------- MODULE MC_ChainQueries ---------------------------
(***************************************************************************)
(* Chains of up to five blocks with times 1 and 100 in either order (W = 8: *)
(* a backward difference wraps in unsigned int, and a sum of them wraps in *)
(* int), an exponent below and above 29, and an nPoSInterval of 3: up to   *)
(* four stakes, so the interval cuts the walk short and up to two          *)
(* differences, wrapped or not, are summed.                                *)
(***************************************************************************)
EXTENDS ChainQueries

MCBitsVals == {[exp |-> 28, mant |-> 1], [exp |-> 30, mant |-> 3]}
MCHeightArgs == -1..4
MCLookupArgs == {-1, 0, 2, 120}
=============================================================================
