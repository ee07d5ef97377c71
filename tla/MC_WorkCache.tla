--------------------------- MODULE MC_WorkCache ---------------------------
(* Instances of WorkCache for TLC.                                         *)
EXTENDS WorkCache, TLC

CONSTANTS t1, t2

MCTips == {t1, t2}

\* getwork and getblocktemplate, the two with the corrected failure order.
MCFnsFixed == {"getwork", "getblocktemplate"}

\* getworkex, which sets pindexPrev before CreateNewBlock.
MCFnsEx == {"getworkex"}

\* All three commands.
MCFnsAll == {"getwork", "getworkex", "getblocktemplate"}

TipSymmetry == Permutations(MCTips)
====
