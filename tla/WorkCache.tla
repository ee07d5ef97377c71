----------------------------- MODULE WorkCache -----------------------------
(***************************************************************************)
(* The block caches of the mining commands in rpcmining.cpp.  getwork,    *)
(* getworkex and getblocktemplate each keep function-static state: the    *)
(* tip the cached block was built on (pindexPrev), the block (pblock), the *)
(* transaction counter and time it was built at, and for the two getwork  *)
(* variants every block handed out (vNewBlock) with the work indexed by   *)
(* merkle root (mapNewBlock) so that a submission can find its block.     *)
(*                                                                         *)
(* All three are locked commands, and the node changes its tip under       *)
(* cs_main too, so every call is one step.  A block is an allocation       *)
(* number; a piece of work is the block and the tip it was built on (the   *)
(* extra nonce that makes each merkle root unique is left out).  The       *)
(* staleness test GetTime() - nStart > 60 (5 for getblocktemplate) is the  *)
(* flag aged[f], which time may set at any moment.                         *)
(***************************************************************************)
EXTENDS Integers, FiniteSets

CONSTANTS
  Fns,          \* the commands exercised: subset of {"getwork", "getworkex",
                \* "getblocktemplate"}
  Tips,         \* block index entries pindexBest may point to
  MaxBlocks,    \* bound: blocks CreateNewBlock allocates
  MaxTxUpdates, \* bound: changes of nTransactionsUpdated
  Null          \* a NULL pointer

GetworkFns == Fns \ {"getblocktemplate"}
BlockIds == 1..MaxBlocks
Work == [blk : BlockIds, tip : Tips]

VARIABLES
  pindexBest,            \* the node's best tip
  nTransactionsUpdated,  \* the mempool change counter
  pindexPrev,            \* per command: tip of the cached block, or Null
  pblock,                \* per command: the cached block, or Null
  txLast,                \* per command: nTransactionsUpdatedLast
  aged,                  \* per command: the staleness period has passed
  vNewBlock,             \* per getwork variant: blocks it owns
  mapNewBlock,           \* per getwork variant: work it can take back
  issued,                \* per getwork variant: work handed to miners
  nAlloc,                \* blocks allocated so far
  freed,                 \* blocks deleted
  fault                  \* {} or the first invalid access: [fn, what]

vars == <<pindexBest, nTransactionsUpdated, pindexPrev, pblock, txLast, aged,
          vNewBlock, mapNewBlock, issued, nAlloc, freed, fault>>

-----------------------------------------------------------------------------
(* Helpers                                                                 *)

\* The cached block must be rebuilt: the cached tip is not the best tip
\* (or is NULL), or transactions changed and the staleness period passed.
NeedsRebuild(f) ==
  \/ pindexPrev[f] # pindexBest
  \/ nTransactionsUpdated # txLast[f] /\ aged[f]

\* A pointer that may be dereferenced.
Valid(b) == b # Null /\ b \notin freed

\* Dereferencing an invalid pointer ends the process: record where and why.
Crash(f, b) == fault' = {[fn |-> f, what |-> IF b = Null THEN "null" ELSE "freed"]}

\* (fault variant: nTransactionsUpdatedLast stamped one ahead)
RestampAhead(f) ==
  /\ txLast' = [txLast EXCEPT ![f] = nTransactionsUpdated + 1]
  /\ aged' = [aged EXCEPT ![f] = FALSE]

\* The rebuild's bookkeeping: nTransactionsUpdatedLast and nStart.
Restamp(f) ==
  /\ txLast' = [txLast EXCEPT ![f] = nTransactionsUpdated]
  /\ aged' = [aged EXCEPT ![f] = FALSE]

\* pblock->UpdateTime / nTime, IncrementExtraNonce and
\* mapNewBlock[hashMerkleRoot] = (pblock, scriptSig), on map m: the work
\* built on block b over tip is saved and handed to the miner.
UseCached(f, b, tip, m) ==
  IF Valid(b)
  THEN /\ mapNewBlock' = [mapNewBlock EXCEPT ![f] = m \cup {[blk |-> b, tip |-> tip]}]
       /\ issued' = [issued EXCEPT ![f] = @ \cup {[blk |-> b, tip |-> tip]}]
       /\ UNCHANGED fault
  ELSE /\ Crash(f, b)
       /\ mapNewBlock' = [mapNewBlock EXCEPT ![f] = m]
       /\ UNCHANGED issued

\* On a tip change the old blocks are obsolete: every block of vNewBlock
\* is deleted ...
DroppedBlocks(f) == IF pindexPrev[f] # pindexBest THEN vNewBlock[f] ELSE {}

\* (fault variant: mapNewBlock.clear() left out)
KeptWorkNoClear(f) == mapNewBlock[f]

\* ... and mapNewBlock is cleared; otherwise the saved work is kept.
KeptWork(f) == IF pindexPrev[f] # pindexBest THEN {} ELSE mapNewBlock[f]

-----------------------------------------------------------------------------
(* getwork / getworkex without data.  They differ only in the value        *)
(* pindexPrev has when CreateNewBlock fails: getwork clears it before the  *)
(* call and sets it after success; getworkex sets it before the call.      *)

\* One call without data, where prevOnFail is the cached tip left behind
\* when CreateNewBlock returns NULL.  On a tip change every block of
\* vNewBlock is deleted and mapNewBlock is cleared first.
Refresh(f, prevOnFail) ==
  /\ NeedsRebuild(f) => nAlloc < MaxBlocks
  /\ IF ~NeedsRebuild(f)
     THEN /\ UseCached(f, pblock[f], pindexPrev[f], mapNewBlock[f])
          /\ UNCHANGED <<pindexPrev, pblock, txLast, aged, vNewBlock, nAlloc, freed>>
     ELSE LET gone == DroppedBlocks(f)
              m == KeptWork(f)
          IN /\ Restamp(f)
             /\ freed' = freed \cup gone
             /\ \/ \* CreateNewBlock returns NULL: throw RPC_OUT_OF_MEMORY
                   /\ pindexPrev' = [pindexPrev EXCEPT ![f] = prevOnFail]
                   /\ pblock' = [pblock EXCEPT ![f] = Null]
                   /\ vNewBlock' = [vNewBlock EXCEPT ![f] = @ \ gone]
                   /\ mapNewBlock' = [mapNewBlock EXCEPT ![f] = m]
                   /\ UNCHANGED <<issued, nAlloc, fault>>
                \/ LET b == nAlloc + 1 IN
                   /\ nAlloc' = b
                   /\ pindexPrev' = [pindexPrev EXCEPT ![f] = pindexBest]
                   /\ pblock' = [pblock EXCEPT ![f] = b]
                   /\ vNewBlock' = [vNewBlock EXCEPT ![f] = (@ \ gone) \cup {b}]
                   /\ UseCached(f, b, pindexBest, m)
  /\ UNCHANGED <<pindexBest, nTransactionsUpdated>>

\* getworkex: pindexPrev = pindexBest before CreateNewBlock.
GetWorkEx(f) == Refresh(f, pindexBest)

\* getwork: pindexPrev = NULL before CreateNewBlock, pindexPrevNew after.
GetWork(f) == Refresh(f, Null)

\* getwork / getworkex with data: look the work up by merkle root; an
\* unknown root returns false; a known one dereferences its block, then
\* SignBlock and CheckWork (collaborators, whose outcome the node's tip
\* steps stand for).
SubmitWork(f, w) ==
  /\ w \in issued[f]
  /\ IF w \in mapNewBlock[f] /\ ~Valid(w.blk)
     THEN Crash(f, w.blk)
     ELSE UNCHANGED fault
  /\ UNCHANGED <<pindexBest, nTransactionsUpdated, pindexPrev, pblock, txLast,
                 aged, vNewBlock, mapNewBlock, issued, nAlloc, freed>>

-----------------------------------------------------------------------------
(* getblocktemplate: one cached block, no map.                             *)

\* (fault variant: the old template is not deleted)
OldTemplateKept(f) == {}

\* if (pblock) { delete pblock; pblock = NULL; }
OldTemplate(f) == IF pblock[f] = Null THEN {} ELSE {pblock[f]}

\* getblocktemplate in "template" mode: rebuild after a tip change or after
\* transactions changed and 5 s passed, clearing pindexPrev first and
\* deleting the old template; then UpdateTime and read the block.
GetBlockTemplate(f) ==
  /\ NeedsRebuild(f) => nAlloc < MaxBlocks
  /\ IF ~NeedsRebuild(f)
     THEN /\ IF Valid(pblock[f]) THEN UNCHANGED fault ELSE Crash(f, pblock[f])
          /\ UNCHANGED <<pindexPrev, pblock, txLast, aged, nAlloc, freed>>
     ELSE /\ Restamp(f)
          /\ freed' = freed \cup OldTemplate(f)
          /\ UNCHANGED fault
          /\ \/ /\ pindexPrev' = [pindexPrev EXCEPT ![f] = Null]
                /\ pblock' = [pblock EXCEPT ![f] = Null]
                /\ UNCHANGED nAlloc
             \/ /\ nAlloc' = nAlloc + 1
                /\ pindexPrev' = [pindexPrev EXCEPT ![f] = pindexBest]
                /\ pblock' = [pblock EXCEPT ![f] = nAlloc + 1]
  /\ UNCHANGED <<pindexBest, nTransactionsUpdated, vNewBlock, mapNewBlock, issued>>

-----------------------------------------------------------------------------
(* The node, under cs_main: a new best tip (a connected block or a         *)
(* reorganisation), a mempool change, and the clock passing a command's    *)
(* staleness period.                                                       *)

SetBestChain ==
  /\ \E t \in Tips \ {pindexBest} : pindexBest' = t
  /\ UNCHANGED <<nTransactionsUpdated, pindexPrev, pblock, txLast, aged,
                 vNewBlock, mapNewBlock, issued, nAlloc, freed, fault>>

TxUpdated ==
  /\ nTransactionsUpdated < MaxTxUpdates
  /\ nTransactionsUpdated' = nTransactionsUpdated + 1
  /\ UNCHANGED <<pindexBest, pindexPrev, pblock, txLast, aged, vNewBlock,
                 mapNewBlock, issued, nAlloc, freed, fault>>

TimePasses(f) ==
  /\ ~aged[f]
  /\ aged' = [aged EXCEPT ![f] = TRUE]
  /\ UNCHANGED <<pindexBest, nTransactionsUpdated, pindexPrev, pblock, txLast,
                 vNewBlock, mapNewBlock, issued, nAlloc, freed, fault>>

-----------------------------------------------------------------------------

\* The statics start zeroed: no cached tip, no block, counter 0, nStart 0
\* (so the staleness period has passed).
Init ==
  /\ pindexBest \in Tips
  /\ nTransactionsUpdated = 0
  /\ pindexPrev = [f \in Fns |-> Null]
  /\ pblock = [f \in Fns |-> Null]
  /\ txLast = [f \in Fns |-> 0]
  /\ aged = [f \in Fns |-> TRUE]
  /\ vNewBlock = [f \in GetworkFns |-> {}]
  /\ mapNewBlock = [f \in GetworkFns |-> {}]
  /\ issued = [f \in GetworkFns |-> {}]
  /\ nAlloc = 0
  /\ freed = {}
  /\ fault = {}

\* A crashed process takes no further steps.
Next ==
  /\ fault = {}
  /\ \/ "getwork" \in Fns /\ GetWork("getwork")
     \/ "getworkex" \in Fns /\ GetWorkEx("getworkex")
     \/ "getblocktemplate" \in Fns /\ GetBlockTemplate("getblocktemplate")
     \/ \E f \in GetworkFns : \E w \in issued[f] : SubmitWork(f, w)
     \/ SetBestChain
     \/ TxUpdated
     \/ \E f \in Fns : TimePasses(f)

Spec == Init /\ [][Next]_vars

-----------------------------------------------------------------------------
(* Properties                                                              *)

\* Type invariant; also, no command's nTransactionsUpdatedLast runs ahead
\* of the node's nTransactionsUpdated.
TypeOK ==
  /\ pindexBest \in Tips
  /\ nTransactionsUpdated \in 0..MaxTxUpdates
  /\ pindexPrev \in [Fns -> Tips \cup {Null}]
  /\ pblock \in [Fns -> BlockIds \cup {Null}]
  /\ txLast \in [Fns -> 0..MaxTxUpdates]
  /\ \A f \in Fns : txLast[f] <= nTransactionsUpdated
  /\ aged \in [Fns -> BOOLEAN]
  /\ vNewBlock \in [GetworkFns -> SUBSET BlockIds]
  /\ mapNewBlock \in [GetworkFns -> SUBSET Work]
  /\ issued \in [GetworkFns -> SUBSET Work]
  /\ nAlloc \in 0..MaxBlocks
  /\ freed \subseteq 1..nAlloc
  /\ fault \subseteq [fn : Fns, what : {"null", "freed"}]

\* No command dereferences a NULL or deleted block: neither the cached
\* pblock when a call finds no rebuild needed (after an earlier
\* CreateNewBlock failure, or a delete), nor a block a submission finds
\* in mapNewBlock.
NoInvalidBlockAccess == fault = {}

\* getwork and getblocktemplate, which clear pindexPrev before
\* CreateNewBlock, never dereference a NULL or deleted block, whatever
\* getworkex does beside them.
ClearingCachesSafe == \A x \in fault : x.fn = "getworkex"

\* Every piece of work saved in mapNewBlock points to a block that the
\* same command still owns in vNewBlock and has not deleted: what makes
\* the submission path's pointer safe, across tip changes and failures.
MapHoldsLiveBlocks ==
  \A f \in GetworkFns : \A w \in mapNewBlock[f] :
    w.blk \in vNewBlock[f] \ freed

\* No block leaks: every block CreateNewBlock returned is deleted or still
\* reachable from a command's statics (vNewBlock, or getblocktemplate's
\* pblock).
BlocksOwned ==
  \A b \in 1..nAlloc :
    \/ b \in freed
    \/ \E f \in GetworkFns : b \in vNewBlock[f]
    \/ \E f \in Fns : pblock[f] = b
=============================================================================
