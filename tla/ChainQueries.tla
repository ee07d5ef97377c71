---------------------------- MODULE ChainQueries ----------------------------
(***************************************************************************)
(* The read-only chain commands of rpcblockchain.cpp (getblockcount,       *)
(* getblockhash, getblock, getblockbynumber, getdifficulty) and the chain  *)
(* statistics of rpcmining.cpp that walk back from the tip                 *)
(* (getnetworkhashps / GetNetworkHashPS, getstakinginfo / GetPoSKernelPS). *)
(*                                                                         *)
(* Every command is a locked command: it runs whole under cs_main, so each *)
(* call is one step over the chain as it is.  The node appends blocks      *)
(* between calls.  chain[h + 1] is the main-chain block at height h        *)
(* (chain[1] the genesis block); a block is its nTime, whether it is       *)
(* proof-of-stake, and its nBits as [exp, mant].  Block times are          *)
(* unsigned int of W bits and need not increase along the chain (a block   *)
(* only has to be later than the median of its predecessors).  Doubles    *)
(* are kept as exact fractions [num, den].                                 *)
(***************************************************************************)
EXTENDS Integers, Sequences, FiniteSetsExt

CONSTANTS
  MaxHeight,     \* bound: nBestHeight
  Times,         \* block nTime values
  BitsVals,      \* nBits values [exp, mant]
  W,             \* width of unsigned int and int (32 in the build)
  PoSInterval,   \* GetPoSKernelPS's nPoSInterval (72 in the code)
  HeightArgs,    \* params[0] of getblockhash / getblockbynumber / getblock
  LookupArgs     \* params[0] of getnetworkhashps

VARIABLES chain, reply

vars == <<chain, reply>>

Blocks == [time : Times, pos : BOOLEAN, bits : BitsVals]

nBestHeight == Len(chain) - 1
Blk(h) == chain[h + 1]

\* unsigned int arithmetic, and the conversion of its result to int.
UWrap(x) == x % (2^W)
ToInt(x) == IF x >= 2^(W - 1) THEN x - 2^W ELSE x

-----------------------------------------------------------------------------
(* Pure helpers                                                            *)

\* GetDifficulty's two loops: scale 0xffff / mantissa by 256 per step of
\* the exponent towards 29.
RECURSIVE ShiftDown(_, _)
ShiftDown(d, s) == IF s > 29 THEN ShiftDown([d EXCEPT !.den = @ * 256], s - 1) ELSE d

RECURSIVE ShiftUp(_, _)
ShiftUp(d, s) == IF s < 29 THEN ShiftUp([d EXCEPT !.num = @ * 256], s + 1) ELSE ShiftDown(d, s)

Difficulty(bits) == ShiftUp([num |-> 65535, den |-> bits.mant], bits.exp)

\* GetLastBlockIndex (outside this source tree): walk back from h to the
\* last block of the asked kind, stopping at the genesis block.
RECURSIVE LastBlockIndex(_, _)
LastBlockIndex(h, fProofOfStake) ==
  IF h > 0 /\ Blk(h).pos # fProofOfStake THEN LastBlockIndex(h - 1, fProofOfStake) ELSE h

\* blockToJSON, the fields the properties tell apart.
BlockToJSON(h) ==
  [height |-> h, blk |-> Blk(h), difficulty |-> Difficulty(Blk(h).bits),
   hasNext |-> h < nBestHeight]

\* getblockbynumber's walk: from hashBestChain, step to pprev while the
\* height is above the one asked for.
RECURSIVE WalkBack(_, _)
WalkBack(h, nHeight) == IF h > nHeight THEN WalkBack(h - 1, nHeight) ELSE h

\* (fault variant: the loop runs while nStakesHandled <= nPoSInterval)
RECURSIVE KernelLoopPastInterval(_, _, _, _)
KernelLoopPastInterval(h, handled, t, prev) ==
  IF h < 0 \/ handled > PoSInterval THEN [handled |-> handled, time |-> t]
  ELSE IF Blk(h).pos
       THEN KernelLoopPastInterval(h - 1, handled + 1,
              ToInt(UWrap(t + (IF prev < 0 THEN 0 ELSE UWrap(Blk(prev).time - Blk(h).time)))), h)
       ELSE KernelLoopPastInterval(h - 1, handled, t, prev)

\* (fault variant: pindexPrevStake is moved on at every block, not only
\* at proof-of-stake blocks)
RECURSIVE KernelLoopEveryBlock(_, _, _, _)
KernelLoopEveryBlock(h, handled, t, prev) ==
  IF h < 0 \/ handled >= PoSInterval THEN [handled |-> handled, time |-> t]
  ELSE IF Blk(h).pos
       THEN KernelLoopEveryBlock(h - 1, handled + 1,
              ToInt(UWrap(t + (IF prev < 0 THEN 0 ELSE UWrap(Blk(prev).time - Blk(h).time)))), h)
       ELSE KernelLoopEveryBlock(h - 1, handled, t, h)

\* GetPoSKernelPS's loop from pindexBest to the genesis block or
\* nPoSInterval stakes: at each proof-of-stake block, add the unsigned
\* difference pindexPrevStake->nTime - pindex->nTime to the int
\* nStakesTime.  prev = -1 is pindexPrevStake == NULL.
RECURSIVE KernelLoop(_, _, _, _)
KernelLoop(h, handled, t, prev) ==
  IF h < 0 \/ handled >= PoSInterval THEN [handled |-> handled, time |-> t]
  ELSE IF Blk(h).pos
       THEN KernelLoop(h - 1, handled + 1,
              ToInt(UWrap(t + (IF prev < 0 THEN 0 ELSE UWrap(Blk(prev).time - Blk(h).time)))), h)
       ELSE KernelLoop(h - 1, handled, t, prev)

Sign(x) == IF x > 0 THEN "pos" ELSE IF x < 0 THEN "neg" ELSE "zero"

-----------------------------------------------------------------------------
(* Commands                                                                *)

\* getblockcount returns nBestHeight, the height of the tip.
GetBlockCount ==
  /\ reply' = [cmd |-> "getblockcount", val |-> nBestHeight]
  /\ UNCHANGED chain

\* Out of range is an error; otherwise FindBlockByHeight (outside this
\* source tree) gives the main-chain block at that height.
GetBlockHash(n) ==
  /\ reply' = IF n < 0 \/ n > nBestHeight
                THEN [cmd |-> "getblockhash", arg |-> n, ok |-> FALSE]
                ELSE [cmd |-> "getblockhash", arg |-> n, ok |-> TRUE, height |-> n, blk |-> Blk(n)]
  /\ UNCHANGED chain

\* getblock by hash: an unknown hash is an error.  The argument is the
\* height of the main-chain block whose hash is given, or one past the tip
\* for a hash mapBlockIndex does not hold.
GetBlock(n) ==
  /\ reply' = IF n < 0 \/ n > nBestHeight
                THEN [cmd |-> "getblock", arg |-> n, ok |-> FALSE]
                ELSE [cmd |-> "getblock", arg |-> n, ok |-> TRUE, json |-> BlockToJSON(n)]
  /\ UNCHANGED chain

\* Same range check as getblockhash, then the walk back from the tip.
GetBlockByNumber(n) ==
  /\ reply' = IF n < 0 \/ n > nBestHeight
                THEN [cmd |-> "getblockbynumber", arg |-> n, ok |-> FALSE]
                ELSE [cmd |-> "getblockbynumber", arg |-> n, ok |-> TRUE,
                      json |-> BlockToJSON(WalkBack(nBestHeight, n))]
  /\ UNCHANGED chain

\* getdifficulty: the last proof-of-work and the last proof-of-stake
\* block's difficulty.
GetDifficultyCmd ==
  /\ reply' = [cmd |-> "getdifficulty",
               pow |-> Difficulty(Blk(LastBlockIndex(nBestHeight, FALSE)).bits),
               pos |-> Difficulty(Blk(LastBlockIndex(nBestHeight, TRUE)).bits)]
  /\ UNCHANGED chain

\* The number of pprev steps: lookup <= 0 means since the last retarget
\* (nHeight % 2016 + 1); more than the chain's height is clamped to it.
LookupSteps(lookup) ==
  LET l0 == IF lookup <= 0 THEN (nBestHeight % 2016) + 1 ELSE lookup
  IN IF l0 > nBestHeight THEN nBestHeight ELSE l0

\* GetNetworkHashPS(lookup): step pindexPrev back LookupSteps times;
\* timeDiff in int64 from the two GetBlockTime()s; the double result GetDifficulty() * 2^32 / (timeDiff / lookup) is cast to
\* int64, which is undefined for NaN and infinity (timeDiff = 0).
\* nullDeref: a step taken from the genesis block.
GetNetworkHashPS(lookup) ==
  LET l  == LookupSteps(lookup)
      far == nBestHeight - l
  IN reply' = [cmd |-> "getnetworkhashps", arg |-> lookup, steps |-> l,
               nullDeref |-> far < 0,
               timeDiff |-> IF far < 0 THEN 0 ELSE Blk(nBestHeight).time - Blk(far).time]
  /\ UNCHANGED chain

\* getstakinginfo's network weight: GetPoSKernelPS returns 0 when
\* nStakesTime is 0, else the kernel average over nStakesTime, which
\* getstakinginfo casts to uint64.
GetStakingInfo ==
  LET k == KernelLoop(nBestHeight, 0, 0, -1)
  IN reply' = [cmd |-> "getstakinginfo", tip |-> nBestHeight, handled |-> k.handled,
               stakesTime |-> k.time, weightSign |-> Sign(k.time)]
  /\ UNCHANGED chain

\* The node connects a new best block.
AddBlock(b) ==
  /\ nBestHeight < MaxHeight
  /\ chain' = Append(chain, b)
  /\ UNCHANGED reply

-----------------------------------------------------------------------------

Init ==
  /\ \E g \in Blocks : ~g.pos /\ chain = <<g>>
  /\ reply = [cmd |-> "none"]

\* The commands, each one step over the chain as it is.
ChainQuery ==
  \/ GetBlockCount
  \/ \E n \in HeightArgs : GetBlockHash(n) \/ GetBlock(n) \/ GetBlockByNumber(n)
  \/ GetDifficultyCmd
  \/ \E l \in LookupArgs : GetNetworkHashPS(l)
  \/ GetStakingInfo

Next == (\E b \in Blocks : AddBlock(b)) \/ ChainQuery

Spec == Init /\ [][Next]_vars

-----------------------------------------------------------------------------
(* Properties                                                              *)

\* Type invariant; getstakinginfo handles at most nPoSInterval stakes.
TypeOK ==
  /\ chain \in Seq(Blocks) /\ Len(chain) \in 1..MaxHeight + 1
  /\ reply.cmd = "getblockcount" => reply.val \in Nat
  /\ reply.cmd = "getstakinginfo" => reply.handled \in 0..PoSInterval

\* The stakes GetPoSKernelPS handles: the nPoSInterval highest
\* proof-of-stake blocks up to the tip h.
Handled(h) ==
  LET stakes == {g \in 0..h : Blk(g).pos}
  IN {g \in stakes : Cardinality({x \in stakes : x > g}) < PoSInterval}

\* nStakesTime, summed from unsigned differences of block times that need
\* not increase, is still the time from the oldest to the newest stake
\* handled: the wrap-around of each backward difference cancels in the
\* int sum (times kept within half the range, as real timestamps are).
StakesTimeTelescopes ==
  reply.cmd = "getstakinginfo" =>
    LET hs == Handled(reply.tip) IN
    /\ reply.handled = Cardinality(hs)
    /\ reply.stakesTime = IF hs = {} THEN 0 ELSE Blk(Max(hs)).time - Blk(Min(hs)).time
=============================================================================
