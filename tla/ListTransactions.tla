-------------------------- MODULE ListTransactions --------------------------
(***************************************************************************)
(* The paging of listtransactions (rpcwallet.cpp): walk the wallet's       *)
(* ordered items from newest to oldest, append each item's entries to ret  *)
(* until ret holds nCount + nFrom entries, clamp nFrom and nCount to what  *)
(* was collected, cut ret to [nFrom, nFrom + nCount) and reverse it.       *)
(*                                                                         *)
(* The command runs whole under cs_main and cs_wallet, so it is a function *)
(* of the wallet: a ledger is the sequence, oldest item first, of the      *)
(* number of JSON entries ListTransactions / AcentryToJSON append for each *)
(* ordered item; an entry is the pair <<item, k>>.  The counters are C     *)
(* ints of width IntBits and every sum the code computes wraps at it.      *)
(***************************************************************************)
EXTENDS Integers, Sequences, SequencesExt

CONSTANT IntBits     \* width of int

IntMin == -(2^(IntBits - 1))
IntMax == 2^(IntBits - 1) - 1

\* Two's complement wrap-around of an int sum.
Wrap(x) == ((x - IntMin) % (2^IntBits)) + IntMin

\* The entries item i appends, in the order it appends them.
EntriesOf(ledger, i) == [k \in 1..ledger[i] |-> <<i, k>>]

\* (fault variant: the loop stops at nCount entries, forgetting nFrom)
RECURSIVE CollectNoFrom(_, _, _, _, _)
CollectNoFrom(ledger, it, ret, nCount, nFrom) ==
  IF it = 0 THEN ret
  ELSE LET r == ret \o EntriesOf(ledger, it)
       IN IF Len(r) >= nCount THEN r ELSE CollectNoFrom(ledger, it - 1, r, nCount, nFrom)

\* The reverse loop from txOrdered.rbegin(): list item it, then
\* if ((int)ret.size() >= (nCount+nFrom)) break;  it = 0 is rend().
RECURSIVE Collect(_, _, _, _, _)
Collect(ledger, it, ret, nCount, nFrom) ==
  IF it = 0 THEN ret
  ELSE LET r == ret \o EntriesOf(ledger, it)
       IN IF Len(r) >= Wrap(nCount + nFrom) THEN r ELSE Collect(ledger, it - 1, r, nCount, nFrom)

\* (fault variant: the two clamps in the other order)
SliceSwapped(ret, nCount, nFrom) ==
  LET size == Len(ret)
      c == IF Wrap(nFrom + nCount) > size THEN size - nFrom ELSE nCount
      f == IF nFrom > size THEN size ELSE nFrom
      last == Wrap(f + c)
      ub == last < f \/ last > size
  IN [nFrom |-> f, nCount |-> c, ub |-> ub,
      result |-> IF ub THEN << >> ELSE Reverse(SubSeq(ret, f + 1, last))]

\* Clamp nFrom, then nCount, to the entries collected; advance first by
\* nFrom and last by nFrom+nCount; erase [last, end) and [begin, first);
\* reverse.  An iterator advanced outside [begin, end] is undefined
\* behaviour (ub), and so is erasing with it.
Slice(ret, nCount, nFrom) ==
  LET size == Len(ret)
      f == IF nFrom > size THEN size ELSE nFrom
      c == IF Wrap(f + nCount) > size THEN size - f ELSE nCount
      last == Wrap(f + c)
      ub == last < f \/ last > size
  IN [nFrom |-> f, nCount |-> c, ub |-> ub,
      result |-> IF ub THEN << >> ELSE Reverse(SubSeq(ret, f + 1, last))]

\* listtransactions with count and from already converted to int: a
\* negative one is an RPC_INVALID_PARAMETER error; else collect and cut.
ListTxPage(ledger, nCount, nFrom) ==
  IF nCount < 0 \/ nFrom < 0 THEN [err |-> TRUE]
  ELSE [err |-> FALSE] @@ Slice(Collect(ledger, Len(ledger), << >>, nCount, nFrom), nCount, nFrom)

-----------------------------------------------------------------------------
(* The page the help text promises                                        *)

\* Every entry of the wallet, newest item first: what the loop would
\* collect if it never stopped early.
RECURSIVE NewestFirst(_, _)
NewestFirst(ledger, n) ==
  IF n = 0 THEN << >> ELSE EntriesOf(ledger, n) \o NewestFirst(ledger, n - 1)

\* "Returns up to [count] most recent transactions skipping the first
\* [from] transactions", oldest to newest.
Expected(ledger, count, from) ==
  LET all == NewestFirst(ledger, Len(ledger))
      lo == IF from > Len(all) THEN Len(all) ELSE from
      hi == IF from + count > Len(all) THEN Len(all) ELSE from + count
  IN Reverse(SubSeq(all, lo + 1, hi))

\* The call answers as promised: an error exactly for a negative count or
\* from, and otherwise, when count + from fits in an int, the promised page
\* with clamped counters and no undefined behaviour.
PageAsPromised(ledger, count, from) ==
  LET p == ListTxPage(ledger, count, from) IN
    /\ p.err <=> (count < 0 \/ from < 0)
    /\ ~p.err /\ count + from <= IntMax =>
         /\ ~p.ub /\ p.nCount >= 0 /\ p.nFrom >= 0
         /\ p.result = Expected(ledger, count, from)
=============================================================================
