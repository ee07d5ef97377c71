--------------------------- MODULE MC_WalletAccounts ---------------------------
(***************************************************************************)
(* Two labels ("" and "a") of own addresses, a third account "b" that has  *)
(* no address, the argument "*", an external and an undecodable           *)
(* destination, amounts 0 (too small), 1 and 2 with a fee of 1, up to four *)
(* ordered items and two blocks: enough for moves that overdraw, sends     *)
(* charged to accounts, receipts crossing minconf 1 and 2, non-final       *)
(* receipts, and pages that clamp, cut and overflow a 4-bit int.          *)
(***************************************************************************)
EXTENDS WalletAccounts, TLC

CONSTANTS ext, ext2, bad, none

MCLabels == {"", "a"}
MCAccountArgs == {"", "a", "b", "*"}
MCDests == {"a", ext, bad}
MCSendToArgs ==
  { <<[dest |-> ext, amt |-> 1], [dest |-> ext2, amt |-> 1]>>,
    <<[dest |-> ext2, amt |-> 1]>>,
    <<[dest |-> ext, amt |-> 1], [dest |-> ext, amt |-> 1]>>,
    <<[dest |-> bad, amt |-> 1]>>,
    <<[dest |-> ext, amt |-> 0]>> }
MCListTxArgs == {<<7, 0>>, <<1, 1>>, <<0, 2>>, <<-1, 0>>, <<2, -1>>, <<6, 3>>}
=============================================================================
