--------------------------- MODULE MC_WalletUnlock ---------------------------
(***************************************************************************)
(* Instantiates WalletUnlock for TLC.  Timeouts of 1 and 2 seconds are     *)
(* enough to tell an earlier deadline from a later one; three unlocks let  *)
(* a relock thread of one session outlive a walletlock and meet the next.  *)
(***************************************************************************)
EXTENDS WalletUnlock

CONSTANTS IllTypedArg, AbsentArg

\* Parameters as the curecoind command line sends them: RPCConvertValues
\* turns the timeout into an integer and mintonly into a boolean.
TypedTimeouts == {1, 2}
TypedMintArgs == {TRUE, FALSE, AbsentArg}

\* Parameters a raw JSON-RPC client may send.
AnyTimeouts == {1, IllTypedArg}
AnyMintArgs == {FALSE, AbsentArg, IllTypedArg}

GoodOrBad == {"good", "bad"}
=============================================================================
