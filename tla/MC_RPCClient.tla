---------------------------- MODULE MC_RPCClient ----------------------------
(* One CLI call for each method class, parameter list, credential, host   *)
(* and server outcome.                                                     *)
EXTENDS RPCClient

\* getbalance: second parameter typed (minconf); walletlock: no parameters, null
\* result; bogus: not in the table.
MCMethods == {"getbalance", "walletlock", "bogus"}
MCKnown == {"getbalance", "walletlock"}
MCTyped == [m \in MCMethods |-> IF m = "getbalance" THEN {1} ELSE {}]

\* Codes: RPC_INVALID_REQUEST, RPC_METHOD_NOT_FOUND, RPC_MISC_ERROR,
\* RPC_WALLET_UNLOCK_NEEDED.
MCCodes == {-32600, -32601, -1, -13}
MCOutcomes ==
  [kind : {"ok"}, type : {"null", "number"}, big : BOOLEAN]
  \cup [kind : {"error"}, code : MCCodes]
  \cup {[kind |-> "closed"]}
=============================================================================
