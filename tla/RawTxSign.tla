----------------------------- MODULE RawTxSign -----------------------------
(***************************************************************************)
(* signrawtransaction (rpcrawtransaction.cpp): decode one or more variants *)
(* of a transaction, collect the scriptPubKey of each input's previous     *)
(* output from the chain and from params[1], choose the keystore (given    *)
(* keys, or the wallet after EnsureWalletIsUnlocked), then for each input  *)
(* clear its scriptSig, sign what the keystore can, merge in the           *)
(* signatures of every variant, and verify.                                *)
(*                                                                         *)
(* A script is the set of keys whose signatures it requires; a scriptSig   *)
(* is the set of keys that signed.  CombineSignatures keeps the valid      *)
(* signatures of both sides, VerifyScript holds when all required keys     *)
(* signed.  The command runs under cs_main and cs_wallet, but the wallet's *)
(* relock thread (ThreadCleanWalletPassphrase) takes neither: it may lock  *)
(* the wallet between any two steps of the call.                           *)
(***************************************************************************)
EXTENDS Integers, Sequences, FiniteSets

CONSTANTS
  Keys,         \* all keys
  WalletKeys,   \* the keys pwalletMain holds
  Scripts,      \* scriptPubKeys: non-empty subsets of Keys
  MaxIn,        \* bound: inputs of a variant
  VariantArgs,  \* params[0]: sequences of [sigs |-> scriptSig per input], or Undecodable
  ChainArgs,    \* FetchInputs results: [1..MaxIn -> Scripts \cup {None}]
  GivenArgs,    \* params[1]: sequences of [in, script, ok]
  KeyArgs,      \* params[2]: Absent, or a set of keys that may hold InvalidKey
  HashArgs,     \* params[3]: "ALL", "SINGLE" or "bad"
  OutCounts,    \* mergedTx.vout.size()
  MaxSends,     \* bound: sendrawtransaction calls with the signed hex
  None, Absent, Undecodable, InvalidKey

VARIABLES
  variants,     \* txVariants
  chain,        \* what FetchInputs finds for each input's previous output
  given, keysArg, hashArg, nOut,
  crypted, locked, mintOnly,   \* wallet state read by EnsureWalletIsUnlocked
  pc,           \* "start", "given", "setup", "sign", "done", "error"
  mapPrevOut,   \* input -> scriptPubKey, or None
  fGivenKeys, keystore, fHashSingle,
  i,            \* the signing loop's input
  sigs,         \* mergedTx's scriptSigs
  fComplete,
  ub,           \* a variant's vin was read out of range
  txState,      \* the signed transaction at the node: "none", "mempool", "block"
  nSends, sendResult

vars == <<variants, chain, given, keysArg, hashArg, nOut, crypted, locked,
          mintOnly, pc, mapPrevOut, fGivenKeys, keystore, fHashSingle, i, sigs,
          fComplete, ub, txState, nSends, sendResult>>

otherVars == <<variants, chain, given, keysArg, hashArg, nOut, crypted, mintOnly,
             txState, nSends, sendResult>>

sendVars == <<txState, nSends, sendResult>>

\* Inputs of mergedTx, the first variant.
NIn == IF variants = Undecodable \/ variants = << >> THEN {}
       ELSE DOMAIN variants[1].sigs

-----------------------------------------------------------------------------

\* Decode every variant (a decode failure or none at all is an error),
\* clone the first into mergedTx, and copy each input's previous
\* scriptPubKey that FetchInputs found into mapPrevOut.
Begin ==
  /\ pc = "start"
  /\ IF variants = Undecodable \/ variants = << >>
       THEN pc' = "error" /\ UNCHANGED <<mapPrevOut, sigs>>
       ELSE /\ pc' = "given"
            /\ sigs' = variants[1].sigs
            /\ mapPrevOut' = [j \in NIn |-> chain[j]]
  /\ UNCHANGED <<otherVars, locked, fGivenKeys, keystore, fHashSingle, i,
                 fComplete, ub, txState, nSends, sendResult>>

\* The params[1] loop: a malformed entry (not an object, txid or
\* scriptPubKey not hex, vout negative) or a scriptPubKey that differs from
\* the one already known is an error; an unknown outpoint is added.
\* Entries for outpoints that are not inputs change nothing that is used.
RECURSIVE AddPrevOuts(_, _)
AddPrevOuts(m, g) ==
  IF g = << >> THEN [ok |-> TRUE, map |-> m]
  ELSE LET e == Head(g) IN
       IF ~e.ok THEN [ok |-> FALSE, map |-> m]
       ELSE IF e.in \notin DOMAIN m THEN AddPrevOuts(m, Tail(g))
       ELSE IF m[e.in] # None /\ m[e.in] # e.script THEN [ok |-> FALSE, map |-> m]
       ELSE AddPrevOuts([m EXCEPT ![e.in] = e.script], Tail(g))

AddGiven ==
  /\ pc = "given"
  /\ LET r == AddPrevOuts(mapPrevOut, given) IN
       IF r.ok THEN pc' = "setup" /\ mapPrevOut' = r.map
               ELSE pc' = "error" /\ UNCHANGED mapPrevOut
  /\ UNCHANGED <<otherVars, locked, fGivenKeys, keystore, fHashSingle, i, sigs,
                 fComplete, ub, txState, nSends, sendResult>>

\* (fault variant: a key is added to the keystore before it is checked)
GivenKeystoreAll(ks) == ks

\* tempKeystore: every given key that decodes.
GivenKeystore(ks) == ks \ {InvalidKey}

\* params[2]: a key that does not decode is an error; otherwise only the
\* given keys sign.  Without it, EnsureWalletIsUnlocked: a locked or a
\* mint-only wallet is an error.  Then params[3]: an unknown sighash name
\* is an error.
Setup ==
  /\ pc = "setup"
  /\ IF keysArg # Absent
       THEN /\ fGivenKeys' = TRUE
            /\ keystore' = GivenKeystore(keysArg)
            /\ pc' = IF InvalidKey \in keysArg \/ hashArg = "bad" THEN "error" ELSE "sign"
       ELSE /\ fGivenKeys' = FALSE
            /\ keystore' = WalletKeys
            /\ pc' = IF locked \/ mintOnly \/ hashArg = "bad" THEN "error" ELSE "sign"
  /\ fHashSingle' = (hashArg = "SINGLE")
  /\ i' = 1
  /\ UNCHANGED <<otherVars, locked, mapPrevOut, sigs, fComplete, ub>>

\* The keys SignSignature can use now: the given keys, or the wallet's,
\* which CCryptoKeyStore::GetKey refuses while the wallet is locked.
UsableKeys == IF fGivenKeys \/ ~locked THEN keystore ELSE {}

\* (fault variant: the first variant's signatures are not merged back,
\* as if mergedTx still held them)
MergeOthers(j, req, own) ==
  own \cup UNION {variants[v].sigs[j] \cap req :
                   v \in {v \in 2..Len(variants) : j \in DOMAIN variants[v].sigs}}

\* CombineSignatures with every variant's scriptSig of input j, keeping
\* the signatures valid for req.
Merge(j, req, own) ==
  own \cup UNION {variants[v].sigs[j] \cap req :
                   v \in {v \in 1..Len(variants) : j \in DOMAIN variants[v].sigs}}

\* (fault variant: an input whose previous output is unknown is skipped
\* without clearing fComplete)
SkipInputKeepComplete == UNCHANGED <<sigs, fComplete, ub>>

\* An input whose previous output is unknown is left as it is and makes
\* the result incomplete.
SkipInput ==
  /\ fComplete' = FALSE
  /\ UNCHANGED <<sigs, ub>>

\* Clear input j's scriptSig, sign (with SIGHASH_SINGLE only if output j
\* exists), merge every variant's scriptSig (txv.vin[j] is read whether or
\* not that variant has an input j), and verify.
SignOne(j) ==
  LET req == mapPrevOut[j]
      own == IF ~fHashSingle \/ j <= nOut THEN req \cap UsableKeys ELSE {}
      new == Merge(j, req, own)
  IN /\ sigs' = [sigs EXCEPT ![j] = new]
     /\ fComplete' = (fComplete /\ req \subseteq new)
     /\ ub' = (ub \/ \E v \in 1..Len(variants) : j \notin DOMAIN variants[v].sigs)

\* One iteration of the signing loop.
SignInput ==
  /\ pc = "sign" /\ i \in NIn
  /\ IF mapPrevOut[i] = None THEN SkipInput ELSE SignOne(i)
  /\ i' = i + 1
  /\ UNCHANGED <<otherVars, locked, pc, mapPrevOut, fGivenKeys, keystore, fHashSingle>>

\* The loop ends; the result is mergedTx and fComplete.
SignReturn ==
  /\ pc = "sign" /\ i \notin NIn
  /\ pc' = "done"
  /\ UNCHANGED <<otherVars, locked, mapPrevOut, fGivenKeys, keystore, fHashSingle,
                 i, sigs, fComplete, ub>>

\* The relock thread's deadline passes: pwalletMain->Lock().
Relock ==
  /\ crypted /\ ~locked /\ pc \notin {"done", "error"}
  /\ locked' = TRUE
  /\ UNCHANGED <<otherVars, pc, mapPrevOut, fGivenKeys, keystore, fHashSingle, i,
                 sigs, fComplete, ub>>

\* AcceptToMemoryPool (outside this source tree): it refuses a
\* transaction it already has, one whose previous outputs are not in the
\* chain, and one whose scripts do not verify.
AcceptToMemoryPool ==
  /\ txState = "none"
  /\ \A j \in NIn : chain[j] # None /\ chain[j] \subseteq sigs[j]

\* sendrawtransaction with the hex signrawtransaction returned, possibly
\* again after a lost reply: a transaction already in a block is an
\* error; one already in the memory pool is relayed again; otherwise it
\* goes to AcceptToMemoryPool ("TX rejected" on failure), the wallets are
\* synced, and it is relayed.  The result is the transaction hash.
SendRawTransaction ==
  /\ pc = "done" /\ nSends < MaxSends
  /\ nSends' = nSends + 1
  /\ CASE txState = "block"   -> sendResult' = "inblock" /\ UNCHANGED txState
       [] txState = "mempool" -> sendResult' = "hash" /\ UNCHANGED txState
       [] AcceptToMemoryPool  -> txState' = "mempool" /\ sendResult' = "hash"
       [] OTHER               -> sendResult' = "rejected" /\ UNCHANGED txState
  /\ UNCHANGED <<variants, chain, given, keysArg, hashArg, nOut, crypted, mintOnly,
                 locked, pc, mapPrevOut, fGivenKeys, keystore, fHashSingle, i, sigs,
                 fComplete, ub>>

\* The node puts the pooled transaction into a block.
MineTx ==
  /\ txState = "mempool"
  /\ txState' = "block"
  /\ UNCHANGED <<variants, chain, given, keysArg, hashArg, nOut, crypted, mintOnly,
                 locked, pc, mapPrevOut, fGivenKeys, keystore, fHashSingle, i, sigs,
                 fComplete, ub, nSends, sendResult>>

-----------------------------------------------------------------------------

\* One call, with every combination of arguments and wallet state: a
\* plain wallet, or an encrypted one locked, unlocked, or unlocked for
\* minting only.
Init ==
  /\ variants \in VariantArgs
  /\ chain \in ChainArgs
  /\ given \in GivenArgs
  /\ keysArg \in KeyArgs
  /\ hashArg \in HashArgs
  /\ nOut \in OutCounts
  /\ crypted \in BOOLEAN
  /\ locked \in IF crypted THEN BOOLEAN ELSE {FALSE}
  /\ mintOnly \in IF crypted /\ ~locked THEN BOOLEAN ELSE {FALSE}
  /\ pc = "start"
  /\ mapPrevOut = << >>
  /\ fGivenKeys = FALSE
  /\ keystore = {}
  /\ fHashSingle = FALSE
  /\ i = 0
  /\ sigs = << >>
  /\ fComplete = TRUE
  /\ ub = FALSE
  /\ txState = "none"
  /\ nSends = 0
  /\ sendResult = "none"

\* The signing call returns in "done" or "error"; its result may then be
\* sent, and resent, to the node.
Next == Begin \/ AddGiven \/ Setup \/ SignInput \/ SignReturn \/ Relock
          \/ SendRawTransaction \/ MineTx

Spec == Init /\ [][Next]_vars

-----------------------------------------------------------------------------

\* Merging: clearing an input's scriptSig before signing loses no
\* signature, because the merge runs over every variant, the first (the
\* clone mergedTx was made from) included: a returned input whose previous
\* output is known holds every valid signature any variant carried for it.
SignaturesPreserved ==
  pc = "done" =>
    \A j \in NIn, v \in 1..Len(variants) :
      (mapPrevOut[j] # None /\ j \in DOMAIN variants[v].sigs)
        => variants[v].sigs[j] \cap mapPrevOut[j] \subseteq sigs[j]

\* The "complete" the call returns is true exactly when every input of the
\* returned transaction has a known previous output and all the
\* signatures that output's script requires.
CompleteIffVerified ==
  pc = "done" =>
    (fComplete <=> \A j \in NIn : mapPrevOut[j] # None /\ mapPrevOut[j] \subseteq sigs[j])

\* The merge reads txv.vin[i] of every variant with i an input of the
\* first: no variant has fewer inputs than the first.
VariantReadInRange == ~ub
=============================================================================
