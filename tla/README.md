# TLA+ models of the Curecoin JSON-RPC server

These modules model the RPC layer of the Curecoin daemon (`src/curecoinrpc.cpp`
and the command handlers in `src/rpcwallet.cpp`, `src/rpcmining.cpp`,
`src/rpcblockchain.cpp`, `src/rpcrawtransaction.cpp`) and check them with TLC.
`PROJECT.json` lists every component, every run, the mutants that show each
property can fail, the source lines behind every definition, the findings and
the hazards.

## The system

| Part | Source | State | Operations |
|---|---|---|---|
| Connection acceptor | `RPCListen`, `RPCAcceptHandler`, `ThreadRPCServer2` (curecoinrpc.cpp 664-854) | acceptors, `io_service`, `fShutdown` | accept, re-arm, peer filter (403), spawn handler, loop exit + `StopRequests` |
| Request handler | `ThreadRPCServer3` (932-1025) | `fRun`, the connection, `vnThreadsRunning[THREAD_RPCHANDLER]` | read request, authorize, honour `Connection: close`, parse, execute single or batch, reply, exit |
| HTTP framing | `HTTPReply`, `ReadHTTP*` (302-449) | none | header defaulting, Content-Length limit |
| Auth gate | `HTTPAuthorized`, `ClientAllowed` (451-530) | credential string | pure checks |
| JSON-RPC codec | `JSONRPCReplyObj`, `ErrorReply`, `JSONRequest::parse`, `JSONRPCExecOne/Batch` (471-928) | none | reply objects, error status |
| Command table | `CRPCTable` (202-293, 1027-1058) | the table (read-only) | lookup, safe-mode check, `LOCK2(cs_main, cs_wallet)`, call |
| Wallet unlock timer | `walletpassphrase`, `walletlock`, `ThreadCleanWalletPassphrase` (rpcwallet.cpp 1371-1513) | `nWalletUnlockTime`, `cs_nWalletUnlockTime`, `fWalletUnlockMintOnly`, wallet lock | unlock, relock thread, lock |
| Mining work cache | `getwork`, `getworkex`, `getblocktemplate` (rpcmining.cpp) | function-static `pindexPrev`, `pblock`, `mapNewBlock`, `vNewBlock` | rebuild on tip change / staleness, submit |
| Chain queries | `getblockcount`, `getblockhash`, `getblock`, `getblockbynumber`, `getdifficulty`, `GetPoSKernelPS` (rpcblockchain.cpp 14-236); `GetNetworkHashPS`, `getstakinginfo` (rpcmining.cpp 69-161) | the main chain (read under `cs_main`) | range check, walk back from the tip, difficulty, network and stake rates |
| Other handlers | rpcwallet, rpcblockchain, rpcrawtransaction | collaborators (wallet, chain) | mostly one call each |
| Raw transactions | `signrawtransaction`, `sendrawtransaction` (rpcrawtransaction.cpp 305-541) | `txVariants`, `mapPrevOut`, the keystore, `mergedTx`'s scriptSigs, `fComplete` | decode variants, collect prevouts, choose keys, sign and merge per input, verify; look up, accept, relay |
| Client / CLI | `CallRPC`, `RPCConvertValues`, `CommandLineRPC` (1061-1256) | none | convert parameters, connect, post, read, print, return status |

How they interact: the listener thread accepts connections and spawns one
handler thread per connection; handlers execute commands, most of them under
`cs_main` then `cs_wallet`, the same order in which the node's own threads take
them; `stop` and `encryptwallet` call `StartShutdown`, which sets the global
`fShutdown` that the listener loop and every handler poll; `walletpassphrase`
spawns a relock thread that shares `nWalletUnlockTime` with `walletlock`.

## Modules

### RPCServer (with MC_RPCServer)

State: one handler program counter `hpc[c]` per connection with its `fRun`, the
request objects `work[c]` and batch index `idx[c]`; the holders of `cs_main`
and `cs_wallet`; the thread counter `nThreads`; `deleted[c]`, how often the
`AcceptedConnection` was deleted; the acceptor (`acceptorOpen`, `listening`);
`fShutdown`; the safe-mode `warning`. The environment is the node thread
(takes `cs_main` then `cs_wallet`, may raise or clear a warning), a shutdown
signal, and one client per connection that connects, sends at most
`MaxRequests` requests, reads responses and may close.

Actions and the code they translate:

- `Accept(c)` - `RPCAcceptHandler`: re-arm, refuse a peer outside `Allowed` with
  403 (not with SSL) and delete, spawn the handler or delete on `NewThread`
  failure; then `RunOneReturns`, the `while (!fShutdown) run_one()` loop test
  and `StopRequests()`.
- `HandlerStart`, `HandlerTop`, `HandlerRead`, `HandlerExecute`,
  `HandlerLockMain`, `HandlerLockWallet`, `HandlerRun`, `HandlerBatchDone`,
  `HandlerExit` - the loop of `ThreadRPCServer3` with `CRPCTable::execute`:
  the safe-mode check is a separate step from taking the locks, exactly as in
  the code. `ReadHTTP` is one step (it blocks until a request or EOF arrives);
  the authorization checks, `Connection: close`, and the body's top-level shape
  are decided in the same step, as they are local computation.
- Requests are records: credentials (`none`, `bad`, `ok`), Connection header,
  HTTP version, whether Content-Length exceeds `MAX_SIZE`, and the body
  (`invalid`, `scalar`, an object, or a batch of objects). A JSON-RPC object is
  `[valid, method]`; `valid` stands for everything `JSONRequest::parse` checks.
  A command's actor succeeds or throws, nondeterministically.

Methods in `MC_RPCServer` stand for table rows with each flag combination:
`getblockcount` (safe, locked), `sendtoaddress` (unsafe, locked), `stop` (safe,
unlocked), `reservebalance` (unsafe, unlocked), and `bogus`, not in the table.

### WalletUnlock (with MC_WalletUnlock)

State: `locked`, `nWalletUnlockTime` (seconds still to go, or the model value
`Disarmed` for the code's 0), `fWalletUnlockMintOnly`, and per relock thread
its state, `timeoutArg`, `wake` (its `nMyWakeTime`) and `sleepLeft`; `nSpends`
counts spending commands and `lastResult` is the last RPC result.

- `WalletPassphrase(p, to, mint)` - the whole handler: a plain wallet,
  already unlocked, wrong passphrase, `Unlock()` then an ill-typed timeout
  (error after unlocking), success spawning a relock thread, ill-typed
  mint-only flag (error after spawning).
- `RelockStart`, `RelockWake`, `RelockReenter` - `ThreadCleanWalletPassphrase`:
  wake time taken when the thread starts; arm a disarmed timer and loop, or
  push an armed timer out and return; each critical section is one step.
- `WalletLock`, `SendToAddress` (checks `IsLocked()` only), `SendFrom` (goes
  through `EnsureWalletIsUnlocked`), `Tick` (one second passes).
- `EncryptWallet(p)` - `encryptwallet` on a plain wallet: encrypted, locked,
  then `StartShutdown()`, after which no command runs. `crypted` starts
  either way; the commands' wrong-encryption-state errors are guards.
  `walletpassphrasechange` only swaps the passphrase, which the model does
  not distinguish.

Commands are locked commands, so they run one at a time under
`cs_main`/`cs_wallet`; relock threads interleave with them.

### WalletSession (the abstract wallet lock)

What the lock promises without threads or clocks: `Encrypt` (plain to
encrypted and locked), `Unlock` (only from locked), `Lock`, `Spend` (only
while unlocked), and weak fairness of `Lock`: an unlocked wallet is
eventually locked. `WalletUnlock` maps onto it with `crypted` and `locked`
unchanged and `spends <- nSpends`; relock-thread steps that do not lock,
`Tick`, failed calls and `walletlock` on a locked wallet are stuttering
steps. `WalletUnlock!SessionRefined == Session!Spec` is checked as a
PROPERTY of `wallet_typed`: safety of every step and the eventual relock
under the concrete fairness (relock threads and clock only).

### WorkCache (with MC_WorkCache)

The function-static caches of `getwork`, `getworkex` and `getblocktemplate`
(rpcmining.cpp): per command `pindexPrev`, `pblock`,
`nTransactionsUpdatedLast`, the staleness clock, and for the getwork
variants `vNewBlock` and `mapNewBlock`; blocks are numbers `1..MaxBlocks`,
`freed` is the set deleted. `Refresh(f, prevOnFail)` is the shared rebuild of
`getwork`/`getworkex` (tip change deletes every block and clears the map;
`CreateNewBlock` may fail); `GetWorkEx` sets `pindexPrev = pindexBest` before
building, `GetWork` clears it. `SubmitWork` looks work up by merkle root.
`GetBlockTemplate` deletes the old template, clears `pindexPrev`, rebuilds.
The node changes the tip (`SetBestChain`), the mempool (`TxUpdated`) and time
(`TimePasses`). A dereference of a NULL or deleted block is recorded in
`fault` and stops the process.

### PeerFilter (used by MC_RPCServer)

`ClientAllowed` (curecoinrpc.cpp 509-531) as a RECURSIVE operator over
addresses `[v6, oct]`: IPv4-compatible and IPv4-mapped IPv6 addresses are
judged as IPv4 (`is_v4_compatible`, `is_v4_mapped`, `to_v4`), loopback and
127.0.0.0/8 (`to_ulong() & 0xff000000`, computed byte-wise) are allowed, and
any other address is matched as text (`to_string()`: dotted decimal, or
inet_ntop's hex groups with the longest zero run compressed) against the
`-rpcallowip` patterns with util.cpp's `WildcardMatch`. `SpecAllowed` is an
independent reference: normalise to IPv4, then a position-set glob matcher.
`MC_RPCServer` feeds the acceptor the verdicts of `ClientAllowed` for its two
peers (an ASSUME ties the literal sets to the operator).

### WalletAccounts and ListTransactions (with MC_WalletAccounts)

The account commands of rpcwallet.cpp over an abstract wallet: `items`, the
transactions and accounting entries in `nOrderPos` order, and the best
`height`. A transaction keeps what `CWalletTx::GetAmounts` reports: the
sending account, whether it is from the wallet (amount sent and fee), the
label of the own address it pays, its block height (-1 unconfirmed) and
`IsFinal()`. `CWalletTx` and `CWalletDB` live outside this tree; the few
operators standing for them are marked spec-modelled in PROJECT.json.

- Write commands are actions, each a whole locked command: `Move`
  (`movecmd`: the two `AccountFromValue` checks, the amount, a database
  error that keeps neither entry, else the debit and the credit together),
  `SendFrom` and `SendMany` (argument checks, the `sendmany` loop
  `ScanSendTo`, `EnsureWalletIsUnlocked` failing, the account balance check,
  creation and commit failures, else a transaction charged to the account;
  coin selection is abstracted to the wallet's confirmed balance covering
  amount plus fee). `reply` keeps the command and its error.
- The node acts by `Receive` (a payment to an own label, final or not) and
  `AddBlock` (a new block confirming some pending final transactions).
- Read commands are operators evaluated in every state: `GetAccountBalance`,
  `StarBalance` (`getbalance "*"`), `ListAccountsMap` (`listaccounts`) and
  `LedgerOf`, the entries `ListTransactions`/`AcentryToJSON` list per item.
- ListTransactions holds `listtransactions`' paging as operators: the
  reverse loop `Collect` (break when `ret.size() >= nCount+nFrom`, the sum
  wrapped to an `IntBits`-wide int), `Slice` (clamp, advance, erase,
  reverse; an iterator outside `[begin, end]` is recorded as `ub`) and
  `ListTxPage`; `Expected` is the page the help text promises.

### RawTxSign (with MC_RawTxSign)

`signrawtransaction` as one call of five steps and `sendrawtransaction` on
its result. A script is the set of keys whose signatures it requires; a
scriptSig is the set of keys that signed it; `CombineSignatures` keeps the
valid signatures of both sides and `VerifyScript` holds when every
required key signed. Variants are sequences of per-input scriptSigs.

- `Begin` - decode the variants ("TX decode failed", "Missing
  transaction"), clone the first into `mergedTx`, copy the `FetchInputs`
  results into `mapPrevOut`.
- `AddGiven` / `AddPrevOuts` (RECURSIVE) - the `params[1]` loop: malformed
  entry or a scriptPubKey that differs from the known one is an error.
- `Setup` - given keys (an invalid one is an error) or
  `EnsureWalletIsUnlocked` (locked or mint-only is an error), then the
  sighash name.
- `SignInput` (`SkipInput` or `SignOne`) - one loop iteration: skip an input
  with no known prevout (incomplete), else clear, sign with `UsableKeys`
  (SIGHASH_SINGLE only with a matching output), merge every variant, verify.
  `ub` records a read of `txv.vin[i]` past a variant's inputs.
- `SignReturn`, and `Relock`: the relock thread's `Lock()`, which takes
  neither `cs_main` nor `cs_wallet` and so may run between any two steps.
- `SendRawTransaction` - already in a block: error; in the pool: relay
  again; else `AcceptToMemoryPool` (not in this tree: refuses known
  transactions, missing prevouts and unverified scripts) or "TX rejected".
  `MineTx` is the node moving the pooled transaction into a block.

### ChainQueries (with MC_ChainQueries)

The chain commands, each one step under `cs_main` over a chain the node
extends between calls (`AddBlock`, bounded by `MaxHeight`). A block is its
`nTime` (unsigned, `W` bits), whether it is proof-of-stake, and its `nBits`
as `[exp, mant]`; a double is an exact fraction. Actions: `GetBlockCount`;
`GetBlockHash(n)`, `GetBlock(n)` and `GetBlockByNumber(n)` with their range
checks (`GetBlockByNumber` walks back from the tip with `WalkBack`);
`GetDifficultyCmd` (`Difficulty` is `GetDifficulty`'s two shift loops, and
`LastBlockIndex` stands for `GetLastBlockIndex`, outside this tree);
`GetNetworkHashPS(l)` (the lookup default and clamp are `LookupSteps`; the
reply records the steps taken, a step from the genesis block, and
`timeDiff`); `GetStakingInfo` (`KernelLoop` is `GetPoSKernelPS`'s loop,
summing unsigned time differences into an `int` with `UWrap`/`ToInt`). Each
reply is a record tagged with its command.

### RPCClient (with MC_RPCClient)

One command-line call end to end: `ClientStart` (argument count, `ConvertTo`
failures, credentials unset), `ClientConnect`, `ServerHandle` (403 to a
refused peer, EOF when the handler is shutting down, 401, method not found,
an error with `ErrorReply`'s status, or 200; a reply may exceed `MAX_SIZE`),
`ClientRead` (`ReadHTTP`'s 500 for EOF or an oversized body, `CallRPC`'s
status filter and empty-reply check, `CommandLineRPC`'s output and return
value). JSON values are abstracted to their type; error codes are the real
ones.

## Runs

| Run | Checks | Result |
|---|---|---|
| `server_safety` | `TypeOK`, `ThreadCountAccurate`, `ConnDeletedOnce`, `KeepAliveHonoured`, `ClientAllowedAsSpecified` | pass, 2 connections x 2 requests from 8 request classes, node once, symmetry on connections (about 1.2M distinct states) |
| `server_live` | `RequestsAnswered` | pass; one refused peer, 4 request classes, no symmetry |
| `wallet_typed` | `TypeOK`, `RelockPending`, `NoEarlyRelock`, `SessionRefined` | pass, 3 sessions, well-typed arguments |
| `wallet_error_unlocks` | `ErrorLeavesWalletLocked` | violation (finding) |
| `wallet_stale_timer` | `SessionTimerOwn` | violation (finding) |
| `work_all` | `TypeOK`, `MapHoldsLiveBlocks`, `BlocksOwned`, `ClearingCachesSafe` | pass, 3 blocks, 2 tips, 2 mempool changes (about 235k states) |
| `getworkex_null` | `NoInvalidBlockAccess` | violation (finding) |
| `wallet_accounts` | `TypeOK`, `StarIsSumOfAccounts`, `ListAccountsAgrees`, `PageCorrect` | pass, labels "" and "a", a third account, amounts 0-1 with fee 1, up to 3 items, 2 blocks, minconf 0-2, 4-bit paging arguments (about 22k states) |
| `cli_check` | `TypeOK`, `CLIExitFollowsReply` | pass, 3 methods, up to 2 parameters of 3 forms, all credentials, hosts and outcomes |
| `sign_check` | `SignaturesPreserved`, `CompleteIffVerified` | pass, 2 keys, variants of 2 inputs, every wallet state, relock at any step, 2 sends (about 57k states) |
| `chain_check` | `TypeOK`, `StakesTimeTelescopes` | pass, every chain of up to 5 blocks over times 1 and 100, 2 `nBits` and both kinds, `nPoSInterval` 3, heights -1..4, lookups -1, 0, 2, 120 (about 1.3M states) |
| `sign_variant_oob` | `VariantReadInRange` | violation (finding) |

- `ThreadCountAccurate`, `ConnDeletedOnce`, `KeepAliveHonoured`,
  `RequestsAnswered`: the handler counter, deletion of the connection object,
  the keep-alive contract, and that every waiting client is answered.
- `RelockPending`: an unlocked wallet always has a relock on the way;
  `NoEarlyRelock`: no relock before the current session's deadline;
  `SessionRefined`: the timer implements `WalletSession`, including that an
  unlocked wallet is eventually locked under thread and clock fairness.
- `MapHoldsLiveBlocks`: saved work always points at a block its command owns
  and has not deleted; `BlocksOwned`: no block leaks; `ClearingCachesSafe`:
  `getwork` and `getblocktemplate` never dereference NULL or a deleted block.
- `ClientAllowedAsSpecified`: `ClientAllowed` agrees with the reference
  filter on 770 addresses (IPv4 over octets 0, 1, 12, 127, their mapped and
  compatible forms, and IPv6 addresses with zero runs) for every subset of
  four patterns.
- `StarIsSumOfAccounts`: `getbalance "*"` equals the sum of
  `getbalance <account>` over all accounts at every minconf, the comment's
  promise at the account level; it needs `move`'s two entries to take effect
  together and every send to be charged to one account.
  `ListAccountsAgrees`: `listaccounts` reports each account's
  `getbalance` at minconf 1 and 2. `PageCorrect`: for every account
  argument (and "*") and every count/from whose sum fits an `int`,
  `listtransactions` returns the promised page of the wallet the commands
  built.
- `StakesTimeTelescopes`: `GetPoSKernelPS` handles the `nPoSInterval` newest
  stakes and its wrapped unsigned differences sum to the newest stake's time
  minus the oldest's, also when block times go backwards.
- `CLIExitFollowsReply`: the CLI's stream and return value follow what the
  server did, across `ErrorReply`'s status choice and `CallRPC`'s filter; a
  command whose reply exceeds `MAX_SIZE` ran but exits 87.
- `SignaturesPreserved`: clearing a scriptSig before re-signing loses no
  signature any variant carried; `CompleteIffVerified`: `complete` is
  exactly "every input has a known prevout and all its signatures", also
  when the relock thread locks the wallet between two inputs.
- The type invariants: RPCServer's, WalletUnlock's, WorkCache's (with no
  command's `nTransactionsUpdatedLast` ahead of the node's counter),
  RPCClient's, WalletAccounts' (no account named "*"), and ChainQueries'
  (`GetPoSKernelPS` handles at most `nPoSInterval` stakes). RawTxSign has
  none in its run: its variables' types are fixed by the steps, and no
  plausible slip in the code changes them.

Findings (PROJECT.json has the details):

- `ErrorLeavesWalletLocked`: `walletpassphrase` unlocks before reading the
  timeout; an ill-typed timeout returns an error with the wallet unlocked and
  no relock thread.
- `SessionTimerOwn`: a relock thread from an earlier session can arm the
  timer of a new session with the earlier, longer deadline.
- `NoInvalidBlockAccess`: `getworkex` sets `pindexPrev` before
  `CreateNewBlock`; after a failure the next call dereferences a NULL block.
- `VariantReadInRange`: `signrawtransaction` merges `txv.vin[i]` of every
  variant for every input of the first; a hex string that appends a
  transaction with fewer inputs makes it read past the end of a vector.

Other behaviour the models reach without a run asserting against it is listed
among the hazards: `execute()` reads the safe-mode warnings before waiting
for `cs_main` (a check linearisable before the warning); a successful
command whose reply exceeds `MAX_SIZE` exits 87; a retried
`sendrawtransaction` after mining reads "already in block"; the acceptor
stays open after shutdown until another connection arrives; a failed
`getwork` rebuild on the current tip deletes valid work; the CLI exit status
is `abs(code)` modulo 256; `listtransactions` with `nCount + nFrom` past
`INT_MAX` stops early and advances by a negative offset (undefined
behaviour); `getstakinginfo` converts a negative `GetPoSKernelPS` (stake
times going backwards) to `uint64`, and `getnetworkhashps` at height 0 casts
a NaN to `int64` (both undefined behaviour); `sendfrom` checks the amount
without the fee against the account balance, so an account can go negative
by the fee. `getblockcount` returns `nBestHeight`, one less than the
"number of blocks" its help text names (the genesis block has height 0);
the model returns the height, as the code does, and no run asserts the help
text.

Bounds: two connections are enough for every pairwise interaction (lock
contention between handlers, one refused peer, one shutdown by `stop` on one
connection while the other is mid-request); two requests per connection cover
keep-alive reuse and the read after it; one node round raises the warning once.
Deadlock is not checked (`CHECK_DEADLOCK FALSE`): with finitely many clients
the server really does come to rest, every thread blocked in `run_one` or
`ReadHTTP`; lock-order deadlocks are caught by `RequestsAnswered` instead.

Fairness: weak fairness for every handler thread, the node thread and the
shutdown thread (the OS schedules runnable threads), for `Accept` (the kernel
completes a pending accept while the listener waits in `run_one`), and for a
client's receipt of a response or EOF (CallRPC blocks reading). Clients are not
required to connect, send or close.

## Not modelled, and why

The SSL stream device and socket I/O (byte transport), header parsing and
formatting (text), `help` (text), the json_spirit reader, the Qt GUI, and
handlers that only call the wallet or chain collaborators. Data races
(`reservebalance` writing `mapArgs`, `getinfo` reading `nWalletUnlockTime`)
are listed as hazards.

Also not modelled: `walletpassphrasechange` (the passphrase's identity is
abstracted away), the handlers that only read or write
through the wallet and chain collaborators, and the raw-transaction codec
(`getrawtransaction`, `createrawtransaction`, `decoderawtransaction`, which
convert between JSON and a serialized transaction). Of rpcblockchain.cpp,
`settxfee` (amount rounding, planned with `AmountFromValue`),
`getrawmempool` (a copy of the pool's hashes) and `getcheckpoint` (its
checkpoint state lives in checkpoints.cpp, outside this tree) are not
modelled; `blockToJSON`'s formatted fields are reduced to height, block,
difficulty and whether a next block exists. In the wallet accounts model: the results of
`WriteAccountingEntry`, which `move` ignores (the database layer lives
outside this tree; a failed write would drop one entry silently), and the
in-memory `nOrderPosNext` a failed commit leaves advanced (order positions
are the sequence index); coinbase and coinstake transactions (generated
amounts); change outputs; `sendmany`'s unchecked `totalAmount` sum
(amounts are small in the model); `GetBalance()` itself (coin selection is
the confirmed balance). At minconf 0 `listaccounts` counts receipts that
are not final while `getbalance` skips them, so `ListAccountsAgrees` is
checked from minconf 1 on; `sendfrom` compares the amount, not amount plus
fee, with the account balance, so an account can go negative by the fee.
Neither has a run of its own. `setgenerate` and `getmininginfo` only read
or set node flags.

Bounds of the other modules: three unlock sessions give a stale relock thread
from one session meeting the next; three blocks and two tips give a rebuild
after a failure and a tip change with saved work; wallets of three items built by the commands and
4-bit ints make every clamp and every overflow reachable, and two blocks with
minconf 0-2 let receipts cross each depth; two CLI parameters
cover a typed and an untyped position; two keys (one in the wallet), three
scripts (single-key of either, two-of-two) and variants of one or two
inputs give every mix of own, merged and missing signatures, and two sends
give a retry before and after mining. Chains of five blocks with times 1
and 100 at `W = 8` give stake times that go backwards (a wrapped
difference) and sums of two differences that wrap in the int (100, 1, 100)
while every true difference fits a signed byte, as real timestamps fit an
`int`; `nPoSInterval` is 3 instead of 72, so that up to two differences are
summed and four stakes let the interval stop the walk before the genesis
block; lookups -1 and 0 take the retarget default and 120
(`getmininginfo`'s) the clamp. Fairness in WalletUnlock is weak
fairness of each relock thread and of the clock (threads are scheduled, time
passes); RPC clients are never required to call.

## Plan

1. **RPCServer** (done): acceptor, handler loop, dispatch, safe mode, locks.
2. **WalletUnlock** (done): unlock, relock threads, walletlock, spending
   checks, encryptwallet; refines WalletSession.
3. **WorkCache** (done): the three caches, submission, failures.
4. **WalletAccounts / ListTransactions** (done): move, sendfrom, sendmany,
   balances, listaccounts and listtransactions paging; **PeerFilter** (done).
5. **RPCClient** (done): the CLI round trip and its exit status.
6. **RawTxSign** (done): signing, merging, relock mid-loop, sending.
7. **ChainQueries** (done): block lookups, difficulty, network and stake
   rates over a growing chain.
8. Left: `JSONRPCExecBatch` reply order and length; `AmountFromValue` and
   round-to-cent (`settxfee`); `getcheckpoint`; composition of
   RPCServer with WalletUnlock (`walletpassphrase` under `cs_main`/`cs_wallet`
   next to the relock thread).
