---------------------------- MODULE WalletUnlock ----------------------------
(***************************************************************************)
(* The wallet unlock timer of rpcwallet.cpp: walletpassphrase unlocks an   *)
(* encrypted wallet and starts a ThreadCleanWalletPassphrase thread that   *)
(* relocks it when nWalletUnlockTime has passed; walletlock locks it at    *)
(* once; spending commands check the lock (and, through                    *)
(* EnsureWalletIsUnlocked, the mint-only flag).                            *)
(*                                                                         *)
(* The RPC commands are locked commands (vRPCCommands), so they run one at *)
(* a time under cs_main and cs_wallet; each is one step.  A relock thread  *)
(* holds cs_nWalletUnlockTime only between Sleep() calls, so each of its   *)
(* critical sections is one step too.  Time is kept relative: a deadline   *)
(* is the number of seconds still to go (0: reached), and Tick moves all   *)
(* of them on together.  The code's sentinel nWalletUnlockTime == 0 is the *)
(* model value Disarmed (no real GetTimeMillis() deadline is 0).           *)
(***************************************************************************)
EXTENDS Integers, FiniteSets

CONSTANTS
  Timeouts,     \* params[1] values: integers, or IllTyped
  MintArgs,     \* params[2]: TRUE, FALSE, Absent, or IllTyped
  Passphrases,  \* subset of {"good", "bad", "empty"}
  MaxUnlocks,   \* bound: successful unlocks, one relock thread each
  MaxSpends,    \* bound: spending commands
  Disarmed,     \* nWalletUnlockTime == 0
  IllTyped,     \* a JSON value of the wrong type
  Absent        \* the optional parameter was not given

ASSUME MaxUnlocks \in Nat /\ MaxSpends \in Nat

Threads == 1..MaxUnlocks

\* The largest deadline a thread can set.
MaxTimeout == LET ints == Timeouts \ {IllTyped}
              IN CHOOSE m \in ints \cup {0} :
                   \A x \in ints : x <= m /\ m >= 0

VARIABLES
  crypted,               \* pwalletMain->IsCrypted()
  locked,                \* pwalletMain->IsLocked(): never on a plain wallet
  shutdown,              \* fShutdown: StartShutdown() was called
  nWalletUnlockTime,     \* seconds until the relock deadline, or Disarmed
  fWalletUnlockMintOnly,
  nSessions,             \* successful unlocks so far; thread i serves the i-th
  rstate,                \* relock thread: none, spawned, sleeping, reenter, done
  timeoutArg,            \* *parg of each relock thread
  wake,                  \* nMyWakeTime, relative, once the thread has started
  sleepLeft,             \* what is left of the thread's Sleep(nToSleep)
  nSpends,
  lastResult             \* outcome of the last walletpassphrase call

vars == <<crypted, locked, shutdown, nWalletUnlockTime, fWalletUnlockMintOnly, nSessions, rstate,
          timeoutArg, wake, sleepLeft, nSpends, lastResult>>

relockVars == <<rstate, timeoutArg, wake, sleepLeft>>

Pos(x) == IF x > 0 THEN x ELSE 0

-----------------------------------------------------------------------------
(* ThreadCleanWalletPassphrase                                             *)

\* Fault variant: the relock clears the timer but forgets Lock().
RelockCheckNoLock(t, T) ==
  IF T = Disarmed \/ T <= 0
    THEN /\ rstate' = [rstate EXCEPT ![t] = "done"]
         /\ nWalletUnlockTime' = Disarmed
         /\ UNCHANGED <<locked, sleepLeft>>
    ELSE /\ rstate' = [rstate EXCEPT ![t] = "sleeping"]
         /\ sleepLeft' = [sleepLeft EXCEPT ![t] = T]
         /\ nWalletUnlockTime' = T
         /\ UNCHANGED locked

\* The do-while loop's test, under cs_nWalletUnlockTime: stop when the
\* timer was disarmed or its deadline has passed, then relock if it is
\* still armed; otherwise leave the lock and Sleep(nToSleep).
RelockCheck(t, T) ==
  IF T = Disarmed \/ T <= 0
    THEN /\ rstate' = [rstate EXCEPT ![t] = "done"]
         /\ IF T # Disarmed
              THEN nWalletUnlockTime' = Disarmed /\ locked' = TRUE
              ELSE nWalletUnlockTime' = T /\ UNCHANGED locked
         /\ UNCHANGED sleepLeft
    ELSE /\ rstate' = [rstate EXCEPT ![t] = "sleeping"]
         /\ sleepLeft' = [sleepLeft EXCEPT ![t] = T]
         /\ nWalletUnlockTime' = T
         /\ UNCHANGED locked

\* Fault variant: a thread that finds the timer armed adds its own time
\* to it instead of taking the later deadline.
RelockStartAdd(t) ==
  /\ rstate[t] = "spawned"
  /\ LET w == Pos(timeoutArg[t]) IN
       /\ wake' = [wake EXCEPT ![t] = w]
       /\ IF nWalletUnlockTime = Disarmed
            THEN RelockCheck(t, w)
            ELSE /\ nWalletUnlockTime' = nWalletUnlockTime + w
                 /\ rstate' = [rstate EXCEPT ![t] = "done"]
                 /\ UNCHANGED <<locked, sleepLeft>>
  /\ UNCHANGED <<crypted, shutdown, fWalletUnlockMintOnly, nSessions, timeoutArg, nSpends,
                 lastResult>>

\* Fault variant: a thread that finds the timer armed overwrites the
\* deadline with its own even when that is earlier.
RelockStartOverwrite(t) ==
  /\ rstate[t] = "spawned"
  /\ LET w == Pos(timeoutArg[t]) IN
       /\ wake' = [wake EXCEPT ![t] = w]
       /\ IF nWalletUnlockTime = Disarmed
            THEN RelockCheck(t, w)
            ELSE /\ nWalletUnlockTime' = w
                 /\ rstate' = [rstate EXCEPT ![t] = "done"]
                 /\ UNCHANGED <<locked, sleepLeft>>
  /\ UNCHANGED <<crypted, shutdown, fWalletUnlockMintOnly, nSessions, timeoutArg, nSpends,
                 lastResult>>

\* The thread starts: nMyWakeTime from the clock now, then under the lock
\* either arm the disarmed timer and run the loop, or only push the armed
\* timer's deadline out to nMyWakeTime and return.
RelockStart(t) ==
  /\ rstate[t] = "spawned"
  /\ LET w == Pos(timeoutArg[t]) IN
       /\ wake' = [wake EXCEPT ![t] = w]
       /\ IF nWalletUnlockTime = Disarmed
            THEN RelockCheck(t, w)
            ELSE /\ nWalletUnlockTime' = IF nWalletUnlockTime < w THEN w
                                         ELSE nWalletUnlockTime
                 /\ rstate' = [rstate EXCEPT ![t] = "done"]
                 /\ UNCHANGED <<locked, sleepLeft>>
  /\ UNCHANGED <<crypted, shutdown, fWalletUnlockMintOnly, nSessions, timeoutArg, nSpends,
                 lastResult>>

\* Sleep() returns.
RelockWake(t) ==
  /\ rstate[t] = "sleeping" /\ sleepLeft[t] = 0
  /\ rstate' = [rstate EXCEPT ![t] = "reenter"]
  /\ UNCHANGED <<crypted, shutdown, locked, nWalletUnlockTime, fWalletUnlockMintOnly, nSessions,
                 timeoutArg, wake, sleepLeft, nSpends, lastResult>>

\* ENTER_CRITICAL_SECTION again and test the loop condition.
RelockReenter(t) ==
  /\ rstate[t] = "reenter"
  /\ RelockCheck(t, nWalletUnlockTime)
  /\ UNCHANGED <<crypted, shutdown, fWalletUnlockMintOnly, nSessions, timeoutArg, wake, nSpends,
                 lastResult>>

-----------------------------------------------------------------------------
(* RPC commands                                                            *)

\* walletpassphrase on an encrypted wallet.  An already unlocked wallet,
\* an empty or a wrong passphrase fail before anything changes.  After
\* Unlock() it starts the relock thread with params[1].get_int64(), which
\* throws on a value of another type, and then sets the mint-only flag
\* from params[2].get_bool(), which throws likewise.
WalletPassphrase(p, to, mint) ==
  /\ nSessions < MaxUnlocks
  /\ \/ /\ ~crypted
        /\ lastResult' = "error"
        /\ UNCHANGED <<locked, nSessions, relockVars, fWalletUnlockMintOnly>>
     \/ /\ crypted /\ ~locked
        /\ lastResult' = "error"
        /\ UNCHANGED <<locked, nSessions, relockVars, fWalletUnlockMintOnly>>
     \/ /\ locked /\ p # "good"
        /\ lastResult' = "error"
        /\ UNCHANGED <<locked, nSessions, relockVars, fWalletUnlockMintOnly>>
     \/ /\ locked /\ p = "good" /\ to = IllTyped
        /\ locked' = FALSE
        /\ lastResult' = "error"
        /\ UNCHANGED <<nSessions, relockVars, fWalletUnlockMintOnly>>
     \/ /\ locked /\ p = "good" /\ to # IllTyped
        /\ locked' = FALSE
        /\ nSessions' = nSessions + 1
        /\ rstate' = [rstate EXCEPT ![nSessions + 1] = "spawned"]
        /\ timeoutArg' = [timeoutArg EXCEPT ![nSessions + 1] = to]
        /\ IF mint = IllTyped
             THEN lastResult' = "error" /\ UNCHANGED fWalletUnlockMintOnly
             ELSE /\ lastResult' = "ok"
                  /\ fWalletUnlockMintOnly' = (mint = TRUE)
        /\ UNCHANGED <<wake, sleepLeft>>
  /\ UNCHANGED <<crypted, shutdown, nWalletUnlockTime, nSpends>>

\* Fault variant: walletlock disarms the timer but forgets Lock().
WalletLockNoLock ==
  /\ crypted
  /\ nWalletUnlockTime' = Disarmed
  /\ UNCHANGED <<crypted, shutdown, locked, fWalletUnlockMintOnly, nSessions, relockVars,
                 nSpends, lastResult>>

\* walletlock: under cs_nWalletUnlockTime, Lock() and disarm the timer.
\* On a plain wallet it throws RPC_WALLET_WRONG_ENC_STATE, changing nothing.
WalletLock ==
  /\ crypted
  /\ locked' = TRUE
  /\ nWalletUnlockTime' = Disarmed
  /\ UNCHANGED <<crypted, shutdown, fWalletUnlockMintOnly, nSessions, relockVars, nSpends,
                 lastResult>>

\* encryptwallet on a plain wallet with a non-empty passphrase:
\* EncryptWallet() leaves the wallet encrypted and locked, then
\* StartShutdown().  On an encrypted wallet, with an empty passphrase, or
\* when EncryptWallet() fails, it throws and changes nothing.
EncryptWallet(p) ==
  /\ ~crypted /\ p # "empty"
  /\ crypted' = TRUE /\ locked' = TRUE /\ shutdown' = TRUE
  /\ UNCHANGED <<nWalletUnlockTime, fWalletUnlockMintOnly, nSessions,
                 relockVars, nSpends, lastResult>>

\* sendtoaddress checks IsLocked() itself and nothing else.
SendToAddress ==
  /\ ~locked /\ nSpends < MaxSpends
  /\ nSpends' = nSpends + 1
  /\ UNCHANGED <<crypted, shutdown, locked, nWalletUnlockTime, fWalletUnlockMintOnly, nSessions,
                 relockVars, lastResult>>

\* sendfrom, sendmany, signmessage, ... call EnsureWalletIsUnlocked().
EnsureWalletIsUnlocked == ~locked /\ ~fWalletUnlockMintOnly

SendFrom ==
  /\ EnsureWalletIsUnlocked /\ nSpends < MaxSpends
  /\ nSpends' = nSpends + 1
  /\ UNCHANGED <<crypted, shutdown, locked, nWalletUnlockTime, fWalletUnlockMintOnly, nSessions,
                 relockVars, lastResult>>

\* A second passes.  Only deadlines and sleeps observe the clock, so time
\* moves only while one of them is still running.
Tick ==
  /\ \/ nWalletUnlockTime # Disarmed /\ nWalletUnlockTime > 0
     \/ \E t \in Threads : rstate[t] = "sleeping" /\ sleepLeft[t] > 0
  /\ nWalletUnlockTime' = IF nWalletUnlockTime = Disarmed THEN Disarmed
                          ELSE Pos(nWalletUnlockTime - 1)
  /\ wake' = [t \in Threads |-> Pos(wake[t] - 1)]
  /\ sleepLeft' = [t \in Threads |-> Pos(sleepLeft[t] - 1)]
  /\ UNCHANGED <<crypted, shutdown, locked, fWalletUnlockMintOnly, nSessions, rstate, timeoutArg,
                 nSpends, lastResult>>

-----------------------------------------------------------------------------

\* At start-up: a plain wallet, or an encrypted one that is locked; the
\* timer is disarmed.
Init ==
  /\ crypted \in BOOLEAN
  /\ locked = crypted
  /\ shutdown = FALSE
  /\ nWalletUnlockTime = Disarmed
  /\ fWalletUnlockMintOnly = FALSE
  /\ nSessions = 0
  /\ rstate = [t \in Threads |-> "none"]
  /\ timeoutArg = [t \in Threads |-> 0]
  /\ wake = [t \in Threads |-> 0]
  /\ sleepLeft = [t \in Threads |-> 0]
  /\ nSpends = 0
  /\ lastResult = "none"

RelockStep(t) ==
  RelockStart(t) \/ RelockWake(t) \/ RelockReenter(t)

\* After StartShutdown() the server takes no more commands.
Next ==
  \/ /\ ~shutdown
     /\ \/ \E p \in Passphrases, to \in Timeouts, m \in MintArgs :
             WalletPassphrase(p, to, m)
        \/ WalletLock \/ SendToAddress \/ SendFrom
        \/ \E p \in Passphrases : EncryptWallet(p)
  \/ \E t \in Threads : RelockStep(t)
  \/ Tick

\* Relock threads are scheduled and the clock advances; RPC clients are
\* not obliged to call anything.
Spec == Init /\ [][Next]_vars
             /\ \A t \in Threads : WF_vars(RelockStep(t))
             /\ WF_vars(Tick)

-----------------------------------------------------------------------------
(* Properties                                                              *)

TypeOK ==
  /\ crypted \in BOOLEAN /\ shutdown \in BOOLEAN
  /\ locked \in BOOLEAN /\ fWalletUnlockMintOnly \in BOOLEAN
  /\ nWalletUnlockTime \in 0..MaxTimeout \cup {Disarmed}
  /\ nSessions \in 0..MaxUnlocks
  /\ rstate \in [Threads -> {"none", "spawned", "sleeping", "reenter", "done"}]
  /\ wake \in [Threads -> 0..MaxTimeout]
  /\ sleepLeft \in [Threads -> 0..MaxTimeout]
  /\ nSpends \in 0..MaxSpends
  /\ lastResult \in {"none", "ok", "error"}

\* The relock thread of the current unlock session.
Current == nSessions

Started(t) == rstate[t] \in {"sleeping", "reenter", "done"}

\* An unlocked encrypted wallet always has a relock on the way: the session's
\* relock thread has yet to start, or the timer is armed and some relock
\* thread is in its sleep loop.
RelockPending ==
  crypted /\ ~locked =>
    \/ \E t \in Threads : rstate[t] = "spawned"
    \/ /\ nWalletUnlockTime # Disarmed
       /\ \E t \in Threads : rstate[t] \in {"sleeping", "reenter"}

\* Once the session's relock thread has started, no relock thread locks
\* the wallet before that thread's own deadline (nMyWakeTime) has passed.
NoEarlyRelock ==
  [][ (~locked /\ locked' /\ \E t \in Threads : RelockStep(t)
       /\ Current > 0 /\ Started(Current))
        => wake[Current] = 0 ]_vars

\* The timer, its threads and the commands implement the abstract wallet
\* session: every step is an encryption, an unlock from locked, a lock, a
\* spend of an unlocked wallet, or leaves the lock alone; and under
\* relock-thread and clock fairness an unlocked wallet is eventually
\* locked.
Session == INSTANCE WalletSession WITH spends <- nSpends

SessionRefined == Session!Spec

\* A walletpassphrase call that returns an error does not unlock the
\* wallet.
ErrorLeavesWalletLocked ==
  [][ (\E p \in Passphrases, to \in Timeouts, m \in MintArgs :
         WalletPassphrase(p, to, m) /\ lastResult' = "error")
        => (locked => locked') ]_vars

\* Once the session's relock thread has started, the deadline the wallet
\* is held to is the one that session asked for.
SessionTimerOwn ==
  (~locked /\ Current > 0 /\ Started(Current)
     /\ nWalletUnlockTime # Disarmed)
    => nWalletUnlockTime = wake[Current]
=============================================================================
