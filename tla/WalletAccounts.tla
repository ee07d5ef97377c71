--------------------------- MODULE WalletAccounts ---------------------------
(***************************************************************************)
(* The account commands of rpcwallet.cpp over the wallet's ordered items:  *)
(* move, sendfrom and sendmany change the wallet; getbalance, listaccounts *)
(* and listtransactions read it.  Every one is a locked command, run whole *)
(* under cs_main and cs_wallet, so a write is one step and a read is a     *)
(* function of the state it runs in; the properties evaluate the reads in  *)
(* every reachable state.                                                  *)
(*                                                                         *)
(* items is the wallet in nOrderPos order: wallet transactions (mapWallet) *)
(* and accounting entries.  A transaction keeps what CWalletTx::GetAmounts *)
(* reports of it: strFromAccount (the sending account, "" for a receipt),  *)
(* whether it is from the wallet (then it sent amt and paid fee), the      *)
(* label of the own address it pays (None if none), the height of its      *)
(* block (-1 while unconfirmed) and IsFinal().  Coinbase and coinstake     *)
(* transactions are left out.                                              *)
(***************************************************************************)
EXTENDS Integers, Sequences, FiniteSetsExt, ListTransactions

CONSTANTS
  Labels,       \* mapAddressBook labels of the wallet's own addresses
  AccountArgs,  \* account arguments: Labels, "" and "*"
  Dests,        \* destination arguments: Labels (own addresses), external ones
  Invalid,      \* a destination string that does not decode (in Dests)
  Amounts,      \* amount arguments (after AmountFromValue)
  MinTxOut,     \* MIN_TXOUT_AMOUNT
  Fee,          \* the fee CreateTransaction charges
  SendToArgs,   \* sendmany's address:amount objects, as sequences of pairs
  MinDepths,    \* minconf arguments
  ListTxArgs,   \* <<count, from>> arguments of listtransactions
  MaxHeight,    \* bound: nBestHeight
  MaxItems,     \* bound: ordered items
  None

VARIABLES
  height,   \* nBestHeight
  items,    \* the ordered transactions and accounting entries
  reply     \* the last write command's outcome

vars == <<height, items, reply>>

IsTx(x) == x.kind = "tx"
IsEntry(x) == x.kind = "entry"

\* GetDepthInMainChain.
Depth(w) == IF w.height < 0 THEN 0 ELSE height - w.height + 1

Txs == {i \in DOMAIN items : IsTx(items[i])}
EntriesIdx == {i \in DOMAIN items : IsEntry(items[i])}

\* GetAmounts: listSent holds the non-change outputs of a transaction from
\* the wallet, nFee its fee; listReceived the outputs to own addresses.
SentOf(w) == IF w.fromMe THEN w.amt ELSE 0
FeeOf(w) == IF w.fromMe THEN w.fee ELSE 0
ReceivedBy(w, a) == IF w.to = a THEN w.amt ELSE 0
ReceivedAny(w) == IF w.to # None THEN w.amt ELSE 0

\* CWalletDB::GetAccountCreditDebit.
CreditDebit(a) ==
  MapThenSumSet(LAMBDA i : IF items[i].acct = a THEN items[i].amt ELSE 0, EntriesIdx)

-----------------------------------------------------------------------------
(* The read commands                                                       *)

\* (fault variant: the depth test is strict)
GetAccountBalanceStrict(a, m) ==
  MapThenSumSet(LAMBDA i :
      LET w == items[i] IN
      IF ~w.final THEN 0
      ELSE (IF ReceivedBy(w, a) # 0 /\ Depth(w) > m THEN ReceivedBy(w, a) ELSE 0)
           - (IF w.from = a THEN SentOf(w) + FeeOf(w) ELSE 0),
    Txs) + CreditDebit(a)

\* GetAccountBalance: over the final transactions, GetAccountAmounts --
\* what own addresses labelled a received, counted at depth minconf or
\* more, less what was sent and paid when a is strFromAccount -- plus the
\* account's accounting entries.
GetAccountBalance(a, m) ==
  MapThenSumSet(LAMBDA i :
      LET w == items[i] IN
      IF ~w.final THEN 0
      ELSE (IF ReceivedBy(w, a) # 0 /\ Depth(w) >= m THEN ReceivedBy(w, a) ELSE 0)
           - (IF w.from = a THEN SentOf(w) + FeeOf(w) ELSE 0),
    Txs) + CreditDebit(a)

\* getbalance "*": over the final transactions, everything received at
\* depth minconf or more, less everything sent and every fee.
StarBalance(m) ==
  MapThenSumSet(LAMBDA i :
      LET w == items[i] IN
      IF ~w.final THEN 0
      ELSE (IF Depth(w) >= m THEN ReceivedAny(w) ELSE 0) - SentOf(w) - FeeOf(w),
    Txs)

\* The keys of listaccounts: the labels of own addresses, every
\* strSentAccount and every accounting entry's account.
ListedAccounts ==
  Labels \cup {items[i].from : i \in Txs} \cup {items[i].acct : i \in EntriesIdx}

\* listaccounts: every transaction, final or not, debits strSentAccount by
\* its fee and what it sent; at depth minconf or more each receipt credits
\* its address's label; then every accounting entry.
ListAccountsMap(m) ==
  [a \in ListedAccounts |->
     MapThenSumSet(LAMBDA i :
         LET w == items[i] IN
         (IF Depth(w) >= m THEN ReceivedBy(w, a) ELSE 0)
         - (IF w.from = a THEN SentOf(w) + FeeOf(w) ELSE 0),
       Txs) + CreditDebit(a)]

\* The entries one item adds to listtransactions' ret for strAccount:
\* ListTransactions (nMinDepth 0) lists a "send" per sent output when the
\* account is strSentAccount, and a "receive" per output to an own address
\* with the account's label; AcentryToJSON lists an entry of the account.
EntryCount(x, a) ==
  LET all == a = "*" IN
  IF IsEntry(x) THEN (IF all \/ x.acct = a THEN 1 ELSE 0)
  ELSE (IF (SentOf(x) # 0 \/ FeeOf(x) # 0) /\ (all \/ x.from = a) THEN 1 ELSE 0)
       + (IF x.to # None /\ (all \/ x.to = a) THEN 1 ELSE 0)

\* OrderedTxItems(acentries, strAccount), as the ledger paging works on.
LedgerOf(a) == [i \in DOMAIN items |-> EntryCount(items[i], a)]

-----------------------------------------------------------------------------
(* The write commands                                                      *)

Err(cmd, what) == [cmd |-> cmd, err |-> what]
Ok(cmd) == [cmd |-> cmd, err |-> None]

\* (fault variant: "*" is accepted as an account name)
AccountErrNone(a) == None

\* AccountFromValue: "*" is not an account name.
AccountErr(a) == IF a = "*" THEN "invalid account name" ELSE None

\* (fault variant: the credit entry is not written)
MoveDebitOnly(from, to, amt) ==
  LET err == IF AccountErr(from) # None THEN AccountErr(from)
             ELSE IF AccountErr(to) # None THEN AccountErr(to)
             ELSE IF amt < MinTxOut THEN "amount too small"
             ELSE None
  IN \/ err # None /\ reply' = Err("move", err) /\ UNCHANGED items
     \/ err = None /\ reply' = Err("move", "database error") /\ UNCHANGED items
     \/ /\ err = None /\ Len(items) + 2 <= MaxItems
        /\ items' = Append(items, [kind |-> "entry", acct |-> from, amt |-> -amt])
        /\ reply' = Ok("move")

\* move: both account names, the amount (at least MIN_TXOUT_AMOUNT), then
\* in one database transaction a debit entry for the source and a credit
\* entry for the destination, each taking the next nOrderPos.  TxnBegin or
\* TxnCommit failing is a database error with neither entry kept.  No
\* balance is checked.
Move(from, to, amt) ==
  LET err == IF AccountErr(from) # None THEN AccountErr(from)
             ELSE IF AccountErr(to) # None THEN AccountErr(to)
             ELSE IF amt < MinTxOut THEN "amount too small"
             ELSE None
  IN \/ err # None /\ reply' = Err("move", err) /\ UNCHANGED items
     \/ err = None /\ reply' = Err("move", "database error") /\ UNCHANGED items
     \/ /\ err = None /\ Len(items) + 2 <= MaxItems
        /\ items' = items \o <<[kind |-> "entry", acct |-> from, amt |-> -amt],
                               [kind |-> "entry", acct |-> to, amt |-> amt]>>
        /\ reply' = Ok("move")

\* The transaction a successful send from account a adds: from the wallet,
\* unconfirmed, paying the own address labelled d or an external one.
Sent(a, d, amt) ==
  [kind |-> "tx", from |-> a, fromMe |-> TRUE, amt |-> amt, fee |-> Fee,
   to |-> IF d \in Labels THEN d ELSE None, height |-> -1, final |-> TRUE]

\* Creating the transaction needs coins for the amount and the fee; the
\* wallet's spendable balance is taken as its final, confirmed one.
Fundable(total) == total + Fee <= StarBalance(1)

\* sendfrom: account name, address, amount, EnsureWalletIsUnlocked (the
\* wallet may be locked), the account's balance at minconf, then
\* SendMoneyToDestination, whose failure (strError) changes nothing.
SendFrom(a, d, amt, m) ==
  LET err == IF AccountErr(a) # None THEN AccountErr(a)
             ELSE IF d = Invalid THEN "invalid address"
             ELSE IF amt < MinTxOut THEN "amount too small"
             ELSE None
  IN \/ err # None /\ reply' = Err("sendfrom", err) /\ UNCHANGED items
     \/ err = None /\ reply' = Err("sendfrom", "unlock needed") /\ UNCHANGED items
     \/ /\ err = None /\ amt > GetAccountBalance(a, m)
        /\ reply' = Err("sendfrom", "insufficient funds") /\ UNCHANGED items
     \/ /\ err = None /\ amt <= GetAccountBalance(a, m) /\ ~Fundable(amt)
        /\ reply' = Err("sendfrom", "wallet error") /\ UNCHANGED items
     \/ /\ err = None /\ amt <= GetAccountBalance(a, m) /\ Fundable(amt)
        /\ Len(items) < MaxItems
        /\ items' = Append(items, Sent(a, d, amt))
        /\ reply' = Ok("sendfrom")

\* sendmany's loop over the address:amount pairs, in order: an invalid or
\* repeated address or a too small amount ends it with an error; else the
\* amounts are summed into totalAmount.
RECURSIVE ScanSendTo(_, _, _, _)
ScanSendTo(s, i, seen, total) ==
  IF i > Len(s) THEN [err |-> None, total |-> total]
  ELSE IF s[i].dest = Invalid THEN [err |-> "invalid address", total |-> total]
  ELSE IF s[i].dest \in seen THEN [err |-> "duplicated address", total |-> total]
  ELSE IF s[i].amt < MinTxOut THEN [err |-> "amount too small", total |-> total]
  ELSE ScanSendTo(s, i + 1, seen \cup {s[i].dest}, total + s[i].amt)

\* sendmany: account name, the loop, EnsureWalletIsUnlocked, the account's
\* balance against totalAmount, then CreateTransaction (its failure is
\* "Insufficient funds" when totalAmount and the fee exceed the wallet's
\* balance) and CommitTransaction, which may fail.  The transaction pays
\* external addresses only.
SendMany(a, sendTo, m) ==
  LET scan == ScanSendTo(sendTo, 1, {}, 0)
      err == IF AccountErr(a) # None THEN AccountErr(a)
             ELSE IF scan.err # None THEN scan.err
             ELSE None
      ok == err = None /\ scan.total <= GetAccountBalance(a, m)
  IN \/ err # None /\ reply' = Err("sendmany", err) /\ UNCHANGED items
     \/ err = None /\ reply' = Err("sendmany", "unlock needed") /\ UNCHANGED items
     \/ /\ err = None /\ scan.total > GetAccountBalance(a, m)
        /\ reply' = Err("sendmany", "insufficient funds") /\ UNCHANGED items
     \/ ok /\ ~Fundable(scan.total) /\ reply' = Err("sendmany", "insufficient funds")
        /\ UNCHANGED items
     \/ ok /\ Fundable(scan.total) /\ reply' = Err("sendmany", "commit failed")
        /\ UNCHANGED items
     \/ /\ ok /\ Fundable(scan.total) /\ Len(items) < MaxItems
        /\ items' = Append(items, Sent(a, None, scan.total))
        /\ reply' = Ok("sendmany")

-----------------------------------------------------------------------------
(* The node                                                                *)

\* A payment to an own address labelled l enters the wallet, unconfirmed.
Receive(l, amt, final) ==
  /\ Len(items) < MaxItems
  /\ items' = Append(items, [kind |-> "tx", from |-> "", fromMe |-> FALSE, amt |-> amt,
                             fee |-> 0, to |-> l, height |-> -1, final |-> final])
  /\ UNCHANGED <<height, reply>>

\* A new best block, including some of the pending final transactions.
AddBlock ==
  /\ height < MaxHeight
  /\ height' = height + 1
  /\ \E inc \in SUBSET {i \in Txs : items[i].height < 0 /\ items[i].final} :
       items' = [i \in DOMAIN items |->
                   IF i \in inc THEN [items[i] EXCEPT !.height = height + 1] ELSE items[i]]
  /\ UNCHANGED reply

-----------------------------------------------------------------------------

Init ==
  /\ height = 0
  /\ items = << >>
  /\ reply = [cmd |-> "none", err |-> None]

WriteCommand ==
  \/ \E f, t \in AccountArgs, amt \in Amounts : Move(f, t, amt)
  \/ \E a \in AccountArgs, d \in Dests, amt \in Amounts, m \in MinDepths : SendFrom(a, d, amt, m)
  \/ \E a \in AccountArgs, s \in SendToArgs, m \in MinDepths : SendMany(a, s, m)

Next ==
  \/ WriteCommand /\ UNCHANGED height
  \/ \E l \in Labels, amt \in Amounts \ {0}, f \in BOOLEAN : Receive(l, amt, f)
  \/ AddBlock

Spec == Init /\ [][Next]_vars

-----------------------------------------------------------------------------
(* Properties                                                              *)

Item ==
  [kind : {"tx"}, from : (AccountArgs \cup {""}) \ {"*"}, fromMe : BOOLEAN, amt : Nat,
   fee : {0, Fee}, to : Labels \cup {None}, height : -1..MaxHeight, final : BOOLEAN]
  \cup [kind : {"entry"}, acct : (AccountArgs \ {"*"}), amt : Int]

ErrorText ==
  {"invalid account name", "invalid address", "duplicated address", "amount too small",
   "database error", "unlock needed", "insufficient funds", "wallet error", "commit failed"}

\* Type invariant: in particular no transaction or accounting entry ever
\* names the account "*", which AccountFromValue reserves for "all".
TypeOK ==
  /\ height \in 0..MaxHeight
  /\ items \in Seq(Item) /\ Len(items) <= MaxItems
  /\ \A i \in Txs : items[i].height <= height
  /\ reply.cmd \in {"none", "move", "sendfrom", "sendmany"}
  /\ reply.err \in ErrorText \cup {None}

\* getbalance "*" equals the sum of getbalance over every account, at each
\* minconf: the comment of getbalance's "*" path ("getbalance and
\* getbalance '*' should always return the same number") at the account
\* level.  It needs every move to write its debit and its credit together
\* and every send to be charged to exactly one account.
StarIsSumOfAccounts ==
  \A m \in MinDepths :
    StarBalance(m) = MapThenSumSet(LAMBDA a : GetAccountBalance(a, m), ListedAccounts)

\* listaccounts reports, for every account and every minconf of at least
\* one, the balance getbalance <account> reports, though the two tally the
\* wallet in separate loops (listaccounts without IsFinal()).
ListAccountsAgrees ==
  \A m \in MinDepths \ {0} :
    \A a \in ListedAccounts : ListAccountsMap(m)[a] = GetAccountBalance(a, m)

\* listtransactions, for every account argument (and "*") and every
\* count/from pair, returns the page its help text promises over the
\* entries the wallet's ordered items produce for that account.
PageCorrect ==
  \A a \in AccountArgs \cup ListedAccounts, p \in ListTxArgs :
    PageAsPromised(LedgerOf(a), p[1], p[2])
=============================================================================
