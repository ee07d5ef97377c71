---------------------------- MODULE WalletSession ----------------------------
(***************************************************************************)
(* What the wallet's lock promises its callers, without threads or clocks: *)
(* a plain wallet is never locked and can be encrypted, which leaves it    *)
(* locked; an encrypted wallet is unlocked only from locked and locked     *)
(* again at any time; spending needs an unlocked wallet; and a wallet left *)
(* unlocked does not stay so: it is eventually locked.  WalletUnlock       *)
(* implements it (WalletUnlock!SessionRefined).                            *)
(***************************************************************************)
EXTENDS Naturals

CONSTANT MaxSpends   \* bound: spends

VARIABLES crypted, locked, spends

svars == <<crypted, locked, spends>>

Encrypt ==
  /\ ~crypted
  /\ crypted' = TRUE /\ locked' = TRUE
  /\ UNCHANGED spends

Unlock ==
  /\ crypted /\ locked
  /\ locked' = FALSE
  /\ UNCHANGED <<crypted, spends>>

Lock ==
  /\ crypted /\ ~locked
  /\ locked' = TRUE
  /\ UNCHANGED <<crypted, spends>>

Spend ==
  /\ ~locked /\ spends < MaxSpends
  /\ spends' = spends + 1
  /\ UNCHANGED <<crypted, locked>>

Init ==
  /\ crypted \in BOOLEAN
  /\ locked = crypted
  /\ spends = 0

Next == Encrypt \/ Unlock \/ Lock \/ Spend

\* The relock is the component's own obligation, hence fair.
Spec == Init /\ [][Next]_svars /\ WF_svars(Lock)
=============================================================================
