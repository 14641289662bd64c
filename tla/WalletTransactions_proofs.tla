---------------------- MODULE WalletTransactions_proofs ----------------------
(***************************************************************************)
(* Proofs about lib/credits/ledger.ts, for any number of users, ledger     *)
(* keys and concurrent transactions.                                       *)
(***************************************************************************)
EXTENDS WalletTransactions, SumLemmas, TLAPS

(* No transaction has started: nothing is locked, appended or opened. *)
LEMMA InitLedgerIInv == Init => LedgerIInv
BY TxnsAssumption
   DEF Init, LedgerIInv, TypeOK, WorksOnTrueBalance, AppendsFreshKey, OpensAtZero,
       Appended, Ended, Statements

(* A rollback disturbs nothing: t leaves the working statements. *)
LEMMA RollbackKeeps ==
    ASSUME LedgerIInv, NEW t \in Txns, NEW outcome \in Ended, Rollback(t, outcome)
    PROVE  LedgerIInv'
BY TxnsAssumption
   DEF Rollback, GoTo, LedgerIInv, TypeOK, WorksOnTrueBalance, AppendsFreshKey,
       OpensAtZero, Appended, Ended, Statements

(* Reading under the row lock gives t the true balance and takes it from nobody. *)
LEMMA ReadLockedKeeps ==
    ASSUME LedgerIInv, NEW t \in Txns, ~Appended(t),
           ReadLocked(t, "insertTransaction")
    PROVE  LedgerIInv'
<1> DEFINE u == TxUser[t]
<1>1. u \in Users /\ balance[u] \in Nat
  BY TxnsAssumption DEF LedgerIInv, TypeOK
<1>2. TypeOK'
  BY <1>1 DEF ReadLocked, GoTo, LedgerIInv, TypeOK, Statements
<1>3. WorksOnTrueBalance'
  <2> SUFFICES ASSUME NEW s \in Txns,
                      pc'[s] \in {"insertTransaction", "setBalance", "commit"}
               PROVE  lock'[TxUser[s]] = s /\ current'[s] = balance'[TxUser[s]]
    BY DEF WorksOnTrueBalance
  <2>1. CASE s = t
    BY <1>1, <2>1 DEF ReadLocked, LedgerIInv, TypeOK
  <2>2. CASE s # t
    <3>1. lock[TxUser[s]] = s /\ current[s] = balance[TxUser[s]]
      BY <2>2 DEF ReadLocked, GoTo, LedgerIInv, TypeOK, WorksOnTrueBalance
    <3>2. TxUser[s] # u
      BY <2>2, <3>1, TxnsAssumption DEF ReadLocked
    <3> QED BY <2>2, <3>1, <3>2, TxnsAssumption DEF ReadLocked, LedgerIInv, TypeOK
  <2> QED BY <2>1, <2>2
<1>4. AppendsFreshKey'
  BY DEF ReadLocked, GoTo, LedgerIInv, TypeOK, AppendsFreshKey, Appended
<1>5. OpensAtZero'
  BY DEF ReadLocked, LedgerIInv, OpensAtZero
<1> QED BY <1>2, <1>3, <1>4, <1>5 DEF LedgerIInv

(* Moving on without touching a row, a lock or a working transaction. *)
LEMMA GoToKeeps ==
    ASSUME LedgerIInv, NEW t \in Txns,
           NEW statement \in {"lockWallet", "createWallet"}, GoTo(t, statement),
           UNCHANGED <<opened, balance, rows, lock, current>>
    PROVE  LedgerIInv'
BY TxnsAssumption
   DEF GoTo, LedgerIInv, TypeOK, WorksOnTrueBalance, AppendsFreshKey,
       OpensAtZero, Appended, Ended, Statements

LEMMA NextLedgerIInv == LedgerIInv /\ [Next]_vars => LedgerIInv'
<1> SUFFICES ASSUME LedgerIInv, [Next]_vars
             PROVE  LedgerIInv'
  OBVIOUS
<1>1. CASE UNCHANGED vars
  BY <1>1 DEF vars, LedgerIInv, TypeOK, WorksOnTrueBalance, AppendsFreshKey,
              OpensAtZero, Appended
<1>2. ASSUME NEW t \in Txns, Deliver(t) PROVE LedgerIInv'
  BY <1>2, GoToKeeps DEF Deliver
<1>3. ASSUME NEW t \in Txns, LockWallet(t) PROVE LedgerIInv'
  <2>1. CASE opened[TxUser[t]]
    BY <1>3, <2>1, ReadLockedKeeps DEF LockWallet, Appended
  <2>2. CASE ~opened[TxUser[t]] /\ TxDelta[t] < 0
    BY <1>3, <2>2, RollbackKeeps DEF LockWallet, Ended
  <2>3. CASE ~opened[TxUser[t]] /\ ~(TxDelta[t] < 0)
    BY <1>3, <2>3, GoToKeeps DEF LockWallet
  <2> QED BY <2>1, <2>2, <2>3
<1>4. ASSUME NEW t \in Txns, CreateWallet(t) PROVE LedgerIInv'
  <2>1. TypeOK'
    BY <1>4, TxnsAssumption DEF CreateWallet, GoTo, LedgerIInv, TypeOK, Statements
  <2>2. WorksOnTrueBalance'
    BY <1>4, TxnsAssumption
       DEF CreateWallet, GoTo, LedgerIInv, TypeOK, WorksOnTrueBalance
  <2>3. AppendsFreshKey'
    BY <1>4 DEF CreateWallet, GoTo, LedgerIInv, TypeOK, AppendsFreshKey, Appended
  <2>4. OpensAtZero'
    BY <1>4 DEF CreateWallet, LedgerIInv, OpensAtZero
  <2> QED BY <2>1, <2>2, <2>3, <2>4 DEF LedgerIInv
<1>5. ASSUME NEW t \in Txns, RelockWallet(t) PROVE LedgerIInv'
  BY <1>5, ReadLockedKeeps DEF RelockWallet, Appended
<1>6. ASSUME NEW t \in Txns, InsertTransaction(t) PROVE LedgerIInv'
  <2>1. CASE current[t] + TxDelta[t] < 0
    BY <1>6, <2>1, RollbackKeeps DEF InsertTransaction, Ended
  <2>2. CASE ~(current[t] + TxDelta[t] < 0) /\ rows[TxKey[t]] # 0
    BY <1>6, <2>2, RollbackKeeps DEF InsertTransaction, Ended
  <2>3. CASE ~(current[t] + TxDelta[t] < 0) /\ rows[TxKey[t]] = 0
    <3> USE <1>6, <2>3 DEF InsertTransaction
    <3>1. TypeOK' /\ OpensAtZero'
      BY DEF GoTo, LedgerIInv, TypeOK, OpensAtZero, Statements
    <3>2. WorksOnTrueBalance'
      BY DEF GoTo, LedgerIInv, TypeOK, WorksOnTrueBalance
    <3>3. AppendsFreshKey'
      <4>1. \A s \in Txns : Appended(s) => TxKey[s] # TxKey[t]
        OBVIOUS
      <4>2. \A s \in Txns \ {t} : Appended(s)' <=> Appended(s)
        BY DEF GoTo, LedgerIInv, TypeOK, Appended
      <4>3. current[t] + TxDelta[t] >= 0
        BY TxnsAssumption DEF LedgerIInv, TypeOK
      <4>4. UNCHANGED <<current, rows>>
        OBVIOUS
      <4> QED BY <2>3, <4>1, <4>2, <4>3, <4>4 DEF LedgerIInv, AppendsFreshKey
    <3> QED BY <3>1, <3>2, <3>3 DEF LedgerIInv
  <2> QED BY <2>1, <2>2, <2>3
<1>7. ASSUME NEW t \in Txns, SetBalance(t) PROVE LedgerIInv'
  <2>1. TypeOK' /\ OpensAtZero'
    BY <1>7 DEF SetBalance, GoTo, LedgerIInv, TypeOK, OpensAtZero, Statements
  <2>2. WorksOnTrueBalance'
    BY <1>7 DEF SetBalance, GoTo, LedgerIInv, TypeOK, WorksOnTrueBalance
  <2>3. AppendsFreshKey'
    BY <1>7 DEF SetBalance, GoTo, LedgerIInv, TypeOK, AppendsFreshKey, Appended
  <2> QED BY <2>1, <2>2, <2>3 DEF LedgerIInv
<1>8. ASSUME NEW t \in Txns, Commit(t) PROVE LedgerIInv'
  <2> DEFINE u == TxUser[t]
  <2>1. /\ u \in Users /\ TxKey[t] \in Keys /\ TxDelta[t] \in Int \ {0}
        /\ lock[u] = t /\ current[t] + TxDelta[t] \in Nat
    BY <1>8, TxnsAssumption
       DEF Commit, LedgerIInv, TypeOK, WorksOnTrueBalance, AppendsFreshKey, Appended
  <2>2. TypeOK'
    BY <1>8, <2>1 DEF Commit, GoTo, LedgerIInv, TypeOK, Ended
  <2>3. WorksOnTrueBalance'
    BY <1>8, <2>1, TxnsAssumption
       DEF Commit, GoTo, LedgerIInv, TypeOK, WorksOnTrueBalance
  <2>4. AppendsFreshKey'
    BY <1>8, <2>1, TxnsAssumption
       DEF Commit, GoTo, LedgerIInv, TypeOK, AppendsFreshKey, Appended
  <2>5. OpensAtZero'
    BY <1>8, <2>1 DEF Commit, LedgerIInv, TypeOK, OpensAtZero
  <2> QED BY <2>2, <2>3, <2>4, <2>5 DEF LedgerIInv
<1>9. ASSUME NEW t \in Txns, Abort(t) PROVE LedgerIInv'
  BY <1>9, RollbackKeeps DEF Abort, Ended
<1> QED BY <1>1, <1>2, <1>3, <1>4, <1>5, <1>6, <1>7, <1>8, <1>9 DEF Next

(***************************************************************************)
(* Every transaction of applyDelta works on the true balance, behind the   *)
(* row lock, and appends a key nobody else has, in every interleaving.     *)
(***************************************************************************)
THEOREM WalletSafe == Spec => []LedgerIInv
<1>1. Init => LedgerIInv
  BY InitLedgerIInv
<1>2. LedgerIInv /\ [Next]_vars => LedgerIInv'
  BY NextLedgerIInv
<1> QED BY <1>1, <1>2, PTL DEF Spec

-----------------------------------------------------------------------------
(* The committed tables, as the abstract ledger sees them. *)
Committed == [rows |-> rows, balance |-> balance]

(* Whatever a transaction does before, only its commit is seen. *)
LEMMA OnlyCommitWrites ==
    [Next]_vars => (\E t \in Txns : Commit(t)) \/ UNCHANGED <<rows, balance>>
BY DEF Next, vars, Deliver, LockWallet, CreateWallet, RelockWallet,
       InsertTransaction, SetBalance, Abort, Rollback, ReadLocked

(* Commit is the step of the abstract ledger; everything before is invisible. *)
LEMMA CommitPosts ==
    ASSUME LedgerIInv, NEW t \in Txns, Commit(t)
    PROVE  Atomic!Append(TxUser[t], TxKey[t], TxDelta[t])
<1>1. /\ TxUser[t] \in Users /\ TxKey[t] \in Keys /\ TxDelta[t] \in Int \ {0}
  BY TxnsAssumption
<1>2. /\ current[t] = balance[TxUser[t]]
      /\ current[t] + TxDelta[t] >= 0
      /\ rows[TxKey[t]] = 0
  BY DEF Commit, LedgerIInv, WorksOnTrueBalance, AppendsFreshKey, Appended
<1>3. CanPost(Committed, TxUser[t], TxKey[t], TxDelta[t])
  BY <1>1, <1>2 DEF CanPost, Covers, Posted, Committed
<1>4. /\ rows' = [rows EXCEPT ![TxKey[t]] = TxDelta[t]]
      /\ balance' = [balance EXCEPT ![TxUser[t]] = @ + TxDelta[t]]
  BY <1>1, <1>2 DEF Commit, LedgerIInv, TypeOK
<1>5. Committed' = Post(Committed, TxUser[t], TxKey[t], TxDelta[t])
  BY <1>4 DEF Post, Committed
<1> QED BY <1>3, <1>5 DEF Atomic!Append, Atomic!CanPost, Atomic!Post, Atomic!Covers,
      Atomic!Posted, CanPost, Post, Covers, Posted, Committed

(***************************************************************************)
(* The statements of ledger.ts under READ COMMITTED implement the atomic   *)
(* ledger: at most one post per reference, never below zero.               *)
(***************************************************************************)
THEOREM WalletRefinesLedger == Spec => ImplementsAtomicLedger
<1>1. Init => Atomic!Init
  BY DEF Init, Atomic!Init, Atomic!EmptyBook
<1>2. LedgerIInv /\ [Next]_vars => [Atomic!Next]_Committed
  <2> SUFFICES ASSUME LedgerIInv, [Next]_vars
               PROVE  Atomic!Next \/ UNCHANGED Committed
    OBVIOUS
  <2>1. CASE \E t \in Txns : Commit(t)
    BY <2>1, CommitPosts, TxnsAssumption DEF Atomic!Next
  <2>2. CASE UNCHANGED <<rows, balance>>
    BY <2>2 DEF Committed
  <2> QED BY <2>1, <2>2, OnlyCommitWrites
<1>3. Spec => []LedgerIInv
  BY WalletSafe
<1> QED BY <1>1, <1>2, <1>3, PTL DEF Spec, ImplementsAtomicLedger, Atomic!Spec, Committed

-----------------------------------------------------------------------------
(* No transaction's row, no credit. *)
LEMMA InitNoDrift == Init => NoWalletDrift
<1> SUFFICES ASSUME Init, NEW u \in Users
             PROVE  balance[u] = SumFunctionOnSet(rows, KeysOf(u))
  BY DEF NoWalletDrift, Reconciles
<1>1. \A k \in KeysOf(u) : rows[k] = 0
  BY TxnsAssumption DEF Init, KeysOf
<1>2. SumFunctionOnSet(rows, KeysOf(u)) = 0
  BY <1>1, KeysAssumption, SumZero
<1> QED BY <1>2 DEF Init

(* A commit adds to its user's balance what it writes in one of that user's *)
(* references, which had no row; nobody else's references are touched.      *)
LEMMA CommitKeepsSums ==
    ASSUME LedgerIInv, NoWalletDrift, NEW t \in Txns, Commit(t)
    PROVE  NoWalletDrift'
<1> SUFFICES ASSUME NEW u \in Users
             PROVE  balance'[u] = SumFunctionOnSet(rows', KeysOf(u))
  BY DEF NoWalletDrift, Reconciles
<1> DEFINE k == TxKey[t]
           d == TxDelta[t]
<1>1. /\ k \in Keys /\ d \in Int /\ balance[u] \in Nat
      /\ \A q \in KeysOf(u) : q \in Keys /\ rows[q] \in Int
  BY TxnsAssumption DEF LedgerIInv, TypeOK, KeysOf
<1>2. /\ current[t] = balance[TxUser[t]] /\ rows[k] = 0
      /\ balance'[u] = IF u = TxUser[t] THEN current[t] + d ELSE balance[u]
      /\ \A q \in Keys : rows'[q] = IF q = k THEN d ELSE rows[q]
  BY TxnsAssumption
     DEF Commit, LedgerIInv, TypeOK, WorksOnTrueBalance, AppendsFreshKey, Appended
<1>3. IsFiniteSet(KeysOf(u)) /\ IntOn(rows, KeysOf(u))
  BY <1>1, KeysAssumption DEF IntOn
<1>4. balance[u] = SumFunctionOnSet(rows, KeysOf(u))
  BY DEF NoWalletDrift, Reconciles
<1> HIDE DEF k, d
<1>5. CASE u = TxUser[t]
  <2>1. k \in KeysOf(u)
    BY <1>5 DEF KeysOf, k
  <2>2. rows'[k] \in Int /\ SameOn(rows', rows, KeysOf(u) \ {k})
    BY <1>1, <1>2 DEF SameOn
  <2>3. SumFunctionOnSet(rows', KeysOf(u)) = SumFunctionOnSet(rows, KeysOf(u)) + (rows'[k] - rows[k])
    BY <1>3, <2>1, <2>2, SumChange
  <2>4. rows'[k] = d /\ rows[k] = 0
    BY <1>1, <1>2
  <2> QED BY <1>1, <1>2, <1>4, <1>5, <2>3, <2>4
<1>6. CASE u # TxUser[t]
  <2>1. k \notin KeysOf(u)
    BY <1>6, KeysAssumption DEF KeysOf, k
  <2>2. SameOn(rows', rows, KeysOf(u))
    BY <1>1, <1>2, <2>1 DEF SameOn
  <2>3. SumFunctionOnSet(rows', KeysOf(u)) = SumFunctionOnSet(rows, KeysOf(u))
    BY <1>3, <2>2, SumSame
  <2> QED BY <1>2, <1>4, <1>6, <2>3
<1> QED BY <1>5, <1>6

(***************************************************************************)
(* What reconcile-wallets asks at night holds at every moment: the cached  *)
(* balance of each wallet is the sum of its rows, whatever transactions    *)
(* overlap, abort, are refused or are delivered again.                     *)
(***************************************************************************)
THEOREM WalletsNeverDrift == Spec => []NoWalletDrift
<1>1. LedgerIInv /\ NoWalletDrift /\ [Next]_vars => NoWalletDrift'
  <2> SUFFICES ASSUME LedgerIInv, NoWalletDrift, [Next]_vars
               PROVE  NoWalletDrift'
    OBVIOUS
  <2>1. CASE \E t \in Txns : Commit(t)
    BY <2>1, CommitKeepsSums
  <2>2. CASE UNCHANGED <<rows, balance>>
    BY <2>2 DEF NoWalletDrift, Reconciles
  <2> QED BY <2>1, <2>2, OnlyCommitWrites
<1> QED BY <1>1, InitNoDrift, WalletSafe, PTL DEF Spec
=============================================================================
