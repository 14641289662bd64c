------------------------- MODULE WalletTransactions -------------------------
(***************************************************************************)
(* lib/credits/ledger.ts, statement by statement: concurrent database      *)
(* transactions that each credit or debit one wallet through applyDelta,   *)
(* under Postgres READ COMMITTED.                                          *)
(*                                                                         *)
(* opened, balance and rows are the committed tables. A transaction's own  *)
(* writes stay private to it until Commit; what the others do see of it    *)
(* meanwhile is that it blocks them: on the wallet row it locked or        *)
(* inserted (lock) and on the unique-index key it has appended.            *)
(***************************************************************************)
EXTENDS Ledger, FiniteSets

CONSTANTS
    Users, Keys,
    Txns,          \* the transactions, each one call of creditWallet or debitWallet
    TxUser,        \* TxUser[t]: whose wallet it moves
    TxKey,         \* TxKey[t]: (type, reference_id) of its row
    TxDelta,       \* TxDelta[t]: the signed delta
    NoTxn

ASSUME TxnsAssumption ==
    /\ TxUser \in [Txns -> Users]
    /\ TxKey \in [Txns -> Keys]
    /\ TxDelta \in [Txns -> Int \ {0}]
    /\ NoTxn \notin Txns

(* The references a user's rows can have. *)
KeysOf(u) == {TxKey[t] : t \in {s \in Txns : TxUser[s] = u}}

(* A reference is the id of one user's payment, booking or request; a      *)
(* wallet has finitely many.                                               *)
ASSUME KeysAssumption ==
    /\ \A s, t \in Txns : TxKey[s] = TxKey[t] => TxUser[s] = TxUser[t]
    /\ \A u \in Users : IsFiniteSet(KeysOf(u))

VARIABLES
    opened,        \* opened[u]: u has a committed wallet row
    balance,       \* balance[u]: its committed credit_balance, 0 without a row
    rows,          \* rows[k]: the committed ledger row of key k, 0 for none
    lock,          \* lock[u]: who holds, or has inserted and not committed, u's wallet row
    pc,            \* pc[t]: the statement t runs next
    current        \* current[t]: the balance lockWallet gave t

vars == <<opened, balance, rows, lock, pc, current>>

Ended == {"idle", "committed", "insufficient", "duplicate", "aborted"}
Statements == {"lockWallet", "createWallet", "relockWallet",
               "insertTransaction", "setBalance", "commit"}

(* The row t has appended and not yet committed. *)
Appended(t) == pc[t] \in {"setBalance", "commit"}

Init ==
    /\ opened = [u \in Users |-> FALSE]
    /\ balance = [u \in Users |-> 0]
    /\ rows = [k \in Keys |-> 0]
    /\ lock = [u \in Users |-> NoTxn]
    /\ pc = [t \in Txns |-> "idle"]
    /\ current = [t \in Txns |-> 0]

GoTo(t, statement) == pc' = [pc EXCEPT ![t] = statement]

(***************************************************************************)
(* A rollback keeps nothing: the locks go, and with them an uncommitted    *)
(* wallet row.                                                             *)
(***************************************************************************)
Rollback(t, outcome) ==
    /\ GoTo(t, outcome)
    /\ lock' = [u \in Users |-> IF lock[u] = t THEN NoTxn ELSE lock[u]]
    /\ UNCHANGED <<opened, balance, rows, current>>

(* Mutant of ReadLocked: a plain SELECT, which neither waits nor locks. *)
ReadUnlocked(t, next) ==
    /\ current' = [current EXCEPT ![t] = balance[TxUser[t]]]
    /\ GoTo(t, next)
    /\ UNCHANGED <<opened, balance, rows, lock>>

(* FOR UPDATE: waits for another holder, then reads what that one committed. *)
ReadLocked(t, next) ==
    LET u == TxUser[t] IN
    /\ lock[u] \in {NoTxn, t}
    /\ lock' = [lock EXCEPT ![u] = t]
    /\ current' = [current EXCEPT ![t] = balance[u]]
    /\ GoTo(t, next)
    /\ UNCHANGED <<opened, balance, rows>>

(* A caller starts, or starts again: webhooks and captures are redelivered. *)
Deliver(t) ==
    /\ pc[t] \in Ended
    /\ GoTo(t, "lockWallet")
    /\ UNCHANGED <<opened, balance, rows, lock, current>>

LockWallet(t) ==
    /\ pc[t] = "lockWallet"
    /\ IF opened[TxUser[t]] THEN ReadLocked(t, "insertTransaction")
       ELSE IF TxDelta[t] < 0 THEN Rollback(t, "insufficient")
       ELSE GoTo(t, "createWallet") /\ UNCHANGED <<opened, balance, rows, lock, current>>

(* Mutant of CreateWallet: carry on from zero without reading again (M3). *)
CreateWalletBlindly(t) ==
    LET u == TxUser[t] IN
    /\ pc[t] = "createWallet"
    /\ opened[u] \/ lock[u] = NoTxn
    /\ lock' = IF opened[u] THEN lock ELSE [lock EXCEPT ![u] = t]
    /\ current' = [current EXCEPT ![t] = 0]
    /\ GoTo(t, "insertTransaction")
    /\ UNCHANGED <<opened, balance, rows>>

(***************************************************************************)
(* INSERT ... ON CONFLICT DO NOTHING: against a committed row it does      *)
(* nothing, against another transaction's uncommitted row it waits for     *)
(* that one to commit or roll back.                                        *)
(***************************************************************************)
CreateWallet(t) ==
    LET u == TxUser[t] IN
    /\ pc[t] = "createWallet"
    /\ opened[u] \/ lock[u] = NoTxn
    /\ lock' = IF opened[u] THEN lock ELSE [lock EXCEPT ![u] = t]
    /\ GoTo(t, "relockWallet")
    /\ UNCHANGED <<opened, balance, rows, current>>

RelockWallet(t) ==
    /\ pc[t] = "relockWallet"
    /\ ReadLocked(t, "insertTransaction")

(* Mutant of InsertTransaction: no unique index on (type, reference_id). *)
InsertAnyTransaction(t) ==
    /\ pc[t] = "insertTransaction"
    /\ IF current[t] + TxDelta[t] < 0 THEN Rollback(t, "insufficient")
       ELSE GoTo(t, "setBalance") /\ UNCHANGED <<opened, balance, rows, lock, current>>

(***************************************************************************)
(* The balance check, then the append. The unique index refuses a          *)
(* committed duplicate and waits for an uncommitted one.                   *)
(***************************************************************************)
InsertTransaction(t) ==
    /\ pc[t] = "insertTransaction"
    /\ IF current[t] + TxDelta[t] < 0 THEN Rollback(t, "insufficient")
       ELSE IF rows[TxKey[t]] # 0 THEN Rollback(t, "duplicate")
       ELSE /\ \A s \in Txns : Appended(s) => TxKey[s] # TxKey[t]
            /\ GoTo(t, "setBalance")
            /\ UNCHANGED <<opened, balance, rows, lock, current>>

SetBalance(t) ==
    /\ pc[t] = "setBalance"
    /\ GoTo(t, "commit")
    /\ UNCHANGED <<opened, balance, rows, lock, current>>

Commit(t) ==
    LET u == TxUser[t] IN
    /\ pc[t] = "commit"
    /\ opened' = [opened EXCEPT ![u] = TRUE]
    /\ balance' = [balance EXCEPT ![u] = current[t] + TxDelta[t]]
    /\ rows' = [rows EXCEPT ![TxKey[t]] = TxDelta[t]]
    /\ lock' = [lock EXCEPT ![u] = NoTxn]
    /\ GoTo(t, "committed")
    /\ UNCHANGED current

(* A crash, a dropped connection, or a throw later in the caller's transaction. *)
Abort(t) ==
    /\ pc[t] \in Statements
    /\ Rollback(t, "aborted")

Next == \E t \in Txns :
            \/ Deliver(t) \/ LockWallet(t) \/ CreateWallet(t) \/ RelockWallet(t)
            \/ InsertTransaction(t) \/ SetBalance(t) \/ Commit(t) \/ Abort(t)

Spec == Init /\ [][Next]_vars

-----------------------------------------------------------------------------
TypeOK ==
    /\ opened \in [Users -> BOOLEAN]
    /\ balance \in [Users -> Nat]
    /\ rows \in [Keys -> Int]
    /\ lock \in [Users -> Txns \cup {NoTxn}]
    /\ pc \in [Txns -> Ended \cup Statements]
    /\ current \in [Txns -> Nat]

(* Between its lock and its commit a transaction works on the true balance. *)
WorksOnTrueBalance ==
    \A t \in Txns : pc[t] \in {"insertTransaction", "setBalance", "commit"} =>
        /\ lock[TxUser[t]] = t
        /\ current[t] = balance[TxUser[t]]

(* ... and its appended key is its own alone. *)
AppendsFreshKey ==
    \A t \in Txns : Appended(t) =>
        /\ current[t] + TxDelta[t] >= 0
        /\ rows[TxKey[t]] = 0
        /\ \A s \in Txns : Appended(s) /\ TxKey[s] = TxKey[t] => s = t

OpensAtZero == \A u \in Users : ~opened[u] => balance[u] = 0

(***************************************************************************)
(* reconcile-wallets finds no drift: at every moment the cached balance of *)
(* each wallet is the sum of its ledger rows.                              *)
(***************************************************************************)
NoWalletDrift ==
    \A u \in Users : Reconciles([rows |-> rows, balance |-> balance], u, KeysOf(u))

LedgerIInv == TypeOK /\ WorksOnTrueBalance /\ AppendsFreshKey /\ OpensAtZero

-----------------------------------------------------------------------------
(***************************************************************************)
(* Refinement (ledger.ts, "one unit of work"): whatever the interleaving   *)
(* of statements, aborts and redeliveries, what is committed moves only by *)
(* atomic, once-per-reference, never-overdrawing posts.                    *)
(***************************************************************************)
Atomic == INSTANCE AtomicLedger
            WITH Deltas <- {TxDelta[t] : t \in Txns},
                 book <- [rows |-> rows, balance |-> balance]

ImplementsAtomicLedger == Atomic!Spec
=============================================================================
