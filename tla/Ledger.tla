------------------------------- MODULE Ledger -------------------------------
(***************************************************************************)
(* The credits ledger, as every money path of NowTutors sees it.           *)
(*                                                                         *)
(* A book has two halves that the code keeps in step:                      *)
(*   rows    credit_transactions, append-only. A key stands for the pair   *)
(*           (type, reference_id) of the unique index; a key maps to the   *)
(*           delta of its row, and to 0 when it has none (a delta is never *)
(*           zero).                                                        *)
(*   balance wallets.credit_balance, the cached sum (0 without a wallet).  *)
(*                                                                         *)
(* This module has no variables. The module of a money path keeps a book   *)
(* in a variable of its own and moves it with the operators below, one     *)
(* atomic step per database transaction; WalletTransactions shows that the *)
(* code's row locks and unique index make such a step atomic.              *)
(***************************************************************************)
EXTENDS Integers, Functions

Books(Users, Keys) == [rows : [Keys -> Int], balance : [Users -> Nat]]

EmptyBook(Users, Keys) == [rows    |-> [k \in Keys |-> 0],
                           balance |-> [u \in Users |-> 0]]

Posted(book, key) == book.rows[key] # 0

(* applyDelta's refusal: InsufficientCreditsError. *)
Covers(book, user, delta) == book.balance[user] + delta >= 0

CanPost(book, user, key, delta) ==
    /\ delta # 0
    /\ Covers(book, user, delta)
    /\ ~Posted(book, key)

Post(book, user, key, delta) ==
    [rows    |-> [book.rows EXCEPT ![key] = delta],
     balance |-> [book.balance EXCEPT ![user] = @ + delta]]

(***************************************************************************)
(* A post in a savepoint whose DuplicateLedgerReferenceError the caller    *)
(* swallows: isDuplicate in settlement.ts, ledgerOnce in admin-bookings.ts.*)
(***************************************************************************)
PostOnce(book, user, key, delta) ==
    IF Posted(book, key) THEN book ELSE Post(book, user, key, delta)

(* What the reconcile-wallets job asks of one user's wallet. *)
Reconciles(book, user, keysOfUser) ==
    book.balance[user] = SumFunctionOnSet(book.rows, keysOfUser)
=============================================================================
