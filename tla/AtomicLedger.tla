---------------------------- MODULE AtomicLedger ----------------------------
(***************************************************************************)
(* What the ledger promises its callers, with no locks and no              *)
(* transactions in sight: a row is appended and the balance moved in one   *)
(* step, at most once per key, never below zero, and nothing else ever     *)
(* changes. This is the abstract specification WalletTransactions          *)
(* implements.                                                             *)
(***************************************************************************)
EXTENDS Ledger

CONSTANTS Users, Keys, Deltas

VARIABLE book

Init == book = EmptyBook(Users, Keys)

Append(user, key, delta) ==
    /\ CanPost(book, user, key, delta)
    /\ book' = Post(book, user, key, delta)

Next == \E user \in Users, key \in Keys, delta \in Deltas :
            Append(user, key, delta)

Spec == Init /\ [][Next]_book

TypeOK == book \in Books(Users, Keys)
=============================================================================
