------------------------------ MODULE MCWallet ------------------------------
(***************************************************************************)
(* Four transactions on one fresh wallet: the client capture and the       *)
(* webhook of one payment (same key), a second purchase, and a debit that  *)
(* only some orders can afford.                                            *)
(***************************************************************************)
EXTENDS WalletTransactions

CONSTANTS student, capture, webhook, purchase, booking, kPay, kBuy, kBook

MCUsers == {student}
MCKeys == {kPay, kBuy, kBook}
MCTxns == {capture, webhook, purchase, booking}

MCTxUser == [t \in MCTxns |-> student]
MCTxKey == [t \in MCTxns |-> CASE t \in {capture, webhook} -> kPay
                               [] t = purchase -> kBuy
                               [] t = booking -> kBook]
MCTxDelta == [t \in MCTxns |-> CASE t = booking -> -2
                                 [] t \in {capture, webhook} -> 2
                                 [] OTHER -> 1]
=============================================================================
