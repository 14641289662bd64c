----------------------------- MODULE MCCheckout -----------------------------
(***************************************************************************)
(* One student, one slot wanted twice (once by PayPal, once with credits), *)
(* and payments that may be lost to the slot, refunded or left behind.     *)
(***************************************************************************)
EXTENDS Checkout

CONSTANTS ann, byPayPal, byCredits, tab1, tab2

MCStudents == {ann}
MCBookings == {byPayPal, byCredits}
MCPayments == {tab1, tab2}

MCOwner == [b \in MCBookings |-> ann]
MCCollides == [b \in MCBookings |-> MCBookings \ {b}]
MCByPayPal == [b \in MCBookings |-> b = byPayPal]
MCPrice == [b \in MCBookings |-> 2]
MCPayer == [p \in MCPayments |-> ann]
MCPackageCredits == 2
MCHold == 1
MCMaxHolds == 1
MCMaxNow == 3
=============================================================================
