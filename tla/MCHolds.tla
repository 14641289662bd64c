------------------------------ MODULE MCHolds ------------------------------
(***************************************************************************)
(* One student, three free slots chosen at once with PayPal, and the cap   *)
(* of two open holds that payment-holds.ts sets.                           *)
(***************************************************************************)
EXTENDS Checkout

CONSTANTS ann, mon, tue, wed

MCStudents == {ann}
MCBookings == {mon, tue, wed}
MCPayments == {}
MCOwner == [b \in MCBookings |-> ann]
MCCollides == [b \in MCBookings |-> {}]
MCByPayPal == [b \in MCBookings |-> TRUE]
MCPrice == [b \in MCBookings |-> 1]
MCPayer == [p \in MCPayments |-> ann]
MCPackageCredits == 1
MCHold == 2
MCMaxHolds == 2
MCMaxNow == 4
=============================================================================
