---------------------------- MODULE MCAdminLocks ----------------------------
(***************************************************************************)
(* Two admins on one direct-paid booking: one cancels it, one reverses the *)
(* PayPal refund of its payment, while a third completes it.               *)
(***************************************************************************)
EXTENDS AdminLocks

CONSTANTS first, canceller, reverser, completer

MCActors == {canceller, reverser, completer}
MCRuns == [a \in MCActors |-> CASE a = canceller -> "forceCancel"
                                [] a = reverser -> "refundReversal"
                                [] a = completer -> "forceComplete"]
MCBookings == {first}
MCOn == [a \in MCActors |-> first]
=============================================================================
