----------------------------- MODULE AdminLocks -----------------------------
(***************************************************************************)
(* The order in which the transactions that unwind or pay a booking lock   *)
(* its rows, and the wallets it shares with the other bookings of the same *)
(* student and tutor. A transaction is the sequence of rows it locks FOR   *)
(* UPDATE, or by writing them, on its longest path; it keeps every lock    *)
(* until it commits. What it does with the rows is in Checkout and Payout. *)
(***************************************************************************)
EXTENDS Sequences, Naturals

CONSTANTS
    Actors,       \* concurrent transactions
    Runs,         \* Runs[a]: the transaction a runs, a name of Transactions
    Bookings,     \* bookings of one student with one tutor
    On,           \* On[a]: the booking it is about
    Nobody, Shared

Kinds == {"payment", "booking", "studentWallet", "earning", "tutorWallet", "request"}

(* A payment, an earning and the request that claims it belong to one booking. *)
Rows == Kinds \X (Bookings \cup {Shared})
Row(a, kind) == <<kind, IF kind \in {"studentWallet", "tutorWallet"} THEN Shared ELSE On[a]>>

(* applyForceCancel with refund "credits" *)
forceCancel == <<"booking", "studentWallet", "earning", "tutorWallet">>

(* Mutant of forceComplete: the earnings row before the booking. *)
forceCompleteEarningFirst == <<"earning", "booking">>

(* applyForceComplete, and each booking of writeOwedEarnings *)
forceComplete == <<"booking", "earning">>

(* applyRefundReversal of a standing direct payment, applyForceCancel within *)
refundReversal == <<"payment", "studentWallet", "booking", "earning", "tutorWallet">>

(* requestWithdrawal, when it has an available row to claim *)
requestWithdrawal == <<"tutorWallet", "earning">>

(* rejectWithdrawal, when it has a claimed row to release *)
rejectWithdrawal == <<"request", "tutorWallet", "earning">>

(* markWithdrawalPaid *)
markWithdrawalPaid == <<"request", "earning">>

(* claimAndCreditEarning *)
releaseEarning == <<"earning", "tutorWallet">>

(* createScheduledBooking with credits, over a stale hold of the student's own *)
createScheduledBooking == <<"booking", "studentWallet">>

(* settleCapture of a direct payment *)
settleCapture == <<"payment", "studentWallet", "booking">>

Transactions == [forceCancel |-> forceCancel, forceComplete |-> forceComplete,
                 refundReversal |-> refundReversal, requestWithdrawal |-> requestWithdrawal,
                 rejectWithdrawal |-> rejectWithdrawal,
                 markWithdrawalPaid |-> markWithdrawalPaid, releaseEarning |-> releaseEarning,
                 createScheduledBooking |-> createScheduledBooking, settleCapture |-> settleCapture]

ASSUME LocksAssumption ==
    /\ Runs \in [Actors -> DOMAIN Transactions]
    /\ On \in [Actors -> Bookings]
    /\ Nobody \notin Actors

VARIABLES
    taken,        \* taken[a]: how many of its rows a has locked
    holder        \* holder[r]: who has row r locked

lockVars == <<taken, holder>>

Script(a) == Transactions[Runs[a]]

LocksInit ==
    /\ taken = [a \in Actors |-> 0]
    /\ holder = [r \in Rows |-> Nobody]

(* The row a waits for, or takes next. *)
Wants(a, r) == taken[a] < Len(Script(a)) /\ Row(a, Script(a)[taken[a] + 1]) = r

Lock(a) == \E r \in Rows :
    /\ Wants(a, r)
    /\ holder[r] = Nobody
    /\ holder' = [holder EXCEPT ![r] = a]
    /\ taken' = [taken EXCEPT ![a] = @ + 1]

(* Commit, and run again for the next press of the button. *)
Commit(a) ==
    /\ taken[a] = Len(Script(a))
    /\ holder' = [r \in Rows |-> IF holder[r] = a THEN Nobody ELSE holder[r]]
    /\ taken' = [taken EXCEPT ![a] = 0]

LocksNext == \E a \in Actors : Lock(a) \/ Commit(a)

LocksSpec == LocksInit /\ [][LocksNext]_lockVars

-----------------------------------------------------------------------------
Waits(a) == \E r \in Rows : Wants(a, r) /\ holder[r] # Nobody
WaitsFor(a, b) == \E r \in Rows : Wants(a, r) /\ holder[r] = b /\ a # b

(***************************************************************************)
(* admin-bookings.ts: "Lock order is booking, then student wallet, then    *)
(* tutor earnings and wallet, so two admin actions can't deadlock on each  *)
(* other." No group of transactions waits in a circle.                     *)
(***************************************************************************)
NoWaitCycle ==
    \A group \in (SUBSET {a \in Actors : Waits(a)}) \ {{}} :
        \E a \in group : \A b \in group : ~WaitsFor(a, b)
=============================================================================
