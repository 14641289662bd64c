------------------------------ MODULE Checkout ------------------------------
(***************************************************************************)
(* A scheduled booking from the slot to the money, and the credit purchase *)
(* that shares its settlement: createScheduledBooking, the PayPal order    *)
(* and capture routes, the PayPal webhook, the expire-unpaid job and the   *)
(* two admin unwinds (force-cancel, refund reversal).                      *)
(*                                                                         *)
(* One action is one database transaction, or the stretch between two     *)
(* awaits that a concurrent caller can tell apart. A transaction that      *)
(* decides on rows it holds FOR UPDATE is one step (WalletTransactions     *)
(* justifies that for the wallet); createScheduledBooking, which counts    *)
(* holds without a lock, is two.                                           *)
(***************************************************************************)
EXTENDS Ledger, FiniteSets

CONSTANTS
    Students,
    Bookings,     \* booking attempts; one id stands for the row an attempt inserts
    Payments,     \* payments rows, one per PayPal order
    Owner,        \* Owner[b]: the student of b
    Collides,     \* Collides[b]: the bookings whose time overlaps b's at the same tutor
    ByPayPal,     \* ByPayPal[b]: paymentMethod = "paypal"; otherwise credits
    Price,        \* Price[b]: price_credits, pinned when the slot is taken
    Payer,        \* Payer[p]: the student of p
    PackageCredits, \* the credits of the package on sale
    NoBooking, NoPayment,
    Hold,         \* PENDING_PAYMENT_HOLD_MINUTES, in ticks of the clock
    MaxHolds,     \* MAX_OPEN_PAYMENT_HOLDS
    MaxNow        \* bound on the clock

ASSUME CheckoutAssumption ==
    /\ Owner \in [Bookings -> Students]
    /\ Collides \in [Bookings -> SUBSET Bookings]
    /\ \A b, c \in Bookings : c \in Collides[b] => b \in Collides[c] /\ b # c
    /\ ByPayPal \in [Bookings -> BOOLEAN]
    /\ Price \in [Bookings -> Nat \ {0}]
    /\ Payer \in [Payments -> Students]
    /\ PackageCredits \in Nat \ {0}
    /\ NoBooking \notin Bookings /\ NoPayment \notin Payments
    /\ Hold \in Nat \ {0} /\ MaxHolds \in Nat /\ MaxNow \in Nat

VARIABLES
    now,          \* the clock, in ticks
    attempt,      \* attempt[b]: where createScheduledBooking stands for b
    booking,      \* booking[b]: bookings.status; "confirmed" is any status of FORCE_CANCEL_FROM
    created,      \* created[b]: bookings.created_at
    paidBy,       \* history: the payment whose settlement confirmed b
    payment,      \* payment[p]: payments.status, "none" before the row
    pays,         \* pays[p]: payments.booking_id, NoBooking for a credit purchase
    stamped,      \* stamped[p]: provider_order_id is PayPal's, and the buyer has it
    paypal,       \* paypal[p]: what PayPal knows of the order
    response,     \* response[p]: what a capture call still to be applied brought back
    reversed,     \* reversed[p]: the payment.reverse_refund row of audit_log
    book          \* the students' half of the ledger

slotVars == <<attempt, booking, created>>
orderVars == <<pays, stamped, paypal, response>>
vars == <<now, slotVars, paidBy, payment, orderVars, reversed, book>>

Keys == ({"purchase", "purchase_reversal"} \X Payments)
            \cup ({"booking_debit", "booking_refund"} \X Bookings)

Minted(p) == Posted(book, <<"purchase", p>>)
Debited(b) == Posted(book, <<"booking_debit", b>>)
Refunded(b) == Posted(book, <<"booking_refund", b>>)

(* payments.credits_granted: the package's, or the price pinned on the booking. *)
Credits(p) == IF pays[p] = NoBooking THEN PackageCredits ELSE Price[pays[p]]

(* PayPal has captured the money, whatever became of it since. *)
MoneyTaken == {"completed", "partially_refunded", "refunded"}

Init ==
    /\ now = 0
    /\ attempt = [b \in Bookings |-> "idle"]
    /\ booking = [b \in Bookings |-> "none"]
    /\ created = [b \in Bookings |-> 0]
    /\ paidBy = [b \in Bookings |-> NoPayment]
    /\ payment = [p \in Payments |-> "none"]
    /\ pays = [p \in Payments |-> NoBooking]
    /\ stamped = [p \in Payments |-> FALSE]
    /\ paypal = [p \in Payments |-> "none"]
    /\ response = [p \in Payments |-> "none"]
    /\ reversed = [p \in Payments |-> FALSE]
    /\ book = EmptyBook(Students, Keys)

Tick ==
    /\ now < MaxNow
    /\ now' = now + 1
    /\ UNCHANGED <<slotVars, paidBy, payment, orderVars, reversed, book>>

-----------------------------------------------------------------------------
(* createScheduledBooking *)

Pending(b) == booking[b] = "pending_payment"

(* Within its 20 minutes, for the calendar and for the count of open holds. *)
HoldIsLive(b) == Pending(b) /\ created[b] + Hold > now

(* Past them, for the write path: created_at < now - hold. *)
HoldIsStale(b) == Pending(b) /\ created[b] + Hold < now

(* computeSlots: what the calendar, and isSlotOpen, show as taken. *)
ShownTaken(b) == booking[b] = "confirmed" \/ HoldIsLive(b)

(* Mutant of Occupying: the constraint as it was before drizzle/0013. *)
OccupyingOnceConfirmed(b) == booking[b] = "confirmed"

(* The rows bookings_no_overlap counts; its predicate cannot mention the clock. *)
Occupying(b) == booking[b] \in {"pending_payment", "confirmed"}

(* isSlotOpen on freshly loaded rows, before the transaction. *)
CheckSlot(b) ==
    /\ attempt[b] = "idle"
    /\ booking[b] = "none"
    /\ \A c \in Collides[b] : ~ShownTaken(c)
    /\ attempt' = [attempt EXCEPT ![b] = IF ByPayPal[b] THEN "slot_open" ELSE "inserting"]
    /\ UNCHANGED <<now, booking, created, paidBy, payment, orderVars, reversed, book>>

OpenHolds(s) == {b \in Bookings : Owner[b] = s /\ HoldIsLive(b)}

(* The count inside the transaction, which no lock protects until the insert. *)
CountHolds(b) ==
    /\ attempt[b] = "slot_open"
    /\ attempt' = [attempt EXCEPT ![b] =
                      IF Cardinality(OpenHolds(Owner[b])) < MaxHolds THEN "inserting" ELSE "idle"]
    /\ UNCHANGED <<now, booking, created, paidBy, payment, orderVars, reversed, book>>

(* What the insert would collide with, once the colliding stale holds are expired. *)
Winners(b) == {c \in Collides[b] : Occupying(c) /\ ~HoldIsStale(c)}

Affords(b) == ByPayPal[b] \/ Covers(book, Owner[b], -Price[b])

(* The exclusion violation, or InsufficientCreditsError: all of it rolls back. *)
LoseSlot(b) ==
    /\ attempt[b] = "inserting"
    /\ Winners(b) # {} \/ ~Affords(b)
    /\ attempt' = [attempt EXCEPT ![b] = "idle"]
    /\ UNCHANGED <<now, booking, created, paidBy, payment, orderVars, reversed, book>>

(* Expire the colliding stale holds, insert, and debit the credits path, in one commit. *)
TakeSlot(b) ==
    /\ attempt[b] = "inserting"
    /\ Winners(b) = {}
    /\ Affords(b)
    /\ attempt' = [attempt EXCEPT ![b] = "idle"]
    /\ booking' = [c \in Bookings |->
                      IF c = b THEN IF ByPayPal[b] THEN "pending_payment" ELSE "confirmed"
                      ELSE IF c \in Collides[b] /\ HoldIsStale(c) THEN "expired" ELSE booking[c]]
    /\ created' = [created EXCEPT ![b] = now]
    /\ book' = IF ByPayPal[b] THEN book
               ELSE Post(book, Owner[b], <<"booking_debit", b>>, -Price[b])
    /\ UNCHANGED <<now, paidBy, payment, orderVars, reversed>>

(* Mutant of ExpireUnpaid: by age alone, whatever the status. *)
ExpireByAge ==
    /\ \E b \in Bookings : Occupying(b) /\ created[b] + Hold <= now
    /\ booking' = [b \in Bookings |->
                      IF Occupying(b) /\ created[b] + Hold <= now THEN "expired" ELSE booking[b]]
    /\ UNCHANGED <<now, attempt, created, paidBy, payment, orderVars, reversed, book>>

(* The expire-unpaid job: one UPDATE over every hold that is past. *)
ExpireUnpaid ==
    /\ \E b \in Bookings : Pending(b) /\ created[b] + Hold <= now
    /\ booking' = [b \in Bookings |->
                      IF Pending(b) /\ created[b] + Hold <= now THEN "expired" ELSE booking[b]]
    /\ UNCHANGED <<now, attempt, created, paidBy, payment, orderVars, reversed, book>>

-----------------------------------------------------------------------------
(* POST /api/paypal/orders *)

(* A package, or a booking of the caller's own that still awaits its payment. *)
OpenCheckout(p) ==
    /\ payment[p] = "none"
    /\ \E b \in {NoBooking} \cup {c \in Bookings : Owner[c] = Payer[p] /\ Pending(c)} :
           pays' = [pays EXCEPT ![p] = b]
    /\ payment' = [payment EXCEPT ![p] = "created"]
    /\ UNCHANGED <<now, slotVars, paidBy, stamped, paypal, response, reversed, book>>

(* PayPal opens the order. The process may die before it can stamp the row. *)
CreatePayPalOrder(p) ==
    /\ payment[p] = "created"
    /\ paypal[p] = "none"
    /\ paypal' = [paypal EXCEPT ![p] = "open"]
    /\ UNCHANGED <<now, slotVars, paidBy, payment, pays, stamped, response, reversed, book>>

(* PayPal refused the order, or did not answer in time and may have opened it. *)
FailOrder(p) ==
    /\ payment[p] = "created"
    /\ ~stamped[p]
    /\ payment' = [payment EXCEPT ![p] = "failed"]
    /\ UNCHANGED <<now, slotVars, paidBy, orderVars, reversed, book>>

StampOrder(p) ==
    /\ payment[p] = "created"
    /\ paypal[p] = "open"
    /\ stamped' = [stamped EXCEPT ![p] = TRUE]
    /\ UNCHANGED <<now, slotVars, paidBy, payment, pays, paypal, response, reversed, book>>

-----------------------------------------------------------------------------
(* PayPal, as the code uses it. *)

PayPalMoves(p, from, to) ==
    /\ paypal[p] \in from
    /\ paypal' = [paypal EXCEPT ![p] = to]
    /\ UNCHANGED <<now, slotVars, paidBy, payment, pays, stamped, response, reversed, book>>

(* The buyer needs the order id, which the route returns after the stamp. *)
Approve(p) == stamped[p] /\ PayPalMoves(p, {"open"}, "approved")

(* A PENDING capture is resolved by PayPal's review, one way or the other. *)
Review(p) == \E verdict \in {"completed", "denied"} : PayPalMoves(p, {"pending"}, verdict)

(* A refund made on paypal.com, or a chargeback (REVERSED), which is always in full. *)
RefundPart(p) == PayPalMoves(p, {"completed"}, "partially_refunded")
RefundInFull(p) == PayPalMoves(p, {"completed", "partially_refunded"}, "refunded")

(***************************************************************************)
(* The capture call. An order captured before answers                      *)
(* ORDER_ALREADY_CAPTURED and is read again: an order whose money was      *)
(* taken reads COMPLETED even after a refund. Nothing comes back from a    *)
(* call that times out.                                                    *)
(***************************************************************************)
Answer(state) ==
    CASE state \in MoneyTaken -> "completed"
      [] state = "pending" -> "pending"
      [] state = "denied" -> "terminal"

CallCapture(p) ==
    /\ stamped[p]
    /\ payment[p] = "created"
    /\ response[p] = "none"
    /\ paypal[p] \notin {"none", "open"}
    /\ \E state \in IF paypal[p] = "approved" THEN {"completed", "pending", "denied"}
                                              ELSE {paypal[p]} :
           /\ paypal' = [paypal EXCEPT ![p] = state]
           /\ response' \in {response, [response EXCEPT ![p] = Answer(state)]}
    /\ UNCHANGED <<now, slotVars, paidBy, payment, pays, stamped, reversed, book>>

-----------------------------------------------------------------------------
(* Settlement: one decision path for the capture route and the webhook. *)

(* Mutant of Settle: before M4, a late COMPLETED revived a refunded payment. *)
SettleEvenRefunded(p) ==
    LET b == pays[p]
        minted == PostOnce(book, Payer[p], <<"purchase", p>>, Credits(p))
        confirms == b # NoBooking /\ ~Minted(p) /\ Pending(b)
    IN  /\ payment' = [payment EXCEPT ![p] = "captured"]
        /\ IF confirms
           THEN /\ booking' = [booking EXCEPT ![b] = "confirmed"]
                /\ paidBy' = [paidBy EXCEPT ![b] = p]
                /\ book' = PostOnce(minted, Payer[p], <<"booking_debit", b>>, -Credits(p))
           ELSE /\ book' = minted
                /\ UNCHANGED <<booking, paidBy>>

(* Mutant of Settle: the previous order, mint, spend, then try to confirm. *)
SettleSpendFirst(p) ==
    LET b == pays[p]
        minted == PostOnce(book, Payer[p], <<"purchase", p>>, Credits(p))
    IN  \/ /\ payment[p] = "refunded"
           /\ UNCHANGED <<payment, booking, paidBy, book>>
        \/ /\ payment[p] # "refunded"
           /\ payment' = [payment EXCEPT ![p] = "captured"]
           /\ IF b # NoBooking /\ ~Minted(p)
              THEN /\ booking' = IF Pending(b) THEN [booking EXCEPT ![b] = "confirmed"] ELSE booking
                   /\ paidBy' = [paidBy EXCEPT ![b] = p]
                   /\ book' = PostOnce(minted, Payer[p], <<"booking_debit", b>>, -Credits(p))
              ELSE /\ book' = minted
                   /\ UNCHANGED <<booking, paidBy>>

(* Mutant of Settle: a payment whose slot is gone mints nothing. *)
SettleOnlyOpenSlots(p) ==
    LET b == pays[p]
        minted == PostOnce(book, Payer[p], <<"purchase", p>>, Credits(p))
    IN  /\ payment' = [payment EXCEPT ![p] = IF @ = "refunded" THEN @ ELSE "captured"]
        /\ IF payment[p] # "refunded" /\ ~Minted(p) /\ (b = NoBooking \/ Pending(b))
           THEN /\ booking' = [c \in Bookings |-> IF c = b THEN "confirmed" ELSE booking[c]]
                /\ paidBy' = [c \in Bookings |-> IF c = b THEN p ELSE paidBy[c]]
                /\ book' = IF b = NoBooking THEN minted
                           ELSE PostOnce(minted, Payer[p], <<"booking_debit", b>>, -Credits(p))
           ELSE UNCHANGED <<booking, paidBy, book>>

(***************************************************************************)
(* settleCapture. The mint is unconditional, once per payment; the booking *)
(* is confirmed and debited only by the settlement that mints, and only    *)
(* while the booking still waits. A refunded payment is left as it is.     *)
(***************************************************************************)
Settle(p) ==
    LET b == pays[p]
        minted == PostOnce(book, Payer[p], <<"purchase", p>>, Credits(p))
        confirms == b # NoBooking /\ ~Minted(p) /\ Pending(b)
    IN  \/ /\ payment[p] = "refunded"
           /\ UNCHANGED <<payment, booking, paidBy, book>>
        \/ /\ payment[p] # "refunded"
           /\ payment' = [payment EXCEPT ![p] = "captured"]
           /\ IF confirms
              THEN /\ booking' = [booking EXCEPT ![b] = "confirmed"]
                   /\ paidBy' = [paidBy EXCEPT ![b] = p]
                   /\ book' = PostOnce(minted, Payer[p], <<"booking_debit", b>>, -Credits(p))
              ELSE /\ book' = minted
                   /\ UNCHANGED <<booking, paidBy>>

(* Mutant of Mark: no look at the amount, so any refund is a refund. *)
MarkWhatever(p, status, inFull) ==
    /\ payment' = [payment EXCEPT ![p] = status]
    /\ UNCHANGED <<booking, paidBy, book>>

(* markStatus: a refund short of the payment keeps its payload and no more. *)
Mark(p, status, inFull) ==
    /\ payment' = IF inFull THEN [payment EXCEPT ![p] = status] ELSE payment
    /\ UNCHANGED <<booking, paidBy, book>>

(* What settleCapture would answer for p now: a first settlement, or a replay. *)
Outcome(p) ==
    LET b == pays[p] IN
    CASE payment[p] = "refunded" -> "refunded_not_credited"
      [] payment[p] # "refunded" /\ b = NoBooking ->
            IF Minted(p) THEN "already_credited" ELSE "credited"
      [] payment[p] # "refunded" /\ b # NoBooking ->
            IF Minted(p) /\ Debited(b) THEN "booking_already_confirmed"
            ELSE IF ~Minted(p) /\ Pending(b) THEN "booking_confirmed"
            ELSE "booking_unavailable_credits_retained"

(* What no settlement touches. *)
BesidesSettlement == <<now, attempt, created, pays, stamped, paypal, reversed>>

Applied(p) == response' = [response EXCEPT ![p] = "none"]

(* settleCaptureOutcome, on a response that may be old by now. *)
ApplyCompleted(p) ==
    /\ response[p] = "completed"
    /\ Settle(p)
    /\ Applied(p)
    /\ UNCHANGED BesidesSettlement

(* Mutant of ApplyPending: the old behaviour, a pending capture marked failed. *)
ApplyPendingAsFailed(p) ==
    /\ response[p] = "pending"
    /\ Mark(p, "failed", TRUE)
    /\ Applied(p)
    /\ UNCHANGED BesidesSettlement

(* recordPendingCapture: the capture id and payload, never the status. *)
ApplyPending(p) ==
    /\ response[p] = "pending"
    /\ Applied(p)
    /\ UNCHANGED <<BesidesSettlement, payment, booking, paidBy, book>>

ApplyTerminal(p) ==
    /\ response[p] = "terminal"
    /\ Mark(p, "failed", TRUE)
    /\ Applied(p)
    /\ UNCHANGED BesidesSettlement

(***************************************************************************)
(* The webhook. PayPal delivers an event at least once, in any order with  *)
(* the others and with the capture route, once the fact it reports is so.  *)
(***************************************************************************)
OnCompleted(p) ==
    /\ paypal[p] \in MoneyTaken
    /\ Settle(p)
    /\ UNCHANGED <<BesidesSettlement, response>>

OnDenied(p) ==
    /\ paypal[p] = "denied"
    /\ Mark(p, "failed", TRUE)
    /\ UNCHANGED <<BesidesSettlement, response>>

OnRefunded(p) ==
    /\ \E inFull \in BOOLEAN :
           /\ paypal[p] = "refunded" \/ (paypal[p] = "partially_refunded" /\ ~inFull)
           /\ Mark(p, "refunded", inFull)
    /\ UNCHANGED <<BesidesSettlement, response>>

-----------------------------------------------------------------------------
(* The admin unwinds *)

(* applyForceCancel with refund "credits": back what the debit took, once. *)
ForceCancel(b) ==
    /\ booking[b] = "confirmed"
    /\ booking' = [booking EXCEPT ![b] = "cancelled"]
    /\ book' = IF Debited(b)
               THEN PostOnce(book, Owner[b], <<"booking_refund", b>>,
                             -book.rows[<<"booking_debit", b>>])
               ELSE book
    /\ UNCHANGED <<now, attempt, created, paidBy, payment, orderVars, reversed>>

(* Mutant of StandingDebit: the reversal always goes for the credits. *)
NoStandingDebit(p) == FALSE

(* A direct payment whose debit stands, with no refund beside it. *)
StandingDebit(p) == pays[p] # NoBooking /\ Debited(pays[p]) /\ ~Refunded(pays[p])

CanReverse(p) == payment[p] = "refunded" /\ ~reversed[p] /\ Minted(p)

(* applyRefundReversal, plan cancel_booking; refused when the status is not cancellable. *)
ReverseByCancelling(p) ==
    /\ CanReverse(p)
    /\ StandingDebit(p)
    /\ booking[pays[p]] = "confirmed"
    /\ booking' = [booking EXCEPT ![pays[p]] = "cancelled"]
    /\ reversed' = [reversed EXCEPT ![p] = TRUE]
    /\ UNCHANGED <<now, attempt, created, paidBy, payment, orderVars, book>>

(* applyRefundReversal, plan take_credits: as much of the mint as is still there. *)
ReverseByTaking(p) ==
    LET minted == book.rows[<<"purchase", p>>]
        balance == book.balance[Payer[p]]
        take == IF minted <= balance THEN minted ELSE balance
    IN  /\ CanReverse(p)
        /\ ~StandingDebit(p)
        /\ book' = IF take = 0 THEN book
                   ELSE PostOnce(book, Payer[p], <<"purchase_reversal", p>>, -take)
        /\ reversed' = [reversed EXCEPT ![p] = TRUE]
        /\ UNCHANGED <<now, slotVars, paidBy, payment, orderVars>>

-----------------------------------------------------------------------------
StudentStep(b) == CheckSlot(b) \/ CountHolds(b) \/ LoseSlot(b) \/ TakeSlot(b)

OrderStep(p) ==
    \/ OpenCheckout(p) \/ CreatePayPalOrder(p) \/ FailOrder(p) \/ StampOrder(p)
    \/ CallCapture(p) \/ ApplyCompleted(p) \/ ApplyPending(p) \/ ApplyTerminal(p)

PayPalStep(p) ==
    \/ Approve(p) \/ Review(p) \/ RefundPart(p) \/ RefundInFull(p)
    \/ OnCompleted(p) \/ OnDenied(p) \/ OnRefunded(p)

AdminStep ==
    \/ \E b \in Bookings : ForceCancel(b)
    \/ \E p \in Payments : ReverseByCancelling(p) \/ ReverseByTaking(p)

Next ==
    \/ Tick
    \/ ExpireUnpaid
    \/ \E b \in Bookings : StudentStep(b)
    \/ \E p \in Payments : OrderStep(p) \/ PayPalStep(p)
    \/ AdminStep

Spec == Init /\ [][Next]_vars

(* PayPal redelivers PAYMENT.CAPTURE.COMPLETED until it is answered with 200. *)
FairSpec == Spec /\ \A p \in Payments : WF_vars(OnCompleted(p))

-----------------------------------------------------------------------------
TypeOK ==
    /\ now \in Nat
    /\ attempt \in [Bookings -> {"idle", "slot_open", "inserting"}]
    /\ booking \in [Bookings -> {"none", "pending_payment", "confirmed", "expired", "cancelled"}]
    /\ created \in [Bookings -> Nat]
    /\ paidBy \in [Bookings -> Payments \cup {NoPayment}]
    /\ payment \in [Payments -> {"none", "created", "captured", "failed", "refunded"}]
    /\ pays \in [Payments -> Bookings \cup {NoBooking}]
    /\ stamped \in [Payments -> BOOLEAN]
    /\ paypal \in [Payments -> {"none", "open", "approved", "pending", "denied"} \cup MoneyTaken]
    /\ response \in [Payments -> {"none", "completed", "pending", "terminal"}]
    /\ reversed \in [Payments -> BOOLEAN]
    /\ book \in Books(Students, Keys)

(***************************************************************************)
(* Two colliding bookings are never both held or paid for, although the    *)
(* calendar, the hold count, the clock and the settlement all look at      *)
(* different moments (drizzle/0013: "both pay, and the second capture has  *)
(* nowhere to land").                                                      *)
(***************************************************************************)
SlotHeldOnce ==
    \A b \in Bookings : \A c \in Collides[b] :
        ~(booking[b] \in {"pending_payment", "confirmed"}
          /\ booking[c] \in {"pending_payment", "confirmed"})

(***************************************************************************)
(* The booking_debit row is the record of whether the booking was ever     *)
(* confirmed (settlement.ts, replayed; retained-credits.ts): the student   *)
(* is charged for every session they got and for none they did not.        *)
(***************************************************************************)
DebitIffConfirmed ==
    \A b \in Bookings : Debited(b) <=> booking[b] \in {"confirmed", "cancelled"}

(***************************************************************************)
(* A captured payment is always honoured, slot or no slot, and nothing is  *)
(* minted that PayPal did not collect.                                     *)
(***************************************************************************)
MoneyHonoured ==
    \A p \in Payments :
        /\ payment[p] = "captured" => Minted(p)
        /\ Minted(p) => paypal[p] \in MoneyTaken

(***************************************************************************)
(* The status an admin acts on is true at PayPal: failed means no money    *)
(* was or will be taken, refunded means refunded in full (it is what arms  *)
(* the reversal), whatever the order webhooks and old capture responses    *)
(* arrive in.                                                              *)
(***************************************************************************)
StatusTellsPayPal ==
    \A p \in Payments :
        /\ payment[p] = "failed" => paypal[p] = "denied" \/ ~stamped[p]
        /\ payment[p] = "refunded" => paypal[p] = "refunded"
        /\ payment[p] = "captured" => paypal[p] \in MoneyTaken

(***************************************************************************)
(* After an admin reversed a PayPal refund, the student does not also keep *)
(* the session that payment bought.                                        *)
(***************************************************************************)
ReversalUnwindsSession ==
    \A b \in Bookings, p \in Payments :
        paidBy[b] = p /\ reversed[p] => booking[b] = "cancelled"

(* M4: a refund is final; no late COMPLETED mints for it or revives it. *)
RefundIsFinal ==
    [][\A p \in Payments : payment[p] = "refunded" =>
           payment'[p] = "refunded" /\ (Minted(p)' => Minted(p))]_vars

(***************************************************************************)
(* No job, late capture or competing attempt takes a paid session away;    *)
(* only an admin cancels it. An expired or cancelled booking stays so.     *)
(***************************************************************************)
PaidSessionKept ==
    [][\A b \in Bookings :
           /\ booking[b] = "confirmed" => booking'[b] \in {"confirmed", "cancelled"}
           /\ booking[b] \in {"expired", "cancelled"} => booking'[b] = booking[b]]_vars

(***************************************************************************)
(* Money PayPal took becomes credits, even when the buyer closed the tab,  *)
(* the capture call timed out or the slot went: the webhook settles it,    *)
(* unless the money was given back first.                                  *)
(***************************************************************************)
MoneyBecomesCredits ==
    \A p \in Payments : paypal[p] \in MoneyTaken ~> Minted(p) \/ payment[p] = "refunded"

(* The rest of what makes the above inductive. *)
AttemptsAreNew == \A b \in Bookings : attempt[b] # "idle" => booking[b] = "none"

OrderLifecycle ==
    \A p \in Payments :
        /\ payment[p] = "none" => paypal[p] = "none"
        /\ ~stamped[p] => paypal[p] \in {"none", "open"} /\ response[p] = "none"
        /\ response[p] = "completed" => paypal[p] \in MoneyTaken
        /\ response[p] = "terminal" => paypal[p] = "denied"
        /\ reversed[p] => Minted(p) /\ payment[p] = "refunded"

PaidByItsPayment ==
    \A b \in Bookings : paidBy[b] # NoPayment =>
        pays[paidBy[b]] = b /\ Minted(paidBy[b]) /\ booking[b] \in {"confirmed", "cancelled"}

RefundOnCancelled == \A b \in Bookings : Refunded(b) => booking[b] = "cancelled"

LedgerSigns ==
    /\ \A p \in Payments : book.rows[<<"purchase", p>>] >= 0
    /\ \A b \in Bookings : book.rows[<<"booking_debit", b>>] <= 0

CheckoutIInv ==
    /\ TypeOK
    /\ AttemptsAreNew /\ SlotHeldOnce /\ DebitIffConfirmed /\ RefundOnCancelled
    /\ OrderLifecycle /\ MoneyHonoured /\ StatusTellsPayPal
    /\ PaidByItsPayment /\ ReversalUnwindsSession /\ LedgerSigns

-----------------------------------------------------------------------------
(* What the documents say and the code does not do. *)

(***************************************************************************)
(* A replay reports the settlement it replays: already confirmed when this *)
(* payment confirmed the booking, credits retained when it did not         *)
(* (settlement.ts, SettleResult and replayed).                             *)
(***************************************************************************)
ReplayReportsItself ==
    \A p \in Payments : Minted(p) /\ pays[p] # NoBooking /\ payment[p] # "refunded" =>
        (Outcome(p) = "booking_already_confirmed" <=> paidBy[pays[p]] = p)

(***************************************************************************)
(* A cancelled session is given back: as credits, or through the PayPal    *)
(* refund of the payment that bought it (admin-rules.ts, rules 1 and 4).   *)
(***************************************************************************)
CancelledIsGivenBack ==
    \A b \in Bookings : booking[b] = "cancelled" =>
        \/ Refunded(b)
        \/ \E p \in Payments : paidBy[b] = p /\ payment[p] = "refunded"

(* R3: at most MAX_OPEN_PAYMENT_HOLDS unpaid holds per student at once. *)
HoldsWithinCap == \A s \in Students : Cardinality(OpenHolds(s)) <= MaxHolds
=============================================================================
