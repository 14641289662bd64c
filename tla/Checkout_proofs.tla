--------------------------- MODULE Checkout_proofs ---------------------------
(***************************************************************************)
(* The checkout keeps its promises for any number of students, bookings,   *)
(* payments and holds, and without a bound on the overlap of slots.        *)
(***************************************************************************)
EXTENDS Checkout, TLAPS

-----------------------------------------------------------------------------
(* The ledger's operators *)

LEMMA KeyFacts ==
    /\ \A p \in Payments : /\ <<"purchase", p>> \in Keys
                           /\ <<"purchase_reversal", p>> \in Keys
    /\ \A b \in Bookings : /\ <<"booking_debit", b>> \in Keys
                           /\ <<"booking_refund", b>> \in Keys
BY DEF Keys

(* A post adds its row, moves one balance, and leaves a book. *)
LEMMA PostFacts ==
    ASSUME NEW bk \in Books(Students, Keys), NEW s \in Students,
           NEW k \in Keys, NEW d \in Int, bk.balance[s] + d >= 0
    PROVE  /\ Post(bk, s, k, d) \in Books(Students, Keys)
           /\ \A q \in Keys : Post(bk, s, k, d).rows[q] = IF q = k THEN d ELSE bk.rows[q]
           /\ Post(bk, s, k, d).balance[s] = bk.balance[s] + d
<1>1. Post(bk, s, k, d).rows = [bk.rows EXCEPT ![k] = d]
  BY DEF Post
<1>2. Post(bk, s, k, d).balance = [bk.balance EXCEPT ![s] = @ + d]
  BY DEF Post
<1>3. [bk.rows EXCEPT ![k] = d] \in [Keys -> Int]
  BY DEF Books
<1>4. [bk.balance EXCEPT ![s] = @ + d] \in [Students -> Nat]
  BY DEF Books
<1>5. Post(bk, s, k, d) \in Books(Students, Keys)
  BY <1>1, <1>2, <1>3, <1>4 DEF Post, Books
<1>6. bk.rows \in [Keys -> Int] /\ bk.balance \in [Students -> Nat]
  BY DEF Books
<1> QED BY <1>1, <1>2, <1>5, <1>6

-----------------------------------------------------------------------------
LEMMA InitIInv == Init => CheckoutIInv
<1> SUFFICES ASSUME Init PROVE CheckoutIInv
  OBVIOUS
<1>1. /\ book.rows = [k \in Keys |-> 0]
      /\ book.balance = [u \in Students |-> 0]
      /\ book \in Books(Students, Keys)
  BY DEF Init, EmptyBook, Books
<1>2. /\ \A p \in Payments : ~Minted(p) /\ book.rows[<<"purchase", p>>] = 0
      /\ \A b \in Bookings : /\ ~Debited(b) /\ ~Refunded(b)
                             /\ book.rows[<<"booking_debit", b>>] = 0
  BY <1>1, KeyFacts DEF Minted, Debited, Refunded, Posted
<1>3. TypeOK
  BY <1>1 DEF Init, TypeOK
<1>4. AttemptsAreNew /\ DebitIffConfirmed /\ RefundOnCancelled
  BY <1>2 DEF Init, AttemptsAreNew, DebitIffConfirmed, RefundOnCancelled
<1>5. SlotHeldOnce /\ LedgerSigns
  BY <1>2, CheckoutAssumption DEF Init, SlotHeldOnce, LedgerSigns
<1>6. OrderLifecycle /\ MoneyHonoured /\ StatusTellsPayPal
  BY <1>2 DEF Init, OrderLifecycle, MoneyHonoured, StatusTellsPayPal
<1>7. PaidByItsPayment /\ ReversalUnwindsSession
  BY <1>2, CheckoutAssumption DEF Init, PaidByItsPayment, ReversalUnwindsSession
<1> QED BY <1>3, <1>4, <1>5, <1>6, <1>7 DEF CheckoutIInv

-----------------------------------------------------------------------------
(* The booking attempt and the clock *)

LEMMA TickKeeps == CheckoutIInv /\ Tick => CheckoutIInv'
BY CheckoutAssumption
   DEF Tick, slotVars, orderVars, CheckoutIInv, TypeOK, AttemptsAreNew, SlotHeldOnce,
       DebitIffConfirmed, RefundOnCancelled, OrderLifecycle, MoneyHonoured,
       StatusTellsPayPal, PaidByItsPayment, ReversalUnwindsSession, LedgerSigns,
       Minted, Debited, Refunded, MoneyTaken, Keys

(* Checking, counting and losing move the attempt of an unborn booking alone. *)
LEMMA AttemptKeeps ==
    ASSUME CheckoutIInv, NEW b \in Bookings,
           NEW stage \in {"idle", "slot_open", "inserting"},
           stage # "idle" => booking[b] = "none",
           attempt' = [attempt EXCEPT ![b] = stage],
           UNCHANGED <<now, booking, created, paidBy, payment, orderVars, reversed, book>>
    PROVE  CheckoutIInv'
<1>1. TypeOK' /\ AttemptsAreNew'
  BY DEF CheckoutIInv, TypeOK, AttemptsAreNew, orderVars, MoneyTaken, Keys
<1>2. SlotHeldOnce' /\ DebitIffConfirmed' /\ RefundOnCancelled' /\ LedgerSigns'
  BY DEF CheckoutIInv, SlotHeldOnce, DebitIffConfirmed, RefundOnCancelled, LedgerSigns,
         Debited, Refunded
<1>3. OrderLifecycle' /\ MoneyHonoured' /\ StatusTellsPayPal'
  BY DEF CheckoutIInv, OrderLifecycle, MoneyHonoured, StatusTellsPayPal, orderVars,
         Minted, MoneyTaken
<1>4. PaidByItsPayment' /\ ReversalUnwindsSession'
  BY DEF CheckoutIInv, PaidByItsPayment, ReversalUnwindsSession, orderVars, Minted
<1> QED BY <1>1, <1>2, <1>3, <1>4 DEF CheckoutIInv

(* The expiry job moves waiting holds alone. *)
LEMMA ExpireKeeps == CheckoutIInv /\ ExpireUnpaid => CheckoutIInv'
<1> SUFFICES ASSUME CheckoutIInv, ExpireUnpaid PROVE CheckoutIInv'
  OBVIOUS
<1>1. \A b \in Bookings :
          booking'[b] = IF Pending(b) /\ created[b] + Hold <= now THEN "expired" ELSE booking[b]
  BY DEF ExpireUnpaid
<1>2. TypeOK' /\ AttemptsAreNew'
  BY <1>1 DEF ExpireUnpaid, CheckoutIInv, TypeOK, AttemptsAreNew, orderVars, Pending,
              MoneyTaken, Keys
<1>3. SlotHeldOnce'
  BY <1>1, CheckoutAssumption DEF CheckoutIInv, SlotHeldOnce, Pending
<1>4. DebitIffConfirmed' /\ RefundOnCancelled' /\ LedgerSigns'
  BY <1>1 DEF ExpireUnpaid, CheckoutIInv, DebitIffConfirmed, RefundOnCancelled, LedgerSigns,
              Debited, Refunded, Pending
<1>5. OrderLifecycle' /\ MoneyHonoured' /\ StatusTellsPayPal'
  BY DEF ExpireUnpaid, CheckoutIInv, OrderLifecycle, MoneyHonoured, StatusTellsPayPal,
         orderVars, Minted, MoneyTaken
<1>6. PaidByItsPayment' /\ ReversalUnwindsSession'
  BY <1>1 DEF ExpireUnpaid, CheckoutIInv, PaidByItsPayment, ReversalUnwindsSession, orderVars,
              Minted, Pending, TypeOK
<1> QED BY <1>2, <1>3, <1>4, <1>5, <1>6 DEF CheckoutIInv

-----------------------------------------------------------------------------
(* The order, before and beside its settlement *)

(* What only moves a payment, its order or its answer leaves the slots and the ledger. *)
LEMMA OrderFrame ==
    ASSUME CheckoutIInv,
           UNCHANGED <<now, slotVars, paidBy, reversed, book>>
    PROVE  /\ AttemptsAreNew' /\ SlotHeldOnce' /\ DebitIffConfirmed'
           /\ RefundOnCancelled' /\ LedgerSigns' /\ ReversalUnwindsSession'
           /\ \A p \in Payments : Minted(p)' <=> Minted(p)
<1>1. AttemptsAreNew' /\ DebitIffConfirmed' /\ RefundOnCancelled' /\ LedgerSigns'
  BY DEF CheckoutIInv, slotVars, AttemptsAreNew, DebitIffConfirmed, RefundOnCancelled,
         LedgerSigns, Debited, Refunded
<1>2. SlotHeldOnce'
  BY DEF CheckoutIInv, slotVars, SlotHeldOnce
<1>3. ReversalUnwindsSession'
  BY DEF CheckoutIInv, slotVars, ReversalUnwindsSession
<1> QED BY <1>1, <1>2, <1>3 DEF Minted

(* A new row has no money behind it, so nothing points at the one it replaces. *)
LEMMA OpenCheckoutKeeps ==
    ASSUME CheckoutIInv, NEW p \in Payments, OpenCheckout(p)
    PROVE  CheckoutIInv'
<1>1. UNCHANGED <<now, slotVars, paidBy, reversed, book>>
  BY DEF OpenCheckout
<1>2. TypeOK'
  BY DEF OpenCheckout, CheckoutIInv, TypeOK, slotVars, orderVars, MoneyTaken, Keys, Pending
<1>3. OrderLifecycle' /\ MoneyHonoured' /\ StatusTellsPayPal'
  BY <1>1, OrderFrame
     DEF OpenCheckout, CheckoutIInv, TypeOK, OrderLifecycle, MoneyHonoured, StatusTellsPayPal,
         orderVars, MoneyTaken
<1>4. PaidByItsPayment'
  BY <1>1, OrderFrame
     DEF OpenCheckout, CheckoutIInv, TypeOK, OrderLifecycle, MoneyHonoured, PaidByItsPayment,
         slotVars, orderVars, MoneyTaken
<1> QED BY <1>1, <1>2, <1>3, <1>4, OrderFrame DEF CheckoutIInv

LEMMA CreatePayPalOrderKeeps ==
    ASSUME CheckoutIInv, NEW p \in Payments, CreatePayPalOrder(p)
    PROVE  CheckoutIInv'
<1>1. UNCHANGED <<now, slotVars, paidBy, reversed, book>>
  BY DEF CreatePayPalOrder
<1>2. TypeOK'
  BY DEF CreatePayPalOrder, CheckoutIInv, TypeOK, slotVars, orderVars, MoneyTaken, Keys, Pending
<1>3. OrderLifecycle' /\ MoneyHonoured' /\ StatusTellsPayPal'
  BY <1>1, OrderFrame
     DEF CreatePayPalOrder, CheckoutIInv, TypeOK, OrderLifecycle, MoneyHonoured, StatusTellsPayPal,
         orderVars, MoneyTaken
<1>4. PaidByItsPayment'
  BY <1>1, OrderFrame
     DEF CreatePayPalOrder, CheckoutIInv, TypeOK, OrderLifecycle, MoneyHonoured, PaidByItsPayment,
         slotVars, orderVars, MoneyTaken
<1> QED BY <1>1, <1>2, <1>3, <1>4, OrderFrame DEF CheckoutIInv

(* Failed before the stamp: nobody can pay an order nobody was given. *)
LEMMA FailOrderKeeps ==
    ASSUME CheckoutIInv, NEW p \in Payments, FailOrder(p)
    PROVE  CheckoutIInv'
<1>1. UNCHANGED <<now, slotVars, paidBy, reversed, book>>
  BY DEF FailOrder
<1>2. TypeOK'
  BY DEF FailOrder, CheckoutIInv, TypeOK, slotVars, orderVars, MoneyTaken, Keys, Pending
<1>3. OrderLifecycle' /\ MoneyHonoured' /\ StatusTellsPayPal'
  BY <1>1, OrderFrame
     DEF FailOrder, CheckoutIInv, TypeOK, OrderLifecycle, MoneyHonoured, StatusTellsPayPal,
         orderVars, MoneyTaken
<1>4. PaidByItsPayment'
  BY <1>1, OrderFrame
     DEF FailOrder, CheckoutIInv, TypeOK, OrderLifecycle, MoneyHonoured, PaidByItsPayment,
         slotVars, orderVars, MoneyTaken
<1> QED BY <1>1, <1>2, <1>3, <1>4, OrderFrame DEF CheckoutIInv

LEMMA StampOrderKeeps ==
    ASSUME CheckoutIInv, NEW p \in Payments, StampOrder(p)
    PROVE  CheckoutIInv'
<1>1. UNCHANGED <<now, slotVars, paidBy, reversed, book>>
  BY DEF StampOrder
<1>2. TypeOK'
  BY DEF StampOrder, CheckoutIInv, TypeOK, slotVars, orderVars, MoneyTaken, Keys, Pending
<1>3. OrderLifecycle' /\ MoneyHonoured' /\ StatusTellsPayPal'
  BY <1>1, OrderFrame
     DEF StampOrder, CheckoutIInv, TypeOK, OrderLifecycle, MoneyHonoured, StatusTellsPayPal,
         orderVars, MoneyTaken
<1>4. PaidByItsPayment'
  BY <1>1, OrderFrame
     DEF StampOrder, CheckoutIInv, TypeOK, OrderLifecycle, MoneyHonoured, PaidByItsPayment,
         slotVars, orderVars, MoneyTaken
<1> QED BY <1>1, <1>2, <1>3, <1>4, OrderFrame DEF CheckoutIInv

(* A capture moves a created payment only, from approved, and answers what PayPal has. *)
LEMMA CallCaptureKeeps ==
    ASSUME CheckoutIInv, NEW p \in Payments, CallCapture(p)
    PROVE  CheckoutIInv'
<1>1. UNCHANGED <<now, slotVars, paidBy, reversed, book, payment, pays, stamped>>
  BY DEF CallCapture
<1>2. stamped[p] /\ payment[p] = "created" /\ paypal[p] \notin {"none", "open"}
  BY DEF CallCapture
<1>3. PICK state \in {"completed", "partially_refunded", "refunded", "pending", "denied"} :
          /\ paypal[p] = "approved" \/ state = paypal[p]
          /\ paypal' = [paypal EXCEPT ![p] = state]
          /\ response' \in {response, [response EXCEPT ![p] = Answer(state)]}
  BY DEF CallCapture, CheckoutIInv, TypeOK, MoneyTaken
<1>4. /\ Answer(state) \in {"completed", "pending", "terminal"}
      /\ Answer(state) = "completed" => state \in MoneyTaken
      /\ Answer(state) = "terminal" => state = "denied"
  BY DEF Answer, MoneyTaken
<1>5. /\ \A q \in Payments : q # p => paypal'[q] = paypal[q] /\ response'[q] = response[q]
      /\ paypal'[p] = state
      /\ response'[p] = response[p] \/ response'[p] = Answer(state)
      /\ response[p] = "none"
  BY <1>3 DEF CheckoutIInv, TypeOK, CallCapture
<1>6. paypal' \in [Payments -> {"none", "open", "approved", "pending", "denied"} \cup MoneyTaken]
  BY <1>3 DEF CheckoutIInv, TypeOK, MoneyTaken
<1>7. response' \in [Payments -> {"none", "completed", "pending", "terminal"}]
  BY <1>3, <1>4 DEF CheckoutIInv, TypeOK
<1>8. TypeOK'
  BY <1>1, <1>6, <1>7 DEF CheckoutIInv, TypeOK, slotVars, MoneyTaken, Keys
<1>9. OrderLifecycle'
  BY <1>1, <1>2, <1>4, <1>5, OrderFrame DEF CheckoutIInv, OrderLifecycle
<1>10. MoneyHonoured' /\ StatusTellsPayPal'
  BY <1>1, <1>2, <1>3, <1>5, OrderFrame
     DEF CheckoutIInv, MoneyHonoured, StatusTellsPayPal, MoneyTaken
<1>11. PaidByItsPayment'
  BY <1>1, OrderFrame DEF CheckoutIInv, TypeOK, PaidByItsPayment, slotVars
<1> QED BY <1>1, <1>8, <1>9, <1>10, <1>11, OrderFrame DEF CheckoutIInv

LEMMA PayPalKeeps ==
    ASSUME CheckoutIInv, NEW p \in Payments, Approve(p) \/ Review(p) \/ RefundPart(p) \/ RefundInFull(p)
    PROVE  CheckoutIInv'
<1>1. UNCHANGED <<now, slotVars, paidBy, reversed, book, payment, pays, stamped, response>>
  BY DEF Approve, Review, RefundPart, RefundInFull, PayPalMoves
<1>2. PICK to \in {"approved", "completed", "denied", "partially_refunded", "refunded"} :
          /\ paypal' = [paypal EXCEPT ![p] = to]
          /\ CASE to = "approved" -> stamped[p] /\ paypal[p] = "open"
               [] to \in {"completed", "denied"} -> paypal[p] = "pending"
               [] OTHER -> paypal[p] \in {"completed", "partially_refunded"}
  BY DEF Approve, Review, RefundPart, RefundInFull, PayPalMoves
<1>3. /\ \A q \in Payments : q # p => paypal'[q] = paypal[q]
      /\ paypal'[p] = to
      /\ paypal[p] # "denied" /\ paypal[p] # "none" /\ paypal[p] # "refunded"
      /\ paypal[p] = "open" => stamped[p]
      /\ paypal[p] \in MoneyTaken => to \in MoneyTaken
  BY <1>2 DEF CheckoutIInv, TypeOK, MoneyTaken
<1>4. TypeOK'
  BY <1>1, <1>2 DEF CheckoutIInv, TypeOK, slotVars, MoneyTaken, Keys
<1>5. OrderLifecycle'
  BY <1>1, <1>3, OrderFrame DEF CheckoutIInv, OrderLifecycle
<1>6. MoneyHonoured' /\ StatusTellsPayPal'
  BY <1>1, <1>3, OrderFrame DEF CheckoutIInv, MoneyHonoured, StatusTellsPayPal
<1>7. PaidByItsPayment'
  BY <1>1, OrderFrame DEF CheckoutIInv, TypeOK, PaidByItsPayment, slotVars
<1> QED BY <1>1, <1>4, <1>5, <1>6, <1>7, OrderFrame DEF CheckoutIInv

(* An answer is forgotten once it is applied; a pending one changes nothing else. *)
LEMMA ApplyPendingKeeps ==
    ASSUME CheckoutIInv, NEW p \in Payments, ApplyPending(p)
    PROVE  CheckoutIInv'
<1>1. /\ UNCHANGED <<now, slotVars, paidBy, reversed, book, payment, pays, stamped, paypal>>
      /\ response' = [response EXCEPT ![p] = "none"]
  BY DEF ApplyPending, Applied, BesidesSettlement, slotVars
<1>2. TypeOK'
  BY <1>1 DEF CheckoutIInv, TypeOK, slotVars, MoneyTaken, Keys
<1>3. OrderLifecycle' /\ MoneyHonoured' /\ StatusTellsPayPal'
  BY <1>1, OrderFrame
     DEF CheckoutIInv, TypeOK, OrderLifecycle, MoneyHonoured, StatusTellsPayPal, MoneyTaken
<1>4. PaidByItsPayment'
  BY <1>1, OrderFrame DEF CheckoutIInv, TypeOK, PaidByItsPayment, slotVars
<1> QED BY <1>1, <1>2, <1>3, <1>4, OrderFrame DEF CheckoutIInv

(***************************************************************************)
(* A status is marked only with the fact behind it: failed on a denial,    *)
(* refunded on a refund in full.                                           *)
(***************************************************************************)
LEMMA MarkKeeps ==
    ASSUME CheckoutIInv, NEW p \in Payments,
           ApplyTerminal(p) \/ OnDenied(p) \/ OnRefunded(p)
    PROVE  CheckoutIInv'
<1>1. UNCHANGED <<now, slotVars, paidBy, reversed, book, pays, stamped, paypal>>
  BY DEF ApplyTerminal, OnDenied, OnRefunded, Mark, BesidesSettlement, slotVars
<1>2. \/ payment' = payment
      \/ payment' = [payment EXCEPT ![p] = "failed"] /\ paypal[p] = "denied"
      \/ payment' = [payment EXCEPT ![p] = "refunded"] /\ paypal[p] = "refunded"
  BY DEF ApplyTerminal, OnDenied, OnRefunded, Mark, CheckoutIInv, OrderLifecycle
<1>3. response' = response \/ response' = [response EXCEPT ![p] = "none"]
  BY DEF ApplyTerminal, OnDenied, OnRefunded, Applied
<1>4. /\ \A q \in Payments : q # p => payment'[q] = payment[q]
      /\ \/ payment'[p] = payment[p]
         \/ payment'[p] = "failed" /\ paypal[p] = "denied"
         \/ payment'[p] = "refunded" /\ paypal[p] = "refunded"
      /\ \A q \in Payments : response'[q] = response[q] \/ response'[q] = "none"
  BY <1>2, <1>3 DEF CheckoutIInv, TypeOK
<1>5. /\ payment' \in [Payments -> {"none", "created", "captured", "failed", "refunded"}]
      /\ response' \in [Payments -> {"none", "completed", "pending", "terminal"}]
  BY <1>2, <1>3 DEF CheckoutIInv, TypeOK
<1>6. TypeOK'
  BY <1>1, <1>5 DEF CheckoutIInv, TypeOK, slotVars, MoneyTaken, Keys
<1>7. OrderLifecycle'
  BY <1>1, <1>4, OrderFrame DEF CheckoutIInv, OrderLifecycle, StatusTellsPayPal
<1>8. MoneyHonoured' /\ StatusTellsPayPal'
  BY <1>1, <1>4, OrderFrame DEF CheckoutIInv, MoneyHonoured, StatusTellsPayPal
<1>9. PaidByItsPayment'
  BY <1>1, OrderFrame DEF CheckoutIInv, TypeOK, PaidByItsPayment, slotVars
<1> QED BY <1>1, <1>6, <1>7, <1>8, <1>9, OrderFrame DEF CheckoutIInv

-----------------------------------------------------------------------------
(* Taking the slot *)

LEMMA TakeSlotKeeps ==
    ASSUME CheckoutIInv, NEW b \in Bookings, TakeSlot(b)
    PROVE  CheckoutIInv'
<1> DEFINE key == <<"booking_debit", b>>
           status == IF ByPayPal[b] THEN "pending_payment" ELSE "confirmed"
<1>1. /\ Winners(b) = {} /\ Affords(b) /\ booking[b] = "none"
      /\ UNCHANGED <<now, paidBy, payment, pays, stamped, paypal, response, reversed>>
      /\ attempt' = [attempt EXCEPT ![b] = "idle"]
      /\ created' = [created EXCEPT ![b] = now]
  BY DEF TakeSlot, CheckoutIInv, AttemptsAreNew, orderVars
<1>2. /\ booking' \in [Bookings -> {"none", "pending_payment", "confirmed", "expired", "cancelled"}]
      /\ booking'[b] = status
      /\ \A c \in Bookings : c # b =>
             booking'[c] = IF c \in Collides[b] /\ HoldIsStale(c) THEN "expired" ELSE booking[c]
  <2>1. booking' = [c \in Bookings |->
                       IF c = b THEN status
                       ELSE IF c \in Collides[b] /\ HoldIsStale(c) THEN "expired" ELSE booking[c]]
    BY DEF TakeSlot
  <2>2. status \in {"pending_payment", "confirmed"}
    OBVIOUS
  <2>3. \A c \in Bookings : booking'[c] = IF c = b THEN status
            ELSE IF c \in Collides[b] /\ HoldIsStale(c) THEN "expired" ELSE booking[c]
    BY <2>1
  <2> HIDE DEF status
  <2>4. \A c \in Bookings :
            booking'[c] \in {"none", "pending_payment", "confirmed", "expired", "cancelled"}
    BY <2>2, <2>3 DEF CheckoutIInv, TypeOK
  <2> QED BY <2>1, <2>3, <2>4
<1>3. /\ ~Debited(b) /\ book.balance[Owner[b]] \in Nat /\ Owner[b] \in Students
      /\ book \in Books(Students, Keys) /\ Price[b] \in Nat \ {0} /\ key \in Keys
  BY <1>1, CheckoutAssumption, KeyFacts DEF CheckoutIInv, DebitIffConfirmed, TypeOK, Books
<1> PICK delta \in Int : delta = -Price[b] /\ delta < 0
  BY <1>3
<1> HIDE DEF key
<1>4. /\ book' \in Books(Students, Keys)
      /\ \A k \in Keys : book'.rows[k] = IF ~ByPayPal[b] /\ k = key THEN delta ELSE book.rows[k]
  <2>1. CASE ByPayPal[b]
    BY <1>3, <2>1 DEF TakeSlot
  <2>2. CASE ~ByPayPal[b]
    <3>1. book.balance[Owner[b]] + delta >= 0
      BY <1>1, <2>2 DEF Affords, Covers
    <3>2. book' = Post(book, Owner[b], key, delta)
      BY <2>2 DEF TakeSlot, key
    <3> QED BY <1>3, <2>2, <3>1, <3>2, PostFacts
  <2> QED BY <2>1, <2>2
<1>5. /\ \A p \in Payments : /\ Minted(p)' <=> Minted(p)
                             /\ book'.rows[<<"purchase", p>>] = book.rows[<<"purchase", p>>]
      /\ \A c \in Bookings : /\ Refunded(c)' <=> Refunded(c)
                             /\ Debited(c)' <=> Debited(c) \/ (c = b /\ ~ByPayPal[b])
                             /\ book'.rows[<<"booking_debit", c>>] <= 0
  <2>3. \A p \in Payments : book'.rows[<<"purchase", p>>] = book.rows[<<"purchase", p>>]
    BY <1>4, KeyFacts DEF key
  <2>4. \A c \in Bookings : book'.rows[<<"booking_refund", c>>] = book.rows[<<"booking_refund", c>>]
    BY <1>4, KeyFacts DEF key
  <2>5. \A c \in Bookings : book'.rows[<<"booking_debit", c>>] =
            IF ~ByPayPal[b] /\ c = b THEN delta ELSE book.rows[<<"booking_debit", c>>]
    BY <1>4, KeyFacts DEF key
  <2>6. \A c \in Bookings : book'.rows[<<"booking_debit", c>>] <= 0
    <3>1. \A c \in Bookings : book.rows[<<"booking_debit", c>>] <= 0
      BY DEF CheckoutIInv, LedgerSigns
    <3> TAKE c \in Bookings
    <3>2. CASE ~ByPayPal[b] /\ c = b
      BY <2>5, <3>2
    <3>3. CASE ~(~ByPayPal[b] /\ c = b)
      BY <2>5, <3>1, <3>3
    <3> QED BY <3>2, <3>3
  <2> QED
    BY <2>3, <2>4, <2>5, <2>6 DEF Minted, Debited, Refunded, Posted
<1>6. TypeOK' /\ AttemptsAreNew'
  <2>1. created' \in [Bookings -> Nat] /\ attempt' \in [Bookings -> {"idle", "slot_open", "inserting"}]
    BY <1>1 DEF CheckoutIInv, TypeOK
  <2>2. TypeOK'
    BY <1>1, <1>2, <1>4, <2>1 DEF CheckoutIInv, TypeOK, MoneyTaken, Keys
  <2>3. \A c \in Bookings : c # b => attempt'[c] = attempt[c]
    BY <1>1 DEF CheckoutIInv, TypeOK
  <2>4. AttemptsAreNew'
    BY <1>1, <1>2, <2>1, <2>3 DEF CheckoutIInv, TypeOK, AttemptsAreNew, HoldIsStale, Pending
  <2> QED BY <2>2, <2>4
<1>7. SlotHeldOnce'
  <2> SUFFICES ASSUME NEW c \in Bookings, NEW d \in Bookings, d \in Collides[c],
                      booking'[c] \in {"pending_payment", "confirmed"},
                      booking'[d] \in {"pending_payment", "confirmed"}
               PROVE  FALSE
    BY CheckoutAssumption DEF SlotHeldOnce
  <2>1. \A e \in Bookings : e \in Collides[b] => booking'[e] \notin {"pending_payment", "confirmed"}
    <3> SUFFICES ASSUME NEW e \in Bookings, e \in Collides[b], e # b
                 PROVE  booking'[e] \notin {"pending_payment", "confirmed"}
      BY CheckoutAssumption
    <3>1. ~Occupying(e) \/ HoldIsStale(e)
      BY <1>1 DEF Winners
    <3> QED BY <1>2, <3>1 DEF Occupying
  <2>2. c # b /\ d # b
    BY <2>1, CheckoutAssumption
  <2>3. booking[c] = booking'[c] /\ booking[d] = booking'[d]
    BY <1>2, <2>2
  <2> QED BY <2>3 DEF CheckoutIInv, SlotHeldOnce
<1>8. DebitIffConfirmed' /\ RefundOnCancelled' /\ LedgerSigns'
  <2>1. DebitIffConfirmed'
    BY <1>1, <1>2, <1>5 DEF CheckoutIInv, DebitIffConfirmed, HoldIsStale, Pending
  <2>2. RefundOnCancelled'
    BY <1>1, <1>2, <1>5 DEF CheckoutIInv, RefundOnCancelled, HoldIsStale, Pending
  <2>3. LedgerSigns'
    BY <1>5 DEF CheckoutIInv, LedgerSigns
  <2> QED BY <2>1, <2>2, <2>3
<1>9. OrderLifecycle' /\ MoneyHonoured' /\ StatusTellsPayPal'
  BY <1>1, <1>5 DEF CheckoutIInv, OrderLifecycle, MoneyHonoured, StatusTellsPayPal
<1>10. PaidByItsPayment' /\ ReversalUnwindsSession'
  <2>1. paidBy[b] = NoPayment
    BY <1>1 DEF CheckoutIInv, PaidByItsPayment
  <2>2. \A c \in Bookings : booking[c] \in {"confirmed", "cancelled"} => booking'[c] = booking[c]
    BY <1>1, <1>2 DEF HoldIsStale, Pending
  <2>3. \A c \in Bookings : paidBy[c] # NoPayment => paidBy[c] \in Payments
    BY DEF CheckoutIInv, TypeOK
  <2>4. PaidByItsPayment'
    BY <1>1, <1>5, <2>2, <2>3 DEF CheckoutIInv, PaidByItsPayment
  <2>5. ReversalUnwindsSession'
    BY <1>1, <2>1, <2>2, CheckoutAssumption DEF CheckoutIInv, ReversalUnwindsSession
  <2> QED BY <2>4, <2>5
<1> QED BY <1>6, <1>7, <1>8, <1>9, <1>10 DEF CheckoutIInv

-----------------------------------------------------------------------------
(* Settlement *)

(***************************************************************************)
(* What a settlement does to the ledger. The debit is covered because the  *)
(* same transaction mints what it spends, and it is new because a booking  *)
(* that still waits was never debited.                                     *)
(***************************************************************************)
LEMMA SettleEffect ==
    ASSUME CheckoutIInv, NEW p \in Payments, Settle(p), payment[p] # "refunded"
    PROVE  /\ payment' = [payment EXCEPT ![p] = "captured"]
           /\ book' \in Books(Students, Keys)
           /\ book'.rows[<<"purchase", p>>] > 0
           /\ \A k \in Keys : k[1] # "booking_debit" /\ k # <<"purchase", p>> =>
                  book'.rows[k] = book.rows[k]
           /\ \/ /\ \A b \in Bookings :
                        book'.rows[<<"booking_debit", b>>] = book.rows[<<"booking_debit", b>>]
                 /\ UNCHANGED <<booking, paidBy>>
              \/ \E b \in Bookings :
                    /\ pays[p] = b /\ Pending(b)
                    /\ booking' = [booking EXCEPT ![b] = "confirmed"]
                    /\ paidBy' = [paidBy EXCEPT ![b] = p]
                    /\ book'.rows[<<"booking_debit", b>>] < 0
                    /\ \A c \in Bookings \ {b} :
                           book'.rows[<<"booking_debit", c>>] = book.rows[<<"booking_debit", c>>]
<1> DEFINE mintKey == <<"purchase", p>>
           minted == PostOnce(book, Payer[p], mintKey, Credits(p))
<1>1. /\ payment' = [payment EXCEPT ![p] = "captured"]
      /\ IF pays[p] # NoBooking /\ ~Minted(p) /\ Pending(pays[p])
         THEN /\ booking' = [booking EXCEPT ![pays[p]] = "confirmed"]
              /\ paidBy' = [paidBy EXCEPT ![pays[p]] = p]
              /\ book' = PostOnce(minted, Payer[p], <<"booking_debit", pays[p]>>, -Credits(p))
         ELSE /\ book' = minted
              /\ UNCHANGED <<booking, paidBy>>
  BY DEF Settle
<1>2. /\ Payer[p] \in Students /\ Credits(p) \in Nat \ {0} /\ mintKey \in Keys
      /\ pays[p] # NoBooking => pays[p] \in Bookings
      /\ book \in Books(Students, Keys)
      /\ book.balance[Payer[p]] \in Nat
      /\ \A k \in Keys : book.rows[k] \in Int
  BY CheckoutAssumption, KeyFacts DEF CheckoutIInv, TypeOK, Credits, Books
<1>3. book.rows[mintKey] >= 0
  BY DEF CheckoutIInv, LedgerSigns
<1> PICK d \in Int : d = Credits(p) /\ d > 0
  BY <1>2
<1> PICK e \in Int : e = -Credits(p) /\ e < 0 /\ d + e = 0
  BY <1>2
<1>4. /\ minted \in Books(Students, Keys)
      /\ \A k \in Keys : k # mintKey => minted.rows[k] = book.rows[k]
      /\ minted.rows[mintKey] > 0
      /\ ~Minted(p) => minted.balance[Payer[p]] = book.balance[Payer[p]] + d
  <2>1. CASE Posted(book, mintKey)
    <3>1. minted = book /\ Minted(p)
      BY <2>1 DEF PostOnce, Minted
    <3> QED BY <1>2, <1>3, <2>1, <3>1 DEF Posted
  <2>2. CASE ~Posted(book, mintKey)
    <3>1. minted = Post(book, Payer[p], mintKey, d)
      BY <2>2 DEF PostOnce
    <3>2. book.balance[Payer[p]] + d >= 0
      BY <1>2
    <3> HIDE DEF mintKey, minted
    <3> QED BY <1>2, <3>1, <3>2, PostFacts
  <2> QED BY <2>1, <2>2
<1> HIDE DEF minted
<1>5. CASE ~(pays[p] # NoBooking /\ ~Minted(p) /\ Pending(pays[p]))
  <2>1. book' = minted /\ UNCHANGED <<booking, paidBy>>
    BY <1>1, <1>5
  <2>2. \A b \in Bookings :
            book'.rows[<<"booking_debit", b>>] = book.rows[<<"booking_debit", b>>]
    BY <1>4, <2>1, KeyFacts
  <2> QED BY <1>1, <1>4, <2>1, <2>2
<1>6. CASE pays[p] # NoBooking /\ ~Minted(p) /\ Pending(pays[p])
  <2> PICK b \in Bookings : pays[p] = b
    BY <1>2, <1>6
  <2> DEFINE debitKey == <<"booking_debit", b>>
  <2>1. debitKey \in Keys /\ debitKey # mintKey
    BY KeyFacts
  <2>2. ~Posted(minted, debitKey)
    BY <1>4, <1>6, <2>1 DEF CheckoutIInv, DebitIffConfirmed, Debited, Posted, Pending
  <2>3. /\ booking' = [booking EXCEPT ![b] = "confirmed"]
        /\ paidBy' = [paidBy EXCEPT ![b] = p]
        /\ book' = Post(minted, Payer[p], debitKey, e)
    BY <1>1, <1>6, <2>2 DEF PostOnce
  <2>4. minted.balance[Payer[p]] + e >= 0
    BY <1>2, <1>4, <1>6
  <2>5. /\ book' \in Books(Students, Keys)
        /\ \A k \in Keys : book'.rows[k] = IF k = debitKey THEN e ELSE minted.rows[k]
    <3> HIDE DEF debitKey
    <3> QED BY <1>2, <1>4, <2>1, <2>3, <2>4, PostFacts
  <2>6. book'.rows[debitKey] < 0
    BY <2>1, <2>5
  <2>7. \A c \in Bookings \ {b} :
            book'.rows[<<"booking_debit", c>>] = book.rows[<<"booking_debit", c>>]
    BY <1>4, <2>5, KeyFacts
  <2>8. book'.rows[mintKey] > 0
    BY <1>2, <1>4, <2>1, <2>5
  <2>9. \A k \in Keys : k[1] # "booking_debit" /\ k # mintKey => book'.rows[k] = book.rows[k]
    BY <1>4, <2>5
  <2> QED BY <1>1, <1>6, <2>3, <2>5, <2>6, <2>7, <2>8, <2>9
<1> QED BY <1>5, <1>6

(* A settlement may forget the answer it was made on; nothing else of the order moves. *)
LEMMA SettleKeeps ==
    ASSUME CheckoutIInv, NEW p \in Payments, Settle(p), paypal[p] \in MoneyTaken,
           response' \in {response, [response EXCEPT ![p] = "none"]},
           UNCHANGED BesidesSettlement
    PROVE  CheckoutIInv'
<1>1. /\ UNCHANGED <<now, attempt, created, pays, stamped, paypal, reversed>>
      /\ response' \in [Payments -> {"none", "completed", "pending", "terminal"}]
      /\ \A q \in Payments : response'[q] = response[q] \/ response'[q] = "none"
  BY DEF BesidesSettlement, CheckoutIInv, TypeOK
<1>2. CASE payment[p] = "refunded"
  <2>1. UNCHANGED <<now, attempt, booking, created, paidBy, payment, pays, stamped, paypal,
                    reversed, book>>
    BY <1>1, <1>2 DEF Settle
  <2>2. TypeOK'
    BY <1>1, <2>1 DEF CheckoutIInv, TypeOK, MoneyTaken, Keys
  <2>3. OrderLifecycle' /\ MoneyHonoured' /\ StatusTellsPayPal' /\ PaidByItsPayment'
    BY <1>1, <2>1, OrderFrame
       DEF slotVars, CheckoutIInv, OrderLifecycle, MoneyHonoured, StatusTellsPayPal,
           PaidByItsPayment, TypeOK
  <2> QED BY <2>1, <2>2, <2>3, OrderFrame DEF slotVars, CheckoutIInv
<1>3. CASE payment[p] # "refunded"
  <2>1. /\ payment' = [payment EXCEPT ![p] = "captured"]
        /\ book' \in Books(Students, Keys)
        /\ book'.rows[<<"purchase", p>>] > 0
    BY <1>3, SettleEffect
  <2>2. /\ \A q \in Payments : q # p =>
               book'.rows[<<"purchase", q>>] = book.rows[<<"purchase", q>>]
        /\ \A b \in Bookings :
               book'.rows[<<"booking_refund", b>>] = book.rows[<<"booking_refund", b>>]
    BY <1>3, SettleEffect, KeyFacts
  <2>3. /\ \A q \in Payments : Minted(q)' <=> Minted(q) \/ q = p
        /\ \A b \in Bookings : Refunded(b)' <=> Refunded(b)
    BY <2>1, <2>2 DEF Minted, Refunded, Posted
  <2> /\ book'.rows[<<"purchase", p>>] \in Int
      /\ \A b \in Bookings : book'.rows[<<"booking_debit", b>>] \in Int
    <3>1. \A k \in Keys : book'.rows[k] \in Int
      BY <2>1 DEF Books
    <3> QED BY <3>1, KeyFacts
  <2>4. \A q \in Payments : book'.rows[<<"purchase", q>>] >= 0
    <3> TAKE q \in Payments
    <3>1. CASE q = p
      BY <2>1, <3>1
    <3>2. CASE q # p
      BY <2>2, <3>2 DEF CheckoutIInv, LedgerSigns
    <3> QED BY <3>1, <3>2
  <2>5. /\ \A q \in Payments : q # p => payment'[q] = payment[q]
        /\ payment'[p] = "captured"
        /\ payment' \in [Payments -> {"none", "created", "captured", "failed", "refunded"}]
    BY <2>1 DEF CheckoutIInv, TypeOK
  <2>6. /\ booking' \in [Bookings ->
                            {"none", "pending_payment", "confirmed", "expired", "cancelled"}]
        /\ paidBy' \in [Bookings -> Payments \cup {NoPayment}]
        /\ \A b \in Bookings :
              \/ /\ booking'[b] = booking[b] /\ paidBy'[b] = paidBy[b]
                 /\ book'.rows[<<"booking_debit", b>>] = book.rows[<<"booking_debit", b>>]
              \/ /\ booking[b] = "pending_payment" /\ booking'[b] = "confirmed"
                 /\ paidBy'[b] = p /\ pays[p] = b
                 /\ book'.rows[<<"booking_debit", b>>] < 0
    <3>1. CASE UNCHANGED <<booking, paidBy>> /\ \A b \in Bookings :
                   book'.rows[<<"booking_debit", b>>] = book.rows[<<"booking_debit", b>>]
      BY <3>1 DEF CheckoutIInv, TypeOK
    <3>2. CASE \E b \in Bookings :
                    /\ pays[p] = b /\ Pending(b)
                    /\ booking' = [booking EXCEPT ![b] = "confirmed"]
                    /\ paidBy' = [paidBy EXCEPT ![b] = p]
                    /\ book'.rows[<<"booking_debit", b>>] < 0
                    /\ \A c \in Bookings \ {b} :
                           book'.rows[<<"booking_debit", c>>] = book.rows[<<"booking_debit", c>>]
      BY <3>2 DEF CheckoutIInv, TypeOK, Pending
    <3> QED BY <1>3, <3>1, <3>2, SettleEffect
  <2>7. TypeOK' /\ AttemptsAreNew'
    <3>1. TypeOK'
      BY <1>1, <2>1, <2>5, <2>6 DEF CheckoutIInv, TypeOK, MoneyTaken, Keys
    <3>2. AttemptsAreNew'
      BY <1>1, <2>6 DEF CheckoutIInv, AttemptsAreNew
    <3> QED BY <3>1, <3>2
  <2>8. SlotHeldOnce'
    BY <2>6, CheckoutAssumption DEF CheckoutIInv, SlotHeldOnce
  <2>9. DebitIffConfirmed' /\ RefundOnCancelled' /\ LedgerSigns'
    <3>1. DebitIffConfirmed'
      <4> SUFFICES ASSUME NEW b \in Bookings
                   PROVE  Debited(b)' <=> booking'[b] \in {"confirmed", "cancelled"}
        BY DEF DebitIffConfirmed
      <4>1. CASE booking'[b] = booking[b] /\
                 book'.rows[<<"booking_debit", b>>] = book.rows[<<"booking_debit", b>>]
        BY <4>1 DEF CheckoutIInv, DebitIffConfirmed, Debited, Posted
      <4>2. CASE booking'[b] = "confirmed" /\ book'.rows[<<"booking_debit", b>>] < 0
        BY <4>2 DEF Debited, Posted
      <4> QED BY <2>6, <4>1, <4>2
    <3>2. RefundOnCancelled'
      BY <2>3, <2>6 DEF CheckoutIInv, RefundOnCancelled
    <3>3. \A b \in Bookings : book'.rows[<<"booking_debit", b>>] <= 0
      <4> TAKE b \in Bookings
      <4>1. CASE book'.rows[<<"booking_debit", b>>] = book.rows[<<"booking_debit", b>>]
        BY <4>1 DEF CheckoutIInv, LedgerSigns
      <4>2. CASE book'.rows[<<"booking_debit", b>>] < 0
        BY <4>2
      <4> QED BY <2>6, <4>1, <4>2
    <3> QED BY <2>4, <3>1, <3>2, <3>3 DEF LedgerSigns
  <2>10. OrderLifecycle'
    BY <1>1, <1>3, <2>3, <2>5 DEF CheckoutIInv, OrderLifecycle, MoneyTaken
  <2>11. MoneyHonoured' /\ StatusTellsPayPal'
    BY <1>1, <2>3, <2>5 DEF CheckoutIInv, MoneyHonoured, StatusTellsPayPal
  <2>12. PaidByItsPayment'
    <3> SUFFICES ASSUME NEW b \in Bookings, paidBy'[b] # NoPayment
                 PROVE  /\ pays[paidBy'[b]] = b
                        /\ book'.rows[<<"purchase", paidBy'[b]>>] # 0
                        /\ booking'[b] \in {"confirmed", "cancelled"}
      BY <1>1 DEF PaidByItsPayment, Minted, Posted
    <3>1. CASE booking'[b] = booking[b] /\ paidBy'[b] = paidBy[b]
      <4>1. paidBy[b] \in Payments /\ pays[paidBy[b]] = b /\ Minted(paidBy[b])
            /\ booking[b] \in {"confirmed", "cancelled"}
        BY <3>1 DEF CheckoutIInv, TypeOK, PaidByItsPayment
      <4>2. book'.rows[<<"purchase", paidBy[b]>>] # 0
        BY <4>1, <2>3 DEF Minted, Posted
      <4> QED BY <3>1, <4>1, <4>2
    <3>2. CASE booking'[b] = "confirmed" /\ paidBy'[b] = p /\ pays[p] = b
      BY <2>3, <3>2 DEF Minted, Posted
    <3> QED BY <2>6, <3>1, <3>2
  <2>13. ReversalUnwindsSession'
    <3> SUFFICES ASSUME NEW b \in Bookings, NEW q \in Payments, paidBy'[b] = q, reversed'[q]
                 PROVE  booking'[b] = "cancelled"
      BY DEF ReversalUnwindsSession
    <3>1. q # p
      BY <1>1, <1>3 DEF CheckoutIInv, OrderLifecycle
    <3> QED BY <1>1, <2>6, <3>1 DEF CheckoutIInv, ReversalUnwindsSession
  <2> QED BY <2>7, <2>8, <2>9, <2>10, <2>11, <2>12, <2>13 DEF CheckoutIInv
<1> QED BY <1>2, <1>3

-----------------------------------------------------------------------------
(* The admin unwinds *)

LEMMA ForceCancelKeeps ==
    ASSUME CheckoutIInv, NEW b \in Bookings, ForceCancel(b)
    PROVE  CheckoutIInv'
<1> DEFINE key == <<"booking_refund", b>>
<1>1. /\ booking[b] = "confirmed" /\ booking' = [booking EXCEPT ![b] = "cancelled"]
      /\ UNCHANGED <<now, attempt, created, paidBy, payment, pays, stamped, paypal, response,
                     reversed>>
  BY DEF ForceCancel, orderVars
<1>2. /\ ~Refunded(b) /\ key \in Keys /\ Owner[b] \in Students
      /\ book \in Books(Students, Keys) /\ book.balance[Owner[b]] \in Nat
      /\ book.rows[<<"booking_debit", b>>] \in Int /\ book.rows[<<"booking_debit", b>>] <= 0
  BY <1>1, CheckoutAssumption, KeyFacts
     DEF CheckoutIInv, RefundOnCancelled, TypeOK, LedgerSigns, Books
<1> PICK d \in Int : d = -book.rows[<<"booking_debit", b>>] /\ d >= 0
  BY <1>2
<1>3. /\ book' \in Books(Students, Keys)
      /\ \A k \in Keys : k # key => book'.rows[k] = book.rows[k]
  <2>1. CASE ~Debited(b)
    BY <1>2, <2>1 DEF ForceCancel
  <2>2. CASE Debited(b)
    <3>1. book' = Post(book, Owner[b], key, d)
      BY <1>2, <2>2 DEF ForceCancel, PostOnce, Refunded
    <3>2. book.balance[Owner[b]] + d >= 0
      BY <1>2
    <3>3. /\ book' \in Books(Students, Keys)
          /\ \A k \in Keys : book'.rows[k] = IF k = key THEN d ELSE book.rows[k]
      <4> HIDE DEF key
      <4> QED BY <1>2, <3>1, <3>2, PostFacts
    <3> QED BY <3>3
  <2> QED BY <2>1, <2>2
<1>4. /\ \A p \in Payments : /\ Minted(p)' <=> Minted(p)
                             /\ book'.rows[<<"purchase", p>>] = book.rows[<<"purchase", p>>]
      /\ \A c \in Bookings :
            /\ Debited(c)' <=> Debited(c)
            /\ c # b => (Refunded(c)' <=> Refunded(c))
            /\ book'.rows[<<"booking_debit", c>>] = book.rows[<<"booking_debit", c>>]
  BY <1>3, KeyFacts DEF Minted, Debited, Refunded, Posted
<1>5. /\ booking'[b] = "cancelled"
      /\ \A c \in Bookings : c # b => booking'[c] = booking[c]
      /\ booking' \in [Bookings ->
                          {"none", "pending_payment", "confirmed", "expired", "cancelled"}]
  BY <1>1 DEF CheckoutIInv, TypeOK
<1>6. TypeOK'
  BY <1>1, <1>3, <1>5 DEF CheckoutIInv, TypeOK, MoneyTaken, Keys
<1>7. AttemptsAreNew' /\ SlotHeldOnce'
  BY <1>1, <1>5, CheckoutAssumption DEF CheckoutIInv, AttemptsAreNew, SlotHeldOnce
<1>8. DebitIffConfirmed' /\ RefundOnCancelled' /\ LedgerSigns'
  BY <1>1, <1>4, <1>5 DEF CheckoutIInv, DebitIffConfirmed, RefundOnCancelled, LedgerSigns
<1>9. OrderLifecycle' /\ MoneyHonoured' /\ StatusTellsPayPal'
  BY <1>1, <1>4 DEF CheckoutIInv, OrderLifecycle, MoneyHonoured, StatusTellsPayPal
<1>10. PaidByItsPayment'
  <2>1. \A c \in Bookings : paidBy[c] # NoPayment => paidBy[c] \in Payments
    BY DEF CheckoutIInv, TypeOK
  <2> QED BY <1>1, <1>4, <1>5, <2>1 DEF CheckoutIInv, PaidByItsPayment
<1>11. ReversalUnwindsSession'
  BY <1>1, <1>5 DEF CheckoutIInv, ReversalUnwindsSession
<1> QED BY <1>6, <1>7, <1>8, <1>9, <1>10, <1>11 DEF CheckoutIInv

(* The debit stands and the booking is cancelled: whoever paid, no session is left. *)
LEMMA ReverseByCancellingKeeps ==
    ASSUME CheckoutIInv, NEW p \in Payments, ReverseByCancelling(p)
    PROVE  CheckoutIInv'
<1> PICK b \in Bookings : b = pays[p]
  BY DEF ReverseByCancelling, StandingDebit, CheckoutIInv, TypeOK
<1>1. /\ booking[b] = "confirmed" /\ booking' = [booking EXCEPT ![b] = "cancelled"]
      /\ reversed' = [reversed EXCEPT ![p] = TRUE]
      /\ payment[p] = "refunded" /\ Minted(p)
      /\ UNCHANGED <<now, attempt, created, paidBy, payment, pays, stamped, paypal, response,
                     book>>
  BY DEF ReverseByCancelling, CanReverse, orderVars
<1>2. /\ booking'[b] = "cancelled"
      /\ \A c \in Bookings : c # b => booking'[c] = booking[c]
      /\ booking' \in [Bookings ->
                          {"none", "pending_payment", "confirmed", "expired", "cancelled"}]
      /\ reversed' \in [Payments -> BOOLEAN]
      /\ \A q \in Payments : reversed'[q] => reversed[q] \/ q = p
  BY <1>1 DEF CheckoutIInv, TypeOK
<1>3. /\ \A q \in Payments : Minted(q)' <=> Minted(q)
      /\ \A c \in Bookings : (Debited(c)' <=> Debited(c)) /\ (Refunded(c)' <=> Refunded(c))
  BY <1>1 DEF Minted, Debited, Refunded
<1>4. TypeOK'
  BY <1>1, <1>2 DEF CheckoutIInv, TypeOK, MoneyTaken, Keys
<1>5. AttemptsAreNew' /\ SlotHeldOnce'
  BY <1>1, <1>2, CheckoutAssumption DEF CheckoutIInv, AttemptsAreNew, SlotHeldOnce
<1>6. DebitIffConfirmed' /\ RefundOnCancelled' /\ LedgerSigns'
  BY <1>1, <1>2, <1>3 DEF CheckoutIInv, DebitIffConfirmed, RefundOnCancelled, LedgerSigns
<1>7. OrderLifecycle' /\ MoneyHonoured' /\ StatusTellsPayPal'
  BY <1>1, <1>2, <1>3 DEF CheckoutIInv, OrderLifecycle, MoneyHonoured, StatusTellsPayPal
<1>8. PaidByItsPayment'
  <2>1. \A c \in Bookings : paidBy[c] # NoPayment => paidBy[c] \in Payments
    BY DEF CheckoutIInv, TypeOK
  <2> QED BY <1>1, <1>2, <1>3, <2>1 DEF CheckoutIInv, PaidByItsPayment
<1>9. ReversalUnwindsSession'
  <2> SUFFICES ASSUME NEW c \in Bookings, NEW q \in Payments, paidBy'[c] = q, reversed'[q]
               PROVE  booking'[c] = "cancelled"
    BY DEF ReversalUnwindsSession
  <2>1. CASE q = p
    BY <1>1, <1>2, <2>1, CheckoutAssumption DEF CheckoutIInv, PaidByItsPayment
  <2>2. CASE q # p
    BY <1>1, <1>2, <2>2 DEF CheckoutIInv, ReversalUnwindsSession
  <2> QED BY <2>1, <2>2
<1> QED BY <1>4, <1>5, <1>6, <1>7, <1>8, <1>9 DEF CheckoutIInv

(* At most the balance is taken, so the wallet stays covered; paid sessions are not touched. *)
LEMMA ReverseByTakingKeeps ==
    ASSUME CheckoutIInv, NEW p \in Payments, ReverseByTaking(p)
    PROVE  CheckoutIInv'
<1> DEFINE key == <<"purchase_reversal", p>>
           minted == book.rows[<<"purchase", p>>]
           balance == book.balance[Payer[p]]
           take == IF minted <= balance THEN minted ELSE balance
<1>1. /\ payment[p] = "refunded" /\ Minted(p)
      /\ pays[p] # NoBooking => ~Debited(pays[p]) \/ Refunded(pays[p])
      /\ reversed' = [reversed EXCEPT ![p] = TRUE]
      /\ book' = IF take = 0 THEN book ELSE PostOnce(book, Payer[p], key, -take)
      /\ UNCHANGED <<now, attempt, booking, created, paidBy, payment, pays, stamped, paypal,
                     response>>
  BY DEF ReverseByTaking, CanReverse, StandingDebit, slotVars, orderVars
<1>2. /\ book \in Books(Students, Keys) /\ Payer[p] \in Students /\ key \in Keys
      /\ balance \in Nat /\ minted \in Int /\ minted >= 0
  BY CheckoutAssumption, KeyFacts DEF CheckoutIInv, TypeOK, LedgerSigns, Books
<1> PICK d \in Int : d = -take /\ balance + d >= 0
  BY <1>2
<1>3. /\ book' \in Books(Students, Keys)
      /\ \A k \in Keys : k # key => book'.rows[k] = book.rows[k]
  <2>1. CASE book' = book
    BY <1>2, <2>1
  <2>2. CASE book' = Post(book, Payer[p], key, d)
    <3>1. book.balance[Payer[p]] + d >= 0
      OBVIOUS
    <3>2. /\ book' \in Books(Students, Keys)
          /\ \A k \in Keys : book'.rows[k] = IF k = key THEN d ELSE book.rows[k]
      <4> HIDE DEF key, balance, take, minted
      <4> QED BY <1>2, <2>2, <3>1, PostFacts
    <3> QED BY <3>2
  <2> QED BY <1>1, <2>1, <2>2 DEF PostOnce
<1>4. /\ \A q \in Payments : /\ Minted(q)' <=> Minted(q)
                             /\ book'.rows[<<"purchase", q>>] = book.rows[<<"purchase", q>>]
      /\ \A c \in Bookings :
            /\ Debited(c)' <=> Debited(c)
            /\ Refunded(c)' <=> Refunded(c)
            /\ book'.rows[<<"booking_debit", c>>] = book.rows[<<"booking_debit", c>>]
  BY <1>3, KeyFacts DEF Minted, Debited, Refunded, Posted
<1>5. /\ reversed' \in [Payments -> BOOLEAN]
      /\ \A q \in Payments : reversed'[q] => reversed[q] \/ q = p
  BY <1>1 DEF CheckoutIInv, TypeOK
<1>6. TypeOK'
  BY <1>1, <1>3, <1>5 DEF CheckoutIInv, TypeOK, MoneyTaken, Keys
<1>7. AttemptsAreNew' /\ SlotHeldOnce'
  BY <1>1 DEF CheckoutIInv, AttemptsAreNew, SlotHeldOnce
<1>8. DebitIffConfirmed' /\ RefundOnCancelled' /\ LedgerSigns'
  BY <1>1, <1>4 DEF CheckoutIInv, DebitIffConfirmed, RefundOnCancelled, LedgerSigns
<1>9. OrderLifecycle' /\ MoneyHonoured' /\ StatusTellsPayPal'
  BY <1>1, <1>4, <1>5 DEF CheckoutIInv, OrderLifecycle, MoneyHonoured, StatusTellsPayPal
<1>10. PaidByItsPayment'
  <2>1. \A c \in Bookings : paidBy[c] # NoPayment => paidBy[c] \in Payments
    BY DEF CheckoutIInv, TypeOK
  <2> QED BY <1>1, <1>4, <2>1 DEF CheckoutIInv, PaidByItsPayment
<1>11. ReversalUnwindsSession'
  <2> SUFFICES ASSUME NEW c \in Bookings, NEW q \in Payments, paidBy'[c] = q, reversed'[q]
               PROVE  booking'[c] = "cancelled"
    BY DEF ReversalUnwindsSession
  <2>1. CASE q = p
    <3>1. pays[p] = c /\ booking[c] \in {"confirmed", "cancelled"} /\ pays[p] # NoBooking
      BY <1>1, <2>1, CheckoutAssumption DEF CheckoutIInv, PaidByItsPayment
    <3>2. Refunded(c)
      BY <1>1, <3>1 DEF CheckoutIInv, DebitIffConfirmed
    <3> QED BY <1>1, <3>2 DEF CheckoutIInv, RefundOnCancelled
  <2>2. CASE q # p
    BY <1>1, <1>5, <2>2 DEF CheckoutIInv, ReversalUnwindsSession
  <2> QED BY <2>1, <2>2
<1> QED BY <1>6, <1>7, <1>8, <1>9, <1>10, <1>11 DEF CheckoutIInv

-----------------------------------------------------------------------------
(* The checkout as a whole *)

LEMMA NextIInv == CheckoutIInv /\ [Next]_vars => CheckoutIInv'
<1> SUFFICES ASSUME CheckoutIInv, [Next]_vars PROVE CheckoutIInv'
  OBVIOUS
<1>1. CASE Tick
  BY <1>1, TickKeeps
<1>2. CASE ExpireUnpaid
  BY <1>2, ExpireKeeps
<1>3. CASE \E b \in Bookings : StudentStep(b)
  <2> PICK b \in Bookings : StudentStep(b)
    BY <1>3
  <2>1. CASE CheckSlot(b)
    <3>1. /\ booking[b] = "none"
          /\ attempt' = [attempt EXCEPT ![b] = IF ByPayPal[b] THEN "slot_open" ELSE "inserting"]
          /\ UNCHANGED <<now, booking, created, paidBy, payment, orderVars, reversed, book>>
      BY <2>1 DEF CheckSlot
    <3> QED BY <3>1, AttemptKeeps
  <2>2. CASE CountHolds(b)
    <3>1. booking[b] = "none"
      BY <2>2 DEF CountHolds, CheckoutIInv, AttemptsAreNew
    <3> QED BY <2>2, <3>1, AttemptKeeps DEF CountHolds
  <2>3. CASE LoseSlot(b)
    <3>1. /\ attempt' = [attempt EXCEPT ![b] = "idle"]
          /\ UNCHANGED <<now, booking, created, paidBy, payment, orderVars, reversed, book>>
      BY <2>3 DEF LoseSlot
    <3> QED BY <3>1, AttemptKeeps
  <2>4. CASE TakeSlot(b)
    BY <2>4, TakeSlotKeeps
  <2> QED BY <2>1, <2>2, <2>3, <2>4 DEF StudentStep
<1>4. CASE \E p \in Payments : OrderStep(p)
  <2> PICK p \in Payments : OrderStep(p)
    BY <1>4
  <2>1. CASE ApplyCompleted(p)
    <3>1. /\ Settle(p) /\ UNCHANGED BesidesSettlement
          /\ response' = [response EXCEPT ![p] = "none"]
          /\ paypal[p] \in MoneyTaken
      BY <2>1 DEF ApplyCompleted, Applied, CheckoutIInv, OrderLifecycle
    <3> QED BY <3>1, SettleKeeps
  <2> QED
    BY <2>1, OpenCheckoutKeeps, CreatePayPalOrderKeeps, FailOrderKeeps, StampOrderKeeps,
       CallCaptureKeeps, ApplyPendingKeeps, MarkKeeps DEF OrderStep
<1>5. CASE \E p \in Payments : PayPalStep(p)
  <2> PICK p \in Payments : PayPalStep(p)
    BY <1>5
  <2>1. CASE OnCompleted(p)
    <3>1. Settle(p) /\ UNCHANGED <<BesidesSettlement, response>> /\ paypal[p] \in MoneyTaken
      BY <2>1 DEF OnCompleted
    <3> QED BY <3>1, SettleKeeps
  <2> QED BY <2>1, PayPalKeeps, MarkKeeps DEF PayPalStep
<1>6. CASE AdminStep
  BY <1>6, ForceCancelKeeps, ReverseByCancellingKeeps, ReverseByTakingKeeps DEF AdminStep
<1>7. CASE UNCHANGED vars
  BY <1>7
     DEF vars, slotVars, orderVars, CheckoutIInv, TypeOK, AttemptsAreNew, SlotHeldOnce,
         DebitIffConfirmed, RefundOnCancelled, OrderLifecycle, MoneyHonoured,
         StatusTellsPayPal, PaidByItsPayment, ReversalUnwindsSession, LedgerSigns,
         Minted, Debited, Refunded, MoneyTaken, Keys
<1> QED BY <1>1, <1>2, <1>3, <1>4, <1>5, <1>6, <1>7 DEF Next

(* Everything a run checks of the checkout's states holds of every checkout. *)
THEOREM CheckoutSafe == Spec => []CheckoutIInv
<1>1. Init => CheckoutIInv
  BY InitIInv
<1>2. CheckoutIInv /\ [Next]_vars => CheckoutIInv'
  BY NextIInv
<1> QED BY <1>1, <1>2, PTL DEF Spec

(* No two colliding bookings are ever held or paid for together. *)
THEOREM SlotsNeverCollide == Spec => []SlotHeldOnce
<1>1. CheckoutIInv => SlotHeldOnce
  BY DEF CheckoutIInv
<1> QED BY <1>1, CheckoutSafe, PTL

(* A student is charged for exactly the bookings that were confirmed. *)
THEOREM ChargedIffConfirmed == Spec => []DebitIffConfirmed
<1>1. CheckoutIInv => DebitIffConfirmed
  BY DEF CheckoutIInv
<1> QED BY <1>1, CheckoutSafe, PTL

(* Captured money is minted, and only PayPal's money is. *)
THEOREM CapturesAreHonoured == Spec => []MoneyHonoured
<1>1. CheckoutIInv => MoneyHonoured
  BY DEF CheckoutIInv
<1> QED BY <1>1, CheckoutSafe, PTL

(* The status of a payment is true at PayPal, whatever the order of the     *)
(* webhooks and of old capture responses.                                   *)
THEOREM StatusesAreTrue == Spec => []StatusTellsPayPal
<1>1. CheckoutIInv => StatusTellsPayPal
  BY DEF CheckoutIInv
<1> QED BY <1>1, CheckoutSafe, PTL

(* A reversed refund never leaves the session it paid for. *)
THEOREM ReversalsUnwind == Spec => []ReversalUnwindsSession
<1>1. CheckoutIInv => ReversalUnwindsSession
  BY DEF CheckoutIInv
<1> QED BY <1>1, CheckoutSafe, PTL

-----------------------------------------------------------------------------
(* What a step may never do *)

LEMMA PostElsewhere ==
    ASSUME NEW bk \in Books(Students, Keys), NEW s, NEW k, NEW d, NEW q \in Keys, q # k
    PROVE  /\ Post(bk, s, k, d).rows[q] = bk.rows[q]
           /\ PostOnce(bk, s, k, d).rows[q] = bk.rows[q]
BY DEF Post, PostOnce, Books

(* The row of a mint is written by the settlement of its payment alone. *)
LEMMA MintsBySettlement ==
    ASSUME CheckoutIInv, NEW p \in Payments,
           \/ \E b \in Bookings : TakeSlot(b) \/ ForceCancel(b)
           \/ \E q \in Payments : ReverseByTaking(q)
    PROVE  UNCHANGED payment /\ (Minted(p)' <=> Minted(p))
<1> DEFINE mint == <<"purchase", p>>
<1>1. book \in Books(Students, Keys) /\ mint \in Keys
  BY KeyFacts DEF CheckoutIInv, TypeOK
<1>2. CASE \E b \in Bookings : TakeSlot(b)
  <2> PICK b \in Bookings : TakeSlot(b)
    BY <1>2
  <2>1. UNCHANGED payment
        /\ (book' = book \/ book' = Post(book, Owner[b], <<"booking_debit", b>>, -Price[b]))
    BY DEF TakeSlot
  <2>2. mint # <<"booking_debit", b>>
    OBVIOUS
  <2> HIDE DEF mint
  <2>3. book'.rows[mint] = book.rows[mint]
    BY <1>1, <2>1, <2>2, PostElsewhere
  <2> QED BY <2>1, <2>3 DEF Minted, Posted, mint
<1>3. CASE \E b \in Bookings : ForceCancel(b)
  <2> PICK b \in Bookings : ForceCancel(b)
    BY <1>3
  <2> DEFINE back == -book.rows[<<"booking_debit", b>>]
  <2>1. UNCHANGED payment
        /\ (book' = book \/ book' = PostOnce(book, Owner[b], <<"booking_refund", b>>, back))
    BY DEF ForceCancel
  <2>2. mint # <<"booking_refund", b>>
    OBVIOUS
  <2> HIDE DEF mint, back
  <2>3. book'.rows[mint] = book.rows[mint]
    BY <1>1, <2>1, <2>2, PostElsewhere
  <2> QED BY <2>1, <2>3 DEF Minted, Posted, mint
<1>4. CASE \E q \in Payments : ReverseByTaking(q)
  <2> PICK q \in Payments : ReverseByTaking(q)
    BY <1>4
  <2>1. UNCHANGED payment /\ (book' = book \/ \E d :
            book' = PostOnce(book, Payer[q], <<"purchase_reversal", q>>, d))
    BY DEF ReverseByTaking
  <2>2. mint # <<"purchase_reversal", q>>
    OBVIOUS
  <2> HIDE DEF mint
  <2>3. book'.rows[mint] = book.rows[mint]
    BY <1>1, <2>1, <2>2, PostElsewhere
  <2> QED BY <2>1, <2>3 DEF Minted, Posted, mint
<1> QED BY <1>2, <1>3, <1>4

(* A refunded payment stays refunded and unminted, whatever arrives late. *)
LEMMA RefundStep ==
    ASSUME CheckoutIInv, [Next]_vars, NEW p \in Payments, payment[p] = "refunded"
    PROVE  payment'[p] = "refunded" /\ (Minted(p)' => Minted(p))
<1>1. CASE \E q \in Payments : Settle(q)
  <2> PICK q \in Payments : Settle(q)
    BY <1>1
  <2>1. CASE payment[q] = "refunded"
    BY <2>1 DEF Settle, Minted
  <2>2. CASE payment[q] # "refunded"
    <3>1. payment'[p] = "refunded"
      BY <2>2 DEF Settle, CheckoutIInv, TypeOK
    <3>2. book'.rows[<<"purchase", p>>] = book.rows[<<"purchase", p>>]
      BY <2>2, SettleEffect, KeyFacts
    <3> QED BY <3>1, <3>2 DEF Minted, Posted
  <2> QED BY <2>1, <2>2
<1>2. CASE \/ \E b \in Bookings : TakeSlot(b) \/ ForceCancel(b)
           \/ \E q \in Payments : ReverseByTaking(q)
  BY <1>2, MintsBySettlement
<1>3. CASE UNCHANGED book /\ (UNCHANGED payment \/ \E q \in Payments : payment[q] # "refunded" /\
               \E status : payment' = [payment EXCEPT ![q] = status])
  BY <1>3 DEF Minted, CheckoutIInv, TypeOK
<1>4. CASE UNCHANGED book /\ \E q \in Payments : payment' = [payment EXCEPT ![q] = "refunded"]
  BY <1>4 DEF Minted, CheckoutIInv, TypeOK
<1>5. \A q \in Payments :
          OpenCheckout(q) \/ FailOrder(q) \/ ApplyTerminal(q) \/ OnDenied(q) =>
              UNCHANGED book /\ payment[q] # "refunded" /\
              \E status : payment' = [payment EXCEPT ![q] = status]
  BY DEF OpenCheckout, FailOrder, ApplyTerminal, OnDenied, Mark, CheckoutIInv, OrderLifecycle,
         StatusTellsPayPal
<1>6. \A q \in Payments : OnRefunded(q) =>
          UNCHANGED book /\ (UNCHANGED payment \/ payment' = [payment EXCEPT ![q] = "refunded"])
  BY DEF OnRefunded, Mark
<1>7. \A q \in Payments :
          CreatePayPalOrder(q) \/ StampOrder(q) \/ CallCapture(q) \/ ApplyPending(q)
              \/ Approve(q) \/ Review(q) \/ RefundPart(q) \/ RefundInFull(q)
              \/ ReverseByCancelling(q) =>
          UNCHANGED <<payment, book>>
  BY DEF CreatePayPalOrder, StampOrder, CallCapture, ApplyPending, BesidesSettlement, Approve,
         Review, RefundPart, RefundInFull, PayPalMoves, ReverseByCancelling
<1>8. Tick \/ ExpireUnpaid \/ (\E b \in Bookings : CheckSlot(b) \/ CountHolds(b) \/ LoseSlot(b))
          \/ UNCHANGED vars => UNCHANGED <<payment, book>>
  BY DEF Tick, ExpireUnpaid, CheckSlot, CountHolds, LoseSlot, vars
<1> QED
  BY <1>1, <1>2, <1>3, <1>4, <1>5, <1>6, <1>7, <1>8
     DEF Next, StudentStep, OrderStep, PayPalStep, AdminStep, ApplyCompleted, OnCompleted

(* M4, for every checkout. *)
THEOREM RefundsAreFinal == Spec => RefundIsFinal
<1> DEFINE Final == \A p \in Payments : payment[p] = "refunded" =>
                        payment'[p] = "refunded" /\ (Minted(p)' => Minted(p))
<1>1. CheckoutIInv /\ [Next]_vars => [Final]_vars
  BY RefundStep
<1> QED BY <1>1, CheckoutSafe, PTL DEF Spec, RefundIsFinal

(* A paid session is taken away by an admin alone, and an ended booking stays ended. *)
LEMMA PaidStep ==
    ASSUME CheckoutIInv, [Next]_vars, NEW b \in Bookings
    PROVE  /\ booking[b] = "confirmed" => booking'[b] \in {"confirmed", "cancelled"}
           /\ booking[b] \in {"expired", "cancelled"} => booking'[b] = booking[b]
<1>1. CASE UNCHANGED booking
  BY <1>1
<1>2. CASE \E c \in Bookings, status \in {"confirmed", "cancelled"} :
               /\ booking' = [booking EXCEPT ![c] = status]
               /\ booking[c] = IF status = "confirmed" THEN "pending_payment" ELSE "confirmed"
  BY <1>2 DEF CheckoutIInv, TypeOK
<1>3. CASE ExpireUnpaid
  BY <1>3 DEF ExpireUnpaid, Pending
<1>4. CASE \E c \in Bookings : TakeSlot(c)
  <2> PICK c \in Bookings : TakeSlot(c)
    BY <1>4
  <2>1. booking[c] = "none"
    BY DEF TakeSlot, CheckoutIInv, AttemptsAreNew
  <2> QED BY <2>1 DEF TakeSlot, HoldIsStale, Pending
<1>5. \A c \in Bookings : ForceCancel(c) =>
          booking[c] = "confirmed" /\ booking' = [booking EXCEPT ![c] = "cancelled"]
  BY DEF ForceCancel
<1>6. \A p \in Payments : ReverseByCancelling(p) =>
          \E c \in Bookings :
              booking[c] = "confirmed" /\ booking' = [booking EXCEPT ![c] = "cancelled"]
  BY DEF ReverseByCancelling, StandingDebit, CheckoutIInv, TypeOK
<1>7. \A p \in Payments : Settle(p) =>
          \/ UNCHANGED booking
          \/ \E c \in Bookings : booking[c] = "pending_payment"
                                 /\ booking' = [booking EXCEPT ![c] = "confirmed"]
  BY DEF Settle, Pending, CheckoutIInv, TypeOK
<1>8. \A p \in Payments :
          OpenCheckout(p) \/ CreatePayPalOrder(p) \/ FailOrder(p) \/ StampOrder(p)
              \/ CallCapture(p) \/ ApplyPending(p) \/ ApplyTerminal(p) \/ Approve(p)
              \/ Review(p) \/ RefundPart(p) \/ RefundInFull(p) \/ OnDenied(p)
              \/ OnRefunded(p) \/ ReverseByTaking(p) =>
          UNCHANGED booking
  BY DEF OpenCheckout, CreatePayPalOrder, FailOrder, StampOrder, CallCapture, ApplyPending,
         ApplyTerminal, Approve, Review, RefundPart, RefundInFull, PayPalMoves, OnDenied,
         OnRefunded, Mark, ReverseByTaking, slotVars
<1>9. Tick \/ (\E c \in Bookings : CheckSlot(c) \/ CountHolds(c) \/ LoseSlot(c))
          \/ UNCHANGED vars => UNCHANGED booking
  BY DEF Tick, CheckSlot, CountHolds, LoseSlot, vars, slotVars
<1> QED
  BY <1>1, <1>2, <1>3, <1>4, <1>5, <1>6, <1>7, <1>8, <1>9
     DEF Next, StudentStep, OrderStep, PayPalStep, AdminStep, ApplyCompleted, OnCompleted

(* No job, late capture or competing attempt takes a paid session away. *)
THEOREM PaidSessionsAreKept == Spec => PaidSessionKept
<1> DEFINE Kept == \A b \in Bookings :
                       /\ booking[b] = "confirmed" => booking'[b] \in {"confirmed", "cancelled"}
                       /\ booking[b] \in {"expired", "cancelled"} => booking'[b] = booking[b]
<1>1. CheckoutIInv /\ [Next]_vars => [Kept]_vars
  BY PaidStep
<1> QED BY <1>1, CheckoutSafe, PTL DEF Spec, PaidSessionKept
=============================================================================
