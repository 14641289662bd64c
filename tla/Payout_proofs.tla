---------------------------- MODULE Payout_proofs ----------------------------
(***************************************************************************)
(* A tutor is paid once for a session and a withdrawal is settled once,    *)
(* for any number of tutors, bookings, requests and runs of the job.       *)
(***************************************************************************)
EXTENDS Payout, SumLemmas, TLAPS

(* The statuses of the rows, without the book. *)
rowVars == <<begun, status, earning, due, claim, request, amount>>

LEMMA KeyFacts ==
    /\ \A b \in Bookings : /\ <<"session_earning", b>> \in Keys
                           /\ <<"earning_reversal", b>> \in Keys
    /\ \A r \in Requests : /\ <<"withdrawal_hold", r>> \in Keys
                           /\ <<"withdrawal_reversed", r>> \in Keys
    /\ \A a \in Adjustments : <<"admin_adjustment", a>> \in Keys
    /\ \A w \in Bonuses : <<"availability_bonus", w>> \in Keys
BY DEF Keys

(* A post adds its row, moves one balance, and leaves a book. *)
LEMMA PostFacts ==
    ASSUME NEW bk \in Books(Tutors, Keys), NEW t \in Tutors,
           NEW k \in Keys, NEW d \in Int, bk.balance[t] + d >= 0
    PROVE  /\ Post(bk, t, k, d) \in Books(Tutors, Keys)
           /\ \A q \in Keys : Post(bk, t, k, d).rows[q] = IF q = k THEN d ELSE bk.rows[q]
<1>1. Post(bk, t, k, d).rows = [bk.rows EXCEPT ![k] = d]
  BY DEF Post
<1>2. [bk.rows EXCEPT ![k] = d] \in [Keys -> Int] /\ bk.rows \in [Keys -> Int]
  BY DEF Books
<1>3. [bk.balance EXCEPT ![t] = @ + d] \in [Tutors -> Nat]
  BY DEF Books
<1> QED BY <1>1, <1>2, <1>3 DEF Post, Books

-----------------------------------------------------------------------------
LEMMA InitIInv == Init => PayoutIInv
<1> SUFFICES ASSUME Init PROVE PayoutIInv
  OBVIOUS
<1>1. /\ book.rows = [k \in Keys |-> 0]
      /\ book \in Books(Tutors, Keys)
  BY DEF Init, EmptyBook, Books
<1>2. /\ \A b \in Bookings : ~Paid(b) /\ ~TakenBack(b)
      /\ \A r \in Requests : ~Held(r) /\ ~Returned(r)
  BY <1>1, KeyFacts DEF Paid, TakenBack, Held, Returned, Posted
<1>3. TypeOK
  BY <1>1 DEF Init, TypeOK
<1>4. EarningTellsLedger /\ ClaimsAreAccountable /\ HoldTellsRequest
  BY <1>2 DEF Init, EarningTellsLedger, ClaimsAreAccountable, HoldTellsRequest
<1>5. OneOpenRequest /\ OwedForASession
  BY DEF Init, OneOpenRequest, OwedForASession, OpenRequest
<1> QED BY <1>3, <1>4, <1>5 DEF PayoutIInv

-----------------------------------------------------------------------------
(* Steps that post nothing *)

LEMMA SessionKeeps ==
    ASSUME PayoutIInv, NEW b \in Bookings, Begin(b) \/ Close(b) \/ FallDue(b) \/ ForceComplete(b)
    PROVE  PayoutIInv'
<1> USE DEF PayoutIInv, TypeOK
<1>1. /\ begun' \in [Bookings -> BOOLEAN]
      /\ status' \in [Bookings ->
             {"confirmed", "completed", "no_show_student", "no_show_tutor", "cancelled"}]
      /\ earning' \in [Bookings -> {"none", "held", "available", "withdrawn", "reversed"}]
      /\ due' \in [Bookings -> BOOLEAN]
      /\ UNCHANGED <<claim, listed, request, amount, book>>
  BY DEF Begin, Close, FallDue, ForceComplete
<1>2. \A c \in Bookings : \/ earning'[c] = earning[c]
                          \/ earning[c] = "none" /\ earning'[c] = "held"
  BY DEF Begin, Close, FallDue, ForceComplete
<1>3. TypeOK'
  BY <1>1
<1>4. EarningTellsLedger' /\ ClaimsAreAccountable' /\ HoldTellsRequest' /\ OneOpenRequest'
  BY <1>1, <1>2 DEF EarningTellsLedger, ClaimsAreAccountable, HoldTellsRequest, OneOpenRequest,
                    Paid, TakenBack, Held, Returned, OpenRequest
<1>5. OwedForASession'
  BY <1>1 DEF Begin, Close, FallDue, ForceComplete, OwedForASession
<1> QED BY <1>3, <1>4, <1>5

LEMMA WriteOwedKeeps ==
    ASSUME PayoutIInv, NEW batch \in SUBSET Bookings, WriteOwed(batch)
    PROVE  PayoutIInv'
<1> USE DEF PayoutIInv, TypeOK
<1>1. /\ earning' \in [Bookings -> {"none", "held", "available", "withdrawn", "reversed"}]
      /\ UNCHANGED <<begun, status, due, claim, listed, request, amount, book>>
      /\ \A c \in Bookings : \/ earning'[c] = earning[c]
                             \/ /\ earning[c] = "none" /\ earning'[c] = "held"
                                /\ status[c] \in {"completed", "no_show_student"}
  BY DEF WriteOwed, Owed
<1>2. TypeOK'
  BY <1>1
<1>3. EarningTellsLedger' /\ ClaimsAreAccountable' /\ HoldTellsRequest' /\ OneOpenRequest'
  BY <1>1 DEF EarningTellsLedger, ClaimsAreAccountable, HoldTellsRequest, OneOpenRequest,
              Paid, TakenBack, Held, Returned, OpenRequest
<1>4. OwedForASession'
  BY <1>1 DEF OwedForASession
<1> QED BY <1>2, <1>3, <1>4

(* The job's list is in no promise: the claim re-checks what it needs. *)
LEMMA ListKeeps ==
    ASSUME PayoutIInv, listed' \in [Runs -> SUBSET Bookings], UNCHANGED <<rowVars, book>>
    PROVE  PayoutIInv'
BY DEF rowVars, PayoutIInv, TypeOK, EarningTellsLedger, ClaimsAreAccountable, HoldTellsRequest,
       OneOpenRequest, OwedForASession, Paid, TakenBack, Held, Returned, OpenRequest

LEMMA ApproveKeeps ==
    ASSUME PayoutIInv, NEW r \in Requests, Approve(r)
    PROVE  PayoutIInv'
<1> USE DEF PayoutIInv, TypeOK, Approve
<1>1. TypeOK'
  OBVIOUS
<1>2. EarningTellsLedger' /\ OwedForASession'
  BY DEF EarningTellsLedger, OwedForASession, Paid, TakenBack
<1>3. ClaimsAreAccountable'
  BY DEF ClaimsAreAccountable, OpenRequest
<1>4. HoldTellsRequest'
  BY DEF HoldTellsRequest, Held, Returned
<1>5. OneOpenRequest'
  BY DEF OneOpenRequest, OpenRequest
<1> QED BY <1>1, <1>2, <1>3, <1>4, <1>5

LEMMA MarkPaidKeeps ==
    ASSUME PayoutIInv, NEW r \in Requests, MarkPaid(r)
    PROVE  PayoutIInv'
<1> USE DEF PayoutIInv, TypeOK, MarkPaid
<1>1. TypeOK'
  OBVIOUS
<1>2. EarningTellsLedger' /\ OwedForASession'
  BY DEF EarningTellsLedger, OwedForASession, Paid, TakenBack
<1>3. ClaimsAreAccountable'
  BY PayoutAssumption DEF ClaimsAreAccountable, OpenRequest
<1>4. HoldTellsRequest'
  BY DEF HoldTellsRequest, Held, Returned, OpenRequest
<1>5. OneOpenRequest'
  BY DEF OneOpenRequest, OpenRequest
<1> QED BY <1>1, <1>2, <1>3, <1>4, <1>5

-----------------------------------------------------------------------------
(* Steps that post *)

LEMMA ClaimKeeps ==
    ASSUME PayoutIInv, NEW j \in Runs, NEW b \in Bookings, ClaimAndCredit(j, b)
    PROVE  PayoutIInv' /\ (status[b] = "cancelled" /\ ~Paid(b) => UNCHANGED book)
<1>1. listed' \in [Runs -> SUBSET Bookings]
  BY DEF ClaimAndCredit, PayoutIInv, TypeOK
<1>2. CASE ~(Releasable(b) /\ ~Paid(b))
  <2>1. UNCHANGED <<rowVars, book>>
    BY <1>2 DEF ClaimAndCredit, rowVars
  <2> QED BY <1>1, <2>1, ListKeeps
<1>3. CASE Releasable(b) /\ ~Paid(b)
  <2> DEFINE key == <<"session_earning", b>>
  <2>1. /\ earning[b] = "held" /\ earning' = [earning EXCEPT ![b] = "available"]
        /\ book' = Post(book, Tutor[b], key, Net[b])
        /\ UNCHANGED <<begun, status, due, claim, request, amount>>
    BY <1>3 DEF ClaimAndCredit, Releasable
  <2>2. /\ Tutor[b] \in Tutors /\ Net[b] \in Nat \ {0} /\ key \in Keys
        /\ book \in Books(Tutors, Keys) /\ book.balance[Tutor[b]] + Net[b] >= 0
    <3>1. /\ Tutor[b] \in Tutors /\ Net[b] \in Nat \ {0} /\ key \in Keys
          /\ book \in Books(Tutors, Keys)
      BY PayoutAssumption, KeyFacts DEF PayoutIInv, TypeOK
    <3>2. book.balance[Tutor[b]] \in Nat
      BY <3>1 DEF Books
    <3> HIDE DEF key
    <3> QED BY <3>1, <3>2
  <2> HIDE DEF key
  <2>3. /\ book' \in Books(Tutors, Keys)
        /\ \A k \in Keys : book'.rows[k] = IF k = key THEN Net[b] ELSE book.rows[k]
    BY <2>1, <2>2, PostFacts
  <2>4. /\ \A c \in Bookings : /\ Paid(c)' <=> Paid(c) \/ c = b
                               /\ TakenBack(c)' <=> TakenBack(c)
        /\ \A r \in Requests :
               /\ book'.rows[<<"withdrawal_hold", r>>] = book.rows[<<"withdrawal_hold", r>>]
               /\ book'.rows[<<"withdrawal_reversed", r>>] = book.rows[<<"withdrawal_reversed", r>>]
    BY <2>2, <2>3, KeyFacts DEF key, Paid, TakenBack, Posted
  <2>5. /\ earning' \in [Bookings -> {"none", "held", "available", "withdrawn", "reversed"}]
        /\ \A c \in Bookings : earning'[c] = IF c = b THEN "available" ELSE earning[c]
        /\ claim[b] = NoRequest
    BY <2>1 DEF PayoutIInv, TypeOK, ClaimsAreAccountable
  <2>6. TypeOK'
    BY <1>1, <2>1, <2>3, <2>5 DEF PayoutIInv, TypeOK
  <2>7. EarningTellsLedger'
    BY <2>1, <2>4, <2>5 DEF PayoutIInv, EarningTellsLedger
  <2>8. ClaimsAreAccountable' /\ OneOpenRequest'
    BY <2>1, <2>5 DEF PayoutIInv, ClaimsAreAccountable, OneOpenRequest, OpenRequest
  <2>9. HoldTellsRequest'
    BY <2>1, <2>4 DEF PayoutIInv, HoldTellsRequest, Held, Returned, Posted
  <2>10. OwedForASession' /\ status[b] # "cancelled"
    BY <2>1, <2>5 DEF PayoutIInv, OwedForASession
  <2> QED BY <2>6, <2>7, <2>8, <2>9, <2>10 DEF PayoutIInv
<1> QED BY <1>2, <1>3

LEMMA RequestKeeps ==
    ASSUME PayoutIInv, NEW r \in Requests, RequestWithdrawal(r)
    PROVE  PayoutIInv' /\ \A b \in Bookings : Paid(b)' <=> Paid(b)
<1> DEFINE key == <<"withdrawal_hold", r>>
<1>1. /\ Of[r] \in Tutors /\ key \in Keys /\ book \in Books(Tutors, Keys)
      /\ book.balance[Of[r]] \in Nat \ {0}
  <2>1. /\ Of[r] \in Tutors /\ key \in Keys /\ book \in Books(Tutors, Keys)
        /\ book.balance[Of[r]] >= MinCredits /\ MinCredits \in Nat \ {0}
    BY PayoutAssumption, KeyFacts DEF RequestWithdrawal, PayoutIInv, TypeOK
  <2>2. book.balance[Of[r]] \in Nat
    BY <2>1 DEF Books
  <2> HIDE DEF key
  <2> QED BY <2>1, <2>2
<1> PICK amt \in Nat \ {0} : amt = book.balance[Of[r]]
  BY <1>1
<1>2. /\ request[r] = "none" /\ ~HasOpenRequest(Of[r])
      /\ request' = [request EXCEPT ![r] = "requested"]
      /\ amount' = [amount EXCEPT ![r] = amt]
      /\ book' = Post(book, Of[r], key, -amt)
      /\ claim' = [b \in Bookings |-> IF Claimable(b, Of[r]) THEN r ELSE claim[b]]
      /\ UNCHANGED <<begun, status, earning, due, listed>>
  BY DEF RequestWithdrawal
<1> HIDE DEF key
<1>3. /\ book' \in Books(Tutors, Keys)
      /\ \A k \in Keys : book'.rows[k] = IF k = key THEN -amt ELSE book.rows[k]
  <2>1. -amt \in Int /\ book.balance[Of[r]] + (-amt) >= 0
    BY <1>1
  <2> QED BY <1>1, <1>2, <2>1, PostFacts
<1>4. /\ \A c \in Bookings : (Paid(c)' <=> Paid(c)) /\ (TakenBack(c)' <=> TakenBack(c))
      /\ \A q \in Requests :
             /\ book'.rows[<<"withdrawal_hold", q>>] =
                    IF q = r THEN -amt ELSE book.rows[<<"withdrawal_hold", q>>]
             /\ book'.rows[<<"withdrawal_reversed", q>>] = book.rows[<<"withdrawal_reversed", q>>]
  BY <1>3, KeyFacts DEF key, Paid, TakenBack, Posted
<1>5. TypeOK'
  BY <1>2, <1>3, PayoutAssumption DEF PayoutIInv, TypeOK
<1>6. \A q \in Requests : /\ request'[q] = IF q = r THEN "requested" ELSE request[q]
                          /\ amount'[q] = IF q = r THEN amt ELSE amount[q]
  BY <1>2 DEF PayoutIInv, TypeOK
<1>7. EarningTellsLedger' /\ OwedForASession'
  BY <1>2, <1>4 DEF PayoutIInv, EarningTellsLedger, OwedForASession
<1>8. ClaimsAreAccountable'
  <2> SUFFICES ASSUME NEW b \in Bookings
               PROVE  /\ claim'[b] # NoRequest =>
                             /\ Of[claim'[b]] = Tutor[b]
                             /\ \/ request'[claim'[b]] \in OpenRequest /\ earning[b] = "available"
                                \/ request'[claim'[b]] = "paid" /\ earning[b] = "withdrawn"
                      /\ earning[b] = "withdrawn" => claim'[b] # NoRequest
    BY <1>2 DEF ClaimsAreAccountable, OpenRequest
  <2>1. CASE Claimable(b, Of[r])
    BY <1>2, <1>6, <2>1, PayoutAssumption DEF Claimable, OpenRequest
  <2>2. CASE ~Claimable(b, Of[r])
    <3>1. claim'[b] = claim[b] /\ claim[b] \in Requests \cup {NoRequest} /\ claim[b] # r
      BY <1>2, <2>2, PayoutAssumption DEF PayoutIInv, TypeOK, ClaimsAreAccountable, OpenRequest
    <3> QED BY <1>6, <3>1 DEF PayoutIInv, ClaimsAreAccountable
  <2> QED BY <2>1, <2>2
<1>9. HoldTellsRequest'
  <2> SUFFICES ASSUME NEW q \in Requests
               PROVE  /\ Held(q)' <=> request'[q] # "none"
                      /\ Returned(q)' <=> request'[q] = "rejected"
                      /\ Held(q)' => book'.rows[<<"withdrawal_hold", q>>] = -amount'[q]
                      /\ Returned(q)' => book'.rows[<<"withdrawal_reversed", q>>] = amount'[q]
    BY DEF HoldTellsRequest
  <2>1. /\ Held(q) <=> request[q] # "none"
        /\ Returned(q) <=> request[q] = "rejected"
        /\ Held(q) => book.rows[<<"withdrawal_hold", q>>] = -amount[q]
        /\ Returned(q) => book.rows[<<"withdrawal_reversed", q>>] = amount[q]
    BY DEF PayoutIInv, HoldTellsRequest
  <2>2. CASE q = r
    <3>1. -amt # 0
      OBVIOUS
    <3>2. book'.rows[<<"withdrawal_hold", q>>] = -amt
      BY <1>4, <2>2
    <3>3. Held(q)' /\ (Returned(q)' <=> Returned(q))
      BY <1>4, <3>1, <3>2 DEF Held, Returned, Posted
    <3> QED BY <1>2, <1>6, <2>1, <2>2, <3>2, <3>3
  <2>3. CASE q # r
    <3>1. (Held(q)' <=> Held(q)) /\ (Returned(q)' <=> Returned(q))
      BY <1>4, <2>3 DEF Held, Returned, Posted
    <3> QED BY <1>4, <1>6, <2>1, <2>3, <3>1
  <2> QED BY <2>2, <2>3
<1>10. OneOpenRequest'
  BY <1>2, <1>6 DEF PayoutIInv, OneOpenRequest, HasOpenRequest, OpenRequest
<1> QED BY <1>4, <1>5, <1>7, <1>8, <1>9, <1>10 DEF PayoutIInv

LEMMA RejectKeeps ==
    ASSUME PayoutIInv, NEW r \in Requests, Reject(r)
    PROVE  PayoutIInv' /\ \A b \in Bookings : Paid(b)' <=> Paid(b)
<1> DEFINE key == <<"withdrawal_reversed", r>>
<1>1. /\ Of[r] \in Tutors /\ key \in Keys /\ book \in Books(Tutors, Keys)
      /\ amount[r] \in Nat \ {0} /\ book.balance[Of[r]] + amount[r] >= 0
  <2>1. Held(r) /\ book.rows[<<"withdrawal_hold", r>>] = -amount[r] /\ amount[r] \in Nat
    BY DEF Reject, PayoutIInv, TypeOK, HoldTellsRequest, OpenRequest
  <2> QED BY <2>1, PayoutAssumption, KeyFacts DEF PayoutIInv, TypeOK, Books, Held, Posted
<1>2. /\ request[r] \in OpenRequest
      /\ request' = [request EXCEPT ![r] = "rejected"]
      /\ book' = Post(book, Of[r], key, amount[r])
      /\ claim' = [b \in Bookings |-> IF claim[b] = r /\ earning[b] = "available"
                                      THEN NoRequest ELSE claim[b]]
      /\ UNCHANGED <<begun, status, earning, due, listed, amount>>
  BY DEF Reject
<1> HIDE DEF key
<1>3. /\ book' \in Books(Tutors, Keys)
      /\ \A k \in Keys : book'.rows[k] = IF k = key THEN amount[r] ELSE book.rows[k]
  BY <1>1, <1>2, PostFacts
<1>4. /\ \A c \in Bookings : (Paid(c)' <=> Paid(c)) /\ (TakenBack(c)' <=> TakenBack(c))
      /\ \A q \in Requests :
             /\ book'.rows[<<"withdrawal_hold", q>>] = book.rows[<<"withdrawal_hold", q>>]
             /\ book'.rows[<<"withdrawal_reversed", q>>] =
                    IF q = r THEN amount[r] ELSE book.rows[<<"withdrawal_reversed", q>>]
  BY <1>3, KeyFacts DEF key, Paid, TakenBack, Posted
<1>5. TypeOK'
  BY <1>2, <1>3 DEF PayoutIInv, TypeOK
<1>6. \A q \in Requests : request'[q] = IF q = r THEN "rejected" ELSE request[q]
  BY <1>2 DEF PayoutIInv, TypeOK
<1>7. EarningTellsLedger' /\ OwedForASession'
  BY <1>2, <1>4 DEF PayoutIInv, EarningTellsLedger, OwedForASession
<1>8. ClaimsAreAccountable'
  BY <1>2, <1>6, PayoutAssumption DEF PayoutIInv, TypeOK, ClaimsAreAccountable, OpenRequest
<1>9. HoldTellsRequest'
  <2> SUFFICES ASSUME NEW q \in Requests
               PROVE  /\ Held(q)' <=> request'[q] # "none"
                      /\ Returned(q)' <=> request'[q] = "rejected"
                      /\ Held(q)' => book'.rows[<<"withdrawal_hold", q>>] = -amount'[q]
                      /\ Returned(q)' => book'.rows[<<"withdrawal_reversed", q>>] = amount'[q]
    BY DEF HoldTellsRequest
  <2>1. /\ Held(q) <=> request[q] # "none"
        /\ Returned(q) <=> request[q] = "rejected"
        /\ Held(q) => book.rows[<<"withdrawal_hold", q>>] = -amount[q]
        /\ Returned(q) => book.rows[<<"withdrawal_reversed", q>>] = amount[q]
    BY DEF PayoutIInv, HoldTellsRequest
  <2>2. Held(q)' <=> Held(q)
    BY <1>4 DEF Held, Posted
  <2>3. CASE q = r
    <3>1. Returned(q)' /\ request[q] # "none"
      BY <1>1, <1>2, <1>4, <2>3 DEF Returned, Posted, OpenRequest
    <3> QED BY <1>2, <1>4, <1>6, <2>1, <2>2, <2>3, <3>1
  <2>4. CASE q # r
    <3>1. Returned(q)' <=> Returned(q)
      BY <1>4, <2>4 DEF Returned, Posted
    <3> QED BY <1>2, <1>4, <1>6, <2>1, <2>2, <2>4, <3>1
  <2> QED BY <2>3, <2>4
<1>10. OneOpenRequest'
  BY <1>6 DEF PayoutIInv, OneOpenRequest, OpenRequest
<1> QED BY <1>4, <1>5, <1>7, <1>8, <1>9, <1>10 DEF PayoutIInv

(* Credits that come from no session are in no other row's promise. *)
LEMMA ExtraKeeps ==
    ASSUME PayoutIInv, NEW t \in Tutors, NEW d \in Int, book.balance[t] + d >= 0,
           NEW k \in ({"admin_adjustment"} \X Adjustments) \cup ({"availability_bonus"} \X Bonuses),
           book' = Post(book, t, k, d), UNCHANGED <<rowVars, listed>>
    PROVE  PayoutIInv' /\ \A b \in Bookings : Paid(b)' <=> Paid(b)
<1>1. k \in Keys /\ book \in Books(Tutors, Keys)
  BY DEF Keys, PayoutIInv, TypeOK
<1>2. /\ book' \in Books(Tutors, Keys)
      /\ \A q \in Keys : q # k => book'.rows[q] = book.rows[q]
  BY <1>1, PostFacts
<1>3. /\ \A c \in Bookings : (Paid(c)' <=> Paid(c)) /\ (TakenBack(c)' <=> TakenBack(c))
      /\ \A q \in Requests :
             /\ book'.rows[<<"withdrawal_hold", q>>] = book.rows[<<"withdrawal_hold", q>>]
             /\ book'.rows[<<"withdrawal_reversed", q>>] = book.rows[<<"withdrawal_reversed", q>>]
  BY <1>2, KeyFacts DEF Paid, TakenBack, Posted
<1>4. TypeOK'
  BY <1>2 DEF PayoutIInv, TypeOK, rowVars
<1>5. EarningTellsLedger' /\ HoldTellsRequest'
  BY <1>3 DEF PayoutIInv, rowVars, EarningTellsLedger, HoldTellsRequest, Held, Returned, Posted
<1>6. ClaimsAreAccountable' /\ OneOpenRequest' /\ OwedForASession'
  BY DEF PayoutIInv, rowVars, ClaimsAreAccountable, OneOpenRequest, OwedForASession, OpenRequest
<1> QED BY <1>3, <1>4, <1>5, <1>6 DEF PayoutIInv

LEMMA AdjustOrBonusKeeps ==
    ASSUME PayoutIInv,
           (\E a \in Adjustments : Adjust(a)) \/ (\E w \in Bonuses : AwardBonus(w))
    PROVE  PayoutIInv' /\ \A b \in Bookings : Paid(b)' <=> Paid(b)
<1>1. ASSUME NEW a \in Adjustments, Adjust(a)
      PROVE  PayoutIInv' /\ \A b \in Bookings : Paid(b)' <=> Paid(b)
  <2>1. /\ For[a] \in Tutors /\ Delta[a] \in Int /\ book.balance[For[a]] + Delta[a] >= 0
        /\ book' = Post(book, For[a], <<"admin_adjustment", a>>, Delta[a])
        /\ UNCHANGED <<rowVars, listed>>
    BY <1>1, PayoutAssumption DEF Adjust, CanPost, Covers, rowVars
  <2> QED BY <2>1, ExtraKeeps
<1>2. ASSUME NEW w \in Bonuses, AwardBonus(w)
      PROVE  PayoutIInv' /\ \A b \in Bookings : Paid(b)' <=> Paid(b)
  <2>1. /\ BonusFor[w] \in Tutors /\ BonusCredits[w] \in Int
        /\ book.balance[BonusFor[w]] + BonusCredits[w] >= 0
        /\ book' = Post(book, BonusFor[w], <<"availability_bonus", w>>, BonusCredits[w])
        /\ UNCHANGED <<rowVars, listed>>
    BY <1>2, PayoutAssumption DEF AwardBonus, CanPost, Covers, rowVars
  <2> QED BY <2>1, ExtraKeeps
<1> QED BY <1>1, <1>2

(* An earning a request has claimed is not taken back: its tutor has an open request. *)
LEMMA ForceCancelKeeps ==
    ASSUME PayoutIInv, NEW b \in Bookings, ForceCancel(b)
    PROVE  PayoutIInv' /\ \A c \in Bookings : Paid(c)' <=> Paid(c)
<1> DEFINE key == <<"earning_reversal", b>>
           taken == TutorReversal(b) = "debit_available"
<1>1. /\ taken => /\ earning[b] = "available" /\ ~HasOpenRequest(Tutor[b])
                  /\ book.balance[Tutor[b]] >= Net[b]
      /\ TutorReversal(b) = "reverse_held" <=> earning[b] = "held"
      /\ Tutor[b] \in Tutors /\ Net[b] \in Nat \ {0} /\ key \in Keys
      /\ book \in Books(Tutors, Keys) /\ book.balance[Tutor[b]] \in Nat
  <2>1. /\ earning[b] \in {"none", "held", "available", "withdrawn", "reversed"}
        /\ Tutor[b] \in Tutors /\ Net[b] \in Nat \ {0} /\ key \in Keys
        /\ book \in Books(Tutors, Keys) /\ book.balance[Tutor[b]] \in Nat
    BY PayoutAssumption, KeyFacts DEF PayoutIInv, TypeOK, Books
  <2> QED BY <2>1 DEF TutorReversal
<1>2. /\ status' = [status EXCEPT ![b] = "cancelled"]
      /\ earning' = IF TutorReversal(b) \in {"reverse_held", "debit_available"}
                    THEN [earning EXCEPT ![b] = "reversed"] ELSE earning
      /\ UNCHANGED <<begun, due, claim, listed, request, amount>>
  BY DEF ForceCancel
<1> PICK delta \in Int : delta = -Net[b] /\ delta < 0
  BY <1>1
<1>3. /\ book' \in Books(Tutors, Keys)
      /\ \A k \in Keys : book'.rows[k] = IF taken /\ k = key THEN delta ELSE book.rows[k]
  <2>1. CASE ~taken
    BY <1>1, <2>1 DEF ForceCancel
  <2>2. CASE taken
    <3>1. ~Posted(book, key)
      BY <1>1, <2>2 DEF PayoutIInv, EarningTellsLedger, TakenBack
    <3>2. book' = Post(book, Tutor[b], key, delta) /\ book.balance[Tutor[b]] + delta >= 0
      BY <1>1, <2>2, <3>1 DEF ForceCancel, PostOnce
    <3> HIDE DEF key
    <3> QED BY <1>1, <2>2, <3>2, PostFacts
  <2> QED BY <2>1, <2>2
<1> HIDE DEF taken
<1>4. /\ \A c \in Bookings : /\ Paid(c)' <=> Paid(c)
                             /\ TakenBack(c)' <=> TakenBack(c) \/ (taken /\ c = b)
      /\ \A q \in Requests :
             /\ book'.rows[<<"withdrawal_hold", q>>] = book.rows[<<"withdrawal_hold", q>>]
             /\ book'.rows[<<"withdrawal_reversed", q>>] = book.rows[<<"withdrawal_reversed", q>>]
  BY <1>3, KeyFacts DEF Paid, TakenBack, Posted
<1>5. /\ \A c \in Bookings : /\ status'[c] = IF c = b THEN "cancelled" ELSE status[c]
                             /\ earning'[c] = IF c = b /\ (taken \/ earning[b] = "held")
                                              THEN "reversed" ELSE earning[c]
      /\ TypeOK'
  BY <1>1, <1>2, <1>3 DEF taken, PayoutIInv, TypeOK
<1>6. taken \/ earning[b] = "held" => claim[b] = NoRequest
  BY <1>1 DEF PayoutIInv, TypeOK, ClaimsAreAccountable, HasOpenRequest, OpenRequest
<1>7. EarningTellsLedger'
  BY <1>1, <1>4, <1>5 DEF PayoutIInv, EarningTellsLedger
<1>8. ClaimsAreAccountable' /\ OneOpenRequest'
  BY <1>1, <1>2, <1>5, <1>6 DEF PayoutIInv, ClaimsAreAccountable, OneOpenRequest, OpenRequest
<1>9. HoldTellsRequest'
  BY <1>2, <1>4 DEF PayoutIInv, HoldTellsRequest, Held, Returned, Posted
<1>10. OwedForASession'
  BY <1>1, <1>2, <1>5 DEF PayoutIInv, OwedForASession
<1> QED BY <1>4, <1>5, <1>7, <1>8, <1>9, <1>10 DEF PayoutIInv

-----------------------------------------------------------------------------
(* No step pays a cancelled booking, and every step keeps the invariant. *)
LEMMA StepKeeps ==
    ASSUME PayoutIInv, [Next]_vars
    PROVE  /\ PayoutIInv'
           /\ \A b \in Bookings : status[b] = "cancelled" /\ ~Paid(b) => ~Paid(b)'
<1>1. CASE UNCHANGED vars
  BY <1>1, ListKeeps DEF vars, rowVars, Paid, PayoutIInv, TypeOK
<1>2. ASSUME NEW b \in Bookings, SessionStep(b)
      PROVE  PayoutIInv' /\ \A c \in Bookings : Paid(c)' <=> Paid(c)
  <2>1. CASE ForceCancel(b)
    BY <2>1, ForceCancelKeeps
  <2>2. CASE Begin(b) \/ Close(b) \/ FallDue(b) \/ ForceComplete(b)
    <3>1. UNCHANGED book
      BY <2>2 DEF Begin, Close, FallDue, ForceComplete
    <3> QED BY <2>2, <3>1, SessionKeeps DEF Paid
  <2> QED BY <1>2, <2>1, <2>2 DEF SessionStep
<1>3. ASSUME NEW batch \in SUBSET Bookings, WriteOwed(batch)
      PROVE  PayoutIInv' /\ UNCHANGED book
  BY <1>3, WriteOwedKeeps DEF WriteOwed
<1>4. ASSUME NEW j \in Runs, ListDue(j) \/ RunDies(j)
      PROVE  PayoutIInv' /\ UNCHANGED book
  <2>1. listed' \in [Runs -> SUBSET Bookings] /\ UNCHANGED <<rowVars, book>>
    BY <1>4 DEF ListDue, RunDies, rowVars, PayoutIInv, TypeOK
  <2> QED BY <2>1, ListKeeps
<1>5. ASSUME NEW j \in Runs, NEW b \in Bookings, ClaimAndCredit(j, b)
      PROVE  /\ PayoutIInv'
             /\ \A c \in Bookings : status[c] = "cancelled" /\ ~Paid(c) => ~Paid(c)'
  <2>1. PayoutIInv' /\ (status[b] = "cancelled" /\ ~Paid(b) => UNCHANGED book)
    BY <1>5, ClaimKeeps
  <2>2. \A c \in Bookings : c # b => (Paid(c)' <=> Paid(c))
    <3> DEFINE key == <<"session_earning", b>>
    <3>1. /\ Tutor[b] \in Tutors /\ Net[b] \in Int /\ key \in Keys
          /\ book \in Books(Tutors, Keys) /\ book.balance[Tutor[b]] + Net[b] >= 0
          /\ book' = book \/ book' = Post(book, Tutor[b], key, Net[b])
      <4>1. /\ Tutor[b] \in Tutors /\ Net[b] \in Nat \ {0} /\ key \in Keys
            /\ book \in Books(Tutors, Keys)
        BY PayoutAssumption, KeyFacts DEF PayoutIInv, TypeOK
      <4>2. book.balance[Tutor[b]] \in Nat
        BY <4>1 DEF Books
      <4>3. book' = book \/ book' = Post(book, Tutor[b], key, Net[b])
        BY <1>5 DEF ClaimAndCredit
      <4> HIDE DEF key
      <4> QED BY <4>1, <4>2, <4>3
    <3> HIDE DEF key
    <3>2. \A k \in Keys : k # key => book'.rows[k] = book.rows[k]
      BY <3>1, PostFacts
    <3> QED BY <3>2, KeyFacts DEF key, Paid, Posted
  <2> QED BY <2>1, <2>2 DEF Paid
<1>6. ASSUME NEW r \in Requests, RequestStep(r)
      PROVE  PayoutIInv' /\ \A b \in Bookings : Paid(b)' <=> Paid(b)
  <2>1. CASE RequestWithdrawal(r)
    BY <2>1, RequestKeeps
  <2>2. CASE Reject(r)
    BY <2>2, RejectKeeps
  <2>3. CASE Approve(r) \/ MarkPaid(r)
    <3>1. UNCHANGED book
      BY <2>3 DEF Approve, MarkPaid
    <3> QED BY <2>3, <3>1, ApproveKeeps, MarkPaidKeeps DEF Paid
  <2> QED BY <1>6, <2>1, <2>2, <2>3 DEF RequestStep
<1>7. CASE Next
  <2>1. CASE \E b \in Bookings : SessionStep(b)
    BY <1>2, <2>1
  <2>2. CASE \E batch \in (SUBSET Bookings) \ {{}} : WriteOwed(batch)
    <3>1. PayoutIInv' /\ UNCHANGED book
      BY <1>3, <2>2
    <3> QED BY <3>1 DEF Paid
  <2>3. CASE \E j \in Runs : RunStep(j)
    <3> PICK j \in Runs : RunStep(j)
      BY <2>3
    <3>1. CASE ListDue(j) \/ RunDies(j)
      <4>1. PayoutIInv' /\ UNCHANGED book
        BY <1>4, <3>1
      <4> QED BY <4>1 DEF Paid
    <3>2. CASE \E b \in Bookings : ClaimAndCredit(j, b)
      BY <1>5, <3>2
    <3> QED BY <3>1, <3>2 DEF RunStep
  <2>4. CASE \E r \in Requests : RequestStep(r)
    BY <1>6, <2>4
  <2>5. CASE (\E a \in Adjustments : Adjust(a)) \/ (\E w \in Bonuses : AwardBonus(w))
    BY <2>5, AdjustOrBonusKeeps
  <2> QED BY <1>7, <2>1, <2>2, <2>3, <2>4, <2>5 DEF Next
<1> QED BY <1>1, <1>7

(***************************************************************************)
(* However the job's runs, cancels, completions and withdrawals overlap:   *)
(* an earnings row tells what the ledger paid for it, a row is withdrawn   *)
(* by the request that claimed it, a hold is settled once, and a tutor has *)
(* one open request.                                                       *)
(***************************************************************************)
THEOREM PayoutSafe == Spec => []PayoutIInv
<1>1. PayoutIInv /\ [Next]_vars => PayoutIInv'
  BY StepKeeps
<1> QED BY <1>1, InitIInv, PTL DEF Spec

(* What the release job answers for: a row's status tells what was paid. *)
THEOREM LedgerOfEarnings == Spec => []EarningTellsLedger
<1>1. PayoutIInv => EarningTellsLedger
  BY DEF PayoutIInv
<1> QED BY <1>1, PayoutSafe, PTL

(* What the withdrawals answer for: a claimed row is in the request that    *)
(* claimed it, open or paid, and a withdrawn one was claimed.               *)
THEOREM ClaimsAreAccounted == Spec => []ClaimsAreAccountable
<1>1. PayoutIInv => ClaimsAreAccountable
  BY DEF PayoutIInv
<1> QED BY <1>1, PayoutSafe, PTL

(* A cancelled booking that was not paid out never is: release and cancel do not cross. *)
THEOREM NeverPaidAfterCancel == Spec => CancelledIsNotPaid
<1>1. PayoutIInv /\ [Next]_vars =>
          [\A b \in Bookings : status[b] = "cancelled" /\ ~Paid(b) => ~Paid(b)']_vars
  BY StepKeeps
<1> QED BY <1>1, PayoutSafe, PTL DEF Spec, CancelledIsNotPaid

-----------------------------------------------------------------------------
(* What leaves with a request is what its rows brought in *)

WalletCovers(t) == book.balance[t] >= SumFunctionOnSet(Net, Unclaimed(t))
RequestsCover(t) ==
    \A r \in Requests : Of[r] = t /\ request[r] \in Standing =>
        amount[r] >= SumFunctionOnSet(Net, ClaimedBy(r))

AllCovered == \A t \in Tutors : ~Docked(t) => WalletCovers(t) /\ RequestsCover(t)
AllAccounted == \A t \in Tutors : Accounted(t)

LEMMA SquareIs == WithdrawalIsItsEarnings <=> AllAccounted /\ AllCovered
<1>1. ASSUME NEW t \in Tutors PROVE Covered(t) <=> WalletCovers(t) /\ RequestsCover(t)
  BY DEF Covered, StandingOf, WalletCovers, RequestsCover
<1> QED BY <1>1 DEF WithdrawalIsItsEarnings, AllAccounted, AllCovered

(* The rows of any tutor are few enough, and worth enough, to add up. *)
LEMMA NetAddsUp ==
    ASSUME NEW S, S \subseteq Bookings
    PROVE  IsFiniteSet(S) /\ IntOn(Net, S) /\ SumFunctionOnSet(Net, S) \in Int
<1>1. IsFiniteSet(S) /\ IntOn(Net, S)
  BY PayoutAssumption, FS_Subset DEF IntOn
<1> QED BY <1>1, SumRemove

LEMMA InitCovered == Init => AllCovered
<1> SUFFICES ASSUME Init, NEW t \in Tutors PROVE WalletCovers(t) /\ RequestsCover(t)
  BY DEF AllCovered
<1>1. Unclaimed(t) = {} /\ book.balance[t] = 0
  BY DEF Init, EmptyBook, Unclaimed, Claimable
<1>2. WalletCovers(t)
  BY <1>1, SumEmpty DEF WalletCovers
<1>3. RequestsCover(t)
  BY DEF Init, RequestsCover, Standing, OpenRequest
<1> QED BY <1>2, <1>3

(* A post moves one balance, writes one row, and forgives no docking. *)
LEMMA PostMoves ==
    ASSUME book \in Books(Tutors, Keys), NEW t \in Tutors, NEW k \in Keys, NEW d \in Int \ {0},
           book' = Post(book, t, k, d)
    PROVE  /\ \A u \in Tutors : /\ book.balance[u] \in Nat
                                /\ book'.balance[u] = IF u = t THEN book.balance[u] + d
                                                      ELSE book.balance[u]
                                /\ Docked(u) => Docked(u)'
           /\ \A q \in Keys : book'.rows[q] = IF q = k THEN d ELSE book.rows[q]
<1>1. /\ book'.rows = [book.rows EXCEPT ![k] = d] /\ book.rows \in [Keys -> Int]
      /\ book'.balance = [book.balance EXCEPT ![t] = @ + d] /\ book.balance \in [Tutors -> Nat]
  BY DEF Post, Books
<1>2. \A q \in Keys : Posted(book, q) => Posted(book', q)
  BY <1>1 DEF Posted
<1>3. ASSUME NEW u \in Tutors PROVE Docked(u) => Docked(u)'
  BY <1>2, KeyFacts DEF Docked
<1> QED BY <1>1, <1>3

(* What a step must leave alone for a tutor to stay square. *)
SameFor(t) ==
    /\ book'.balance[t] = book.balance[t] /\ Unclaimed(t)' = Unclaimed(t)
    /\ \A r \in Requests : Of[r] = t /\ request'[r] \in Standing =>
           request[r] \in Standing /\ amount'[r] = amount[r] /\ ClaimedBy(r)' = ClaimedBy(r)

LEMMA SameStaysCovered ==
    ASSUME NEW t, SameFor(t), WalletCovers(t), RequestsCover(t)
    PROVE  WalletCovers(t)' /\ RequestsCover(t)'
BY DEF SameFor, WalletCovers, RequestsCover, Standing, OpenRequest

(* A step that posts nothing and claims nothing disturbs no sum. *)
LEMMA QuietKeepsCovered ==
    ASSUME AllCovered, UNCHANGED <<book, claim, amount>>,
           \A b \in Bookings : claim[b] = NoRequest =>
               (earning'[b] = "available" <=> earning[b] = "available"),
           \A r \in Requests : request'[r] \in Standing => request[r] \in Standing
    PROVE  AllCovered'
<1> SUFFICES ASSUME NEW t \in Tutors, ~Docked(t)'
             PROVE  WalletCovers(t)' /\ RequestsCover(t)'
  BY DEF AllCovered
<1>1. WalletCovers(t) /\ RequestsCover(t)
  BY DEF AllCovered, Docked
<1>2. SameFor(t)
  BY DEF SameFor, Unclaimed, Claimable, ClaimedBy
<1> QED BY <1>1, <1>2, SameStaysCovered

LEMMA QuietStepsKeepCovered ==
    ASSUME PayoutIInv, AllCovered,
           \/ \E b \in Bookings : Begin(b) \/ Close(b) \/ FallDue(b) \/ ForceComplete(b)
           \/ \E batch \in SUBSET Bookings : WriteOwed(batch)
           \/ \E j \in Runs : ListDue(j) \/ RunDies(j)
           \/ \E r \in Requests : Approve(r) \/ MarkPaid(r)
           \/ UNCHANGED vars
    PROVE  AllCovered'
<1>1. UNCHANGED <<book, claim, amount>>
  BY DEF Begin, Close, FallDue, ForceComplete, WriteOwed, ListDue, RunDies, Approve, MarkPaid, vars
<1>2. \A b \in Bookings : claim[b] = NoRequest =>
          (earning'[b] = "available" <=> earning[b] = "available")
  BY PayoutAssumption DEF PayoutIInv, TypeOK, Begin, Close, FallDue, ForceComplete, WriteOwed, Owed,
         ListDue, RunDies, Approve, MarkPaid, vars
<1>3. \A r \in Requests : request'[r] \in Standing => request[r] \in Standing
  BY DEF PayoutIInv, TypeOK, Begin, Close, FallDue, ForceComplete, WriteOwed, ListDue, RunDies,
         Approve, MarkPaid, vars, Standing, OpenRequest
<1> QED BY <1>1, <1>2, <1>3, QuietKeepsCovered

(* The release adds the row to the balance and to what can be claimed. *)
LEMMA ClaimKeepsCovered ==
    ASSUME PayoutIInv, AllCovered,
           NEW j \in Runs, NEW b \in Bookings, ClaimAndCredit(j, b)
    PROVE  AllCovered'
<1>1. CASE ~(Releasable(b) /\ ~Paid(b))
  BY <1>1, QuietKeepsCovered DEF ClaimAndCredit
<1>2. CASE Releasable(b) /\ ~Paid(b)
  <2> DEFINE key == <<"session_earning", b>>
  <2>1. /\ earning[b] = "held" /\ UNCHANGED <<claim, request, amount>>
        /\ \A c \in Bookings : earning'[c] = IF c = b THEN "available" ELSE earning[c]
        /\ book' = Post(book, Tutor[b], key, Net[b])
    BY <1>2 DEF ClaimAndCredit, Releasable, PayoutIInv, TypeOK
  <2>2. claim[b] = NoRequest
    BY <2>1 DEF PayoutIInv, ClaimsAreAccountable
  <2>3. /\ Tutor[b] \in Tutors /\ Net[b] \in Int \ {0}
        /\ key \in Keys /\ book \in Books(Tutors, Keys)
    <3>1. Net[b] \in Nat \ {0} /\ Tutor[b] \in Tutors
      BY PayoutAssumption
    <3>2. key \in Keys /\ book \in Books(Tutors, Keys)
      BY KeyFacts DEF PayoutIInv, TypeOK
    <3> HIDE DEF key
    <3> QED BY <3>1, <3>2
  <2> HIDE DEF key
  <2>4. \A u \in Tutors : /\ book.balance[u] \in Nat
                          /\ book'.balance[u] = IF u = Tutor[b] THEN book.balance[u] + Net[b]
                                                ELSE book.balance[u]
                          /\ Docked(u) => Docked(u)'
    BY <2>1, <2>3, PostMoves
  <2> SUFFICES ASSUME NEW t \in Tutors, ~Docked(t)'
               PROVE  WalletCovers(t)' /\ RequestsCover(t)'
    BY DEF AllCovered
  <2>5. WalletCovers(t) /\ RequestsCover(t)
    BY <2>4 DEF AllCovered
  <2>6. RequestsCover(t)'
    BY <2>1, <2>5 DEF RequestsCover, ClaimedBy, Standing, OpenRequest
  <2>7. CASE t # Tutor[b]
    <3>1. SameFor(t)
      BY <2>1, <2>4, <2>7 DEF SameFor, Unclaimed, Claimable, ClaimedBy
    <3> QED BY <2>5, <3>1, SameStaysCovered
  <2>8. CASE t = Tutor[b]
    <3>1. Unclaimed(t)' = Unclaimed(t) \cup {b} /\ b \notin Unclaimed(t) /\ Unclaimed(t) \subseteq Bookings
      BY <2>1, <2>2, <2>8 DEF Unclaimed, Claimable
    <3>2. SumFunctionOnSet(Net, Unclaimed(t) \cup {b}) = SumFunctionOnSet(Net, Unclaimed(t)) + Net[b]
      BY <3>1, NetAddsUp, SumAdd
    <3>3. SumFunctionOnSet(Net, Unclaimed(t)) \in Int
      BY <3>1, NetAddsUp
    <3>4. WalletCovers(t)'
      BY <2>3, <2>4, <2>5, <2>8, <3>1, <3>2, <3>3 DEF WalletCovers
    <3> QED BY <2>6, <3>4
  <2> QED BY <2>7, <2>8
<1> QED BY <1>1, <1>2

(* A request takes the whole balance, and every row it came from. *)
LEMMA RequestKeepsCovered ==
    ASSUME PayoutIInv, AllCovered, NEW r \in Requests, RequestWithdrawal(r)
    PROVE  AllCovered'
<1> DEFINE key == <<"withdrawal_hold", r>>
           taken == book.balance[Of[r]]
<1>1. /\ request[r] = "none" /\ UNCHANGED earning
      /\ \A q \in Requests : /\ request'[q] = IF q = r THEN "requested" ELSE request[q]
                             /\ amount'[q] = IF q = r THEN taken ELSE amount[q]
      /\ \A b \in Bookings : claim'[b] = IF Claimable(b, Of[r]) THEN r ELSE claim[b]
      /\ book' = Post(book, Of[r], key, -taken)
  BY DEF RequestWithdrawal, PayoutIInv, TypeOK
<1>2. /\ Of[r] \in Tutors /\ key \in Keys /\ book \in Books(Tutors, Keys) /\ r # NoRequest
  BY PayoutAssumption, KeyFacts DEF PayoutIInv, TypeOK
<1>3. taken \in Nat /\ taken # 0
  BY <1>2, PayoutAssumption DEF Books, RequestWithdrawal
<1> HIDE DEF key, taken
<1>4. -taken \in Int \ {0}
  BY <1>3
<1>5. \A u \in Tutors : /\ book.balance[u] \in Nat
                        /\ book'.balance[u] = IF u = Of[r] THEN book.balance[u] + (-taken)
                                              ELSE book.balance[u]
                        /\ Docked(u) => Docked(u)'
  BY <1>1, <1>2, <1>4, PostMoves
<1>6. \A b \in Bookings : claim[b] # r
  BY <1>1, <1>2 DEF PayoutIInv, ClaimsAreAccountable, OpenRequest
<1> SUFFICES ASSUME NEW t \in Tutors, ~Docked(t)'
             PROVE  WalletCovers(t)' /\ RequestsCover(t)'
  BY DEF AllCovered
<1>7. WalletCovers(t) /\ RequestsCover(t)
  BY <1>5 DEF AllCovered
<1>8. CASE t # Of[r]
  <2>1. \A q \in Requests : Of[q] = t => ClaimedBy(q)' = ClaimedBy(q)
    <3>1. NoRequest \notin Requests
      BY PayoutAssumption
    <3> QED BY <1>1, <1>8, <3>1 DEF ClaimedBy, Claimable
  <2>2. Unclaimed(t)' = Unclaimed(t)
    BY <1>1, <1>2, <1>8 DEF Unclaimed, Claimable
  <2>3. SameFor(t)
    BY <1>1, <1>5, <1>8, <2>1, <2>2 DEF SameFor
  <2> QED BY <1>7, <2>3, SameStaysCovered
<1>9. CASE t = Of[r]
  <2>1. Unclaimed(t)' = {}
    BY <1>1, <1>2, <1>9 DEF Unclaimed, Claimable
  <2>2. book'.balance[t] = 0
    BY <1>3, <1>5, <1>9 DEF taken
  <2>3. WalletCovers(t)'
    BY <2>1, <2>2, SumEmpty DEF WalletCovers
  <2>4. ClaimedBy(r)' = Unclaimed(t)
    BY <1>1, <1>6, <1>9 DEF ClaimedBy, Unclaimed
  <2>5. \A q \in Requests : q # r /\ request[q] \in Standing => ClaimedBy(q)' = ClaimedBy(q)
    <3>1. \A b \in Bookings : Claimable(b, Of[r]) => claim[b] \notin Requests
      BY PayoutAssumption DEF Claimable
    <3> QED BY <1>1, <3>1 DEF ClaimedBy
  <2>6. RequestsCover(t)'
    <3> SUFFICES ASSUME NEW q \in Requests, Of[q] = t, request'[q] \in Standing
                 PROVE  amount'[q] >= SumFunctionOnSet(Net, ClaimedBy(q)')
      BY DEF RequestsCover, Standing, OpenRequest
    <3>1. CASE q = r
      BY <1>1, <1>7, <1>9, <2>4, <3>1 DEF WalletCovers, taken
    <3>2. CASE q # r
      BY <1>1, <1>7, <2>5, <3>2 DEF RequestsCover
    <3> QED BY <3>1, <3>2
  <2> QED BY <2>3, <2>6
<1> QED BY <1>8, <1>9

(* A rejection gives both back. *)
LEMMA RejectKeepsCovered ==
    ASSUME PayoutIInv, AllCovered, NEW r \in Requests, Reject(r)
    PROVE  AllCovered'
<1> DEFINE key == <<"withdrawal_reversed", r>>
<1>1. /\ request[r] \in OpenRequest /\ UNCHANGED <<earning, amount>>
      /\ \A q \in Requests : request'[q] = IF q = r THEN "rejected" ELSE request[q]
      /\ \A b \in Bookings : claim'[b] = IF claim[b] = r /\ earning[b] = "available"
                                         THEN NoRequest ELSE claim[b]
      /\ book' = Post(book, Of[r], key, amount[r])
  BY DEF Reject, PayoutIInv, TypeOK
<1>2. /\ Of[r] \in Tutors /\ key \in Keys /\ book \in Books(Tutors, Keys) /\ r # NoRequest
      /\ amount[r] \in Nat
  BY PayoutAssumption, KeyFacts DEF PayoutIInv, TypeOK
<1> HIDE DEF key
<1>3. amount[r] \in Int \ {0}
  <2>1. Held(r) /\ book.rows[<<"withdrawal_hold", r>>] = -amount[r]
    BY <1>1 DEF PayoutIInv, HoldTellsRequest, OpenRequest
  <2> QED BY <1>2, <2>1 DEF Held, Posted
<1>4. \A u \in Tutors : /\ book.balance[u] \in Nat
                        /\ book'.balance[u] = IF u = Of[r] THEN book.balance[u] + amount[r]
                                              ELSE book.balance[u]
                        /\ Docked(u) => Docked(u)'
  BY <1>1, <1>2, <1>3, PostMoves
<1>5. \A b \in Bookings : claim[b] = r => earning[b] = "available" /\ Tutor[b] = Of[r]
  BY <1>1, <1>2 DEF PayoutIInv, ClaimsAreAccountable, OpenRequest
<1> SUFFICES ASSUME NEW t \in Tutors, ~Docked(t)'
             PROVE  WalletCovers(t)' /\ RequestsCover(t)'
  BY DEF AllCovered
<1>6. WalletCovers(t) /\ RequestsCover(t)
  BY <1>4 DEF AllCovered
<1>7. \A q \in Requests : request'[q] \in Standing =>
          q # r /\ request[q] \in Standing /\ ClaimedBy(q)' = ClaimedBy(q)
  <2>1. NoRequest \notin Requests
    BY PayoutAssumption
  <2> QED BY <1>1, <2>1 DEF Standing, OpenRequest, ClaimedBy
<1>8. RequestsCover(t)'
  <2> SUFFICES ASSUME NEW q \in Requests, Of[q] = t, request'[q] \in Standing
               PROVE  amount'[q] >= SumFunctionOnSet(Net, ClaimedBy(q)')
    BY DEF RequestsCover, Standing, OpenRequest
  <2> QED BY <1>1, <1>6, <1>7 DEF RequestsCover
<1>9. CASE t # Of[r]
  <2>1. Unclaimed(t)' = Unclaimed(t)
    BY <1>1, <1>5, <1>9 DEF Unclaimed, Claimable
  <2> QED BY <1>4, <1>6, <1>8, <1>9, <2>1 DEF WalletCovers
<1>10. CASE t = Of[r]
  <2>1. /\ Unclaimed(t)' = Unclaimed(t) \cup ClaimedBy(r) /\ Unclaimed(t) \cap ClaimedBy(r) = {}
        /\ Unclaimed(t) \subseteq Bookings /\ ClaimedBy(r) \subseteq Bookings
        /\ Unclaimed(t) \cup ClaimedBy(r) \subseteq Bookings
    BY <1>1, <1>2, <1>5, <1>10 DEF Unclaimed, ClaimedBy, Claimable
  <2>2. SumFunctionOnSet(Net, Unclaimed(t) \cup ClaimedBy(r)) =
            SumFunctionOnSet(Net, Unclaimed(t)) + SumFunctionOnSet(Net, ClaimedBy(r))
    BY <2>1, NetAddsUp, SumUnion
  <2>3. amount[r] >= SumFunctionOnSet(Net, ClaimedBy(r))
    BY <1>1, <1>6, <1>10 DEF RequestsCover, Standing
  <2>4. SumFunctionOnSet(Net, Unclaimed(t)) \in Int /\ SumFunctionOnSet(Net, ClaimedBy(r)) \in Int
    BY <2>1, NetAddsUp
  <2>5. WalletCovers(t)'
    BY <1>2, <1>4, <1>6, <1>10, <2>1, <2>2, <2>3, <2>4 DEF WalletCovers
  <2> QED BY <1>8, <2>5
<1> QED BY <1>8, <1>9, <1>10

(* A cancel that debits the tutor takes an unclaimed row with the credits. *)
LEMMA CancelKeepsCovered ==
    ASSUME PayoutIInv, AllCovered, NEW b \in Bookings, ForceCancel(b)
    PROVE  AllCovered'
<1>1. UNCHANGED <<claim, request, amount>>
  BY DEF ForceCancel
<1>2. CASE TutorReversal(b) # "debit_available"
  <2>1. /\ UNCHANGED book
        /\ \A c \in Bookings : earning'[c] = "available" <=> earning[c] = "available"
    BY <1>2 DEF ForceCancel, TutorReversal, PayoutIInv, TypeOK
  <2> QED BY <1>1, <2>1, QuietKeepsCovered
<1>3. CASE TutorReversal(b) = "debit_available"
  <2> DEFINE key == <<"earning_reversal", b>>
  <2>1. /\ earning[b] = "available" /\ ~HasOpenRequest(Tutor[b])
        /\ \A c \in Bookings : earning'[c] = IF c = b THEN "reversed" ELSE earning[c]
    BY <1>3 DEF TutorReversal, ForceCancel, PayoutIInv, TypeOK
  <2>2. book' = Post(book, Tutor[b], key, -Net[b])
    BY <1>3, <2>1 DEF ForceCancel, PostOnce, PayoutIInv, EarningTellsLedger, TakenBack
  <2>3. /\ Tutor[b] \in Tutors /\ Net[b] \in Nat \ {0}
        /\ key \in Keys /\ book \in Books(Tutors, Keys)
    <3>1. Net[b] \in Nat \ {0} /\ Tutor[b] \in Tutors
      BY PayoutAssumption
    <3>2. key \in Keys /\ book \in Books(Tutors, Keys)
      BY KeyFacts DEF PayoutIInv, TypeOK
    <3> HIDE DEF key
    <3> QED BY <3>1, <3>2
  <2>4. claim[b] = NoRequest
    BY <2>1 DEF PayoutIInv, TypeOK, ClaimsAreAccountable, HasOpenRequest
  <2> HIDE DEF key
  <2>5. PICK d \in Int \ {0} : d = -Net[b]
    BY <2>3
  <2>6. \A u \in Tutors : /\ book.balance[u] \in Nat
                          /\ book'.balance[u] = IF u = Tutor[b] THEN book.balance[u] + d
                                                ELSE book.balance[u]
                          /\ Docked(u) => Docked(u)'
    BY <2>2, <2>3, <2>5, PostMoves
  <2> SUFFICES ASSUME NEW t \in Tutors, ~Docked(t)'
               PROVE  WalletCovers(t)' /\ RequestsCover(t)'
    BY DEF AllCovered
  <2>7. WalletCovers(t) /\ RequestsCover(t)
    BY <2>6 DEF AllCovered
  <2>8. RequestsCover(t)'
    BY <1>1, <2>7 DEF RequestsCover, ClaimedBy, Standing, OpenRequest
  <2>9. CASE t # Tutor[b]
    <3>1. SameFor(t)
      BY <1>1, <2>1, <2>6, <2>9 DEF SameFor, Unclaimed, Claimable, ClaimedBy
    <3> QED BY <2>7, <3>1, SameStaysCovered
  <2>10. CASE t = Tutor[b]
    <3>1. Unclaimed(t)' = Unclaimed(t) \ {b} /\ b \in Unclaimed(t) /\ Unclaimed(t) \subseteq Bookings
      BY <1>1, <2>1, <2>4, <2>10 DEF Unclaimed, Claimable
    <3>2. /\ SumFunctionOnSet(Net, Unclaimed(t)) = Net[b] + SumFunctionOnSet(Net, Unclaimed(t) \ {b})
          /\ SumFunctionOnSet(Net, Unclaimed(t) \ {b}) \in Int
      BY <3>1, NetAddsUp, SumRemove
    <3>3. book'.balance[t] = book.balance[t] + d
      BY <2>6, <2>10
    <3>4. book.balance[t] \in Int
      BY <2>6
    <3>5. book'.balance[t] >= SumFunctionOnSet(Net, Unclaimed(t) \ {b})
      BY <2>3, <2>5, <2>7, <3>2, <3>3, <3>4 DEF WalletCovers
    <3>6. WalletCovers(t)'
      BY <3>1, <3>5 DEF WalletCovers
    <3> QED BY <2>8, <3>6
  <2> QED BY <2>9, <2>10
<1> QED BY <1>2, <1>3

(* Credits from no session leave every claim as covered as it was. *)
LEMMA ExtraKeepsCovered ==
    ASSUME PayoutIInv, AllCovered, NEW t \in Tutors, NEW k \in Keys, NEW d \in Int \ {0},
           book' = Post(book, t, k, d), UNCHANGED <<earning, claim, request, amount>>,
           d < 0 => Docked(t)'
    PROVE  AllCovered'
<1>1. \A u \in Tutors : /\ book.balance[u] \in Nat
                        /\ book'.balance[u] = IF u = t THEN book.balance[u] + d
                                              ELSE book.balance[u]
                        /\ Docked(u) => Docked(u)'
  BY PostMoves DEF PayoutIInv, TypeOK
<1> SUFFICES ASSUME NEW u \in Tutors, ~Docked(u)'
             PROVE  WalletCovers(u)' /\ RequestsCover(u)'
  BY DEF AllCovered
<1>2. WalletCovers(u) /\ RequestsCover(u)
  BY <1>1 DEF AllCovered
<1>3. Unclaimed(u)' = Unclaimed(u) /\ \A r \in Requests : ClaimedBy(r)' = ClaimedBy(r)
  BY DEF Unclaimed, Claimable, ClaimedBy
<1>4. RequestsCover(u)'
  BY <1>2, <1>3 DEF RequestsCover, Standing, OpenRequest
<1>5. SumFunctionOnSet(Net, Unclaimed(u)) \in Int
  BY NetAddsUp DEF Unclaimed
<1>6. book'.balance[u] >= book.balance[u]
  BY <1>1
<1>7. WalletCovers(u)'
  BY <1>1, <1>2, <1>3, <1>5, <1>6 DEF WalletCovers
<1> QED BY <1>4, <1>7

LEMMA AdjustOrBonusKeepsCovered ==
    ASSUME PayoutIInv, AllCovered,
           (\E a \in Adjustments : Adjust(a)) \/ (\E w \in Bonuses : AwardBonus(w))
    PROVE  AllCovered'
<1>1. ASSUME NEW a \in Adjustments, Adjust(a) PROVE AllCovered'
  <2>1. /\ For[a] \in Tutors /\ Delta[a] \in Int \ {0} /\ <<"admin_adjustment", a>> \in Keys
        /\ book' = Post(book, For[a], <<"admin_adjustment", a>>, Delta[a])
        /\ UNCHANGED <<earning, claim, request, amount>>
    BY <1>1, PayoutAssumption, KeyFacts DEF Adjust
  <2>2. book'.rows[<<"admin_adjustment", a>>] = Delta[a]
    BY <2>1, PostMoves DEF PayoutIInv, TypeOK
  <2>3. Delta[a] < 0 => Docked(For[a])'
    BY <2>1, <2>2 DEF Docked, Posted
  <2> QED BY <2>1, <2>3, ExtraKeepsCovered
<1>2. ASSUME NEW w \in Bonuses, AwardBonus(w) PROVE AllCovered'
  <2>1. /\ BonusFor[w] \in Tutors /\ BonusCredits[w] \in Nat \ {0}
        /\ <<"availability_bonus", w>> \in Keys
        /\ book' = Post(book, BonusFor[w], <<"availability_bonus", w>>, BonusCredits[w])
        /\ UNCHANGED <<earning, claim, request, amount>>
    BY <1>2, PayoutAssumption, KeyFacts DEF AwardBonus
  <2> QED BY <2>1, ExtraKeepsCovered
<1> QED BY <1>1, <1>2

LEMMA StepKeepsCovered ==
    ASSUME PayoutIInv, AllCovered, [Next]_vars
    PROVE  AllCovered'
<1>1. ASSUME NEW b \in Bookings, SessionStep(b) PROVE AllCovered'
  BY <1>1, QuietStepsKeepCovered, CancelKeepsCovered DEF SessionStep
<1>2. ASSUME NEW r \in Requests, RequestStep(r) PROVE AllCovered'
  BY <1>2, QuietStepsKeepCovered, RequestKeepsCovered, RejectKeepsCovered DEF RequestStep
<1>3. ASSUME NEW j \in Runs, RunStep(j) PROVE AllCovered'
  BY <1>3, QuietStepsKeepCovered, ClaimKeepsCovered DEF RunStep
<1>4. CASE Next
  BY <1>1, <1>2, <1>3, <1>4, QuietStepsKeepCovered, AdjustOrBonusKeepsCovered DEF Next
<1> QED BY <1>4, QuietStepsKeepCovered

-----------------------------------------------------------------------------
(* Every credit is accounted for *)

EarnedSum(t) == SumFunctionOnSet(Net, EarnedBy(t))
StandingSum(t) == SumFunctionOnSet(amount, StandingOf(t))
ExtraSum(t) == SumFunctionOnSet(book.rows, ExtraKeys(t))

LEMMA AccountedIs ==
    \A t : Accounted(t) <=> book.balance[t] + StandingSum(t) = EarnedSum(t) + ExtraSum(t)
BY DEF Accounted, EarnedSum, StandingSum, ExtraSum

(* The rows of one kind are as many as what they are for. *)
LEMMA FiniteKeys ==
    ASSUME NEW S, IsFiniteSet(S), NEW kind
    PROVE  IsFiniteSet({<<kind, x>> : x \in S})
<1> DEFINE T == {<<kind, x>> : x \in S}
           f == [x \in S |-> <<kind, x>>]
<1>1. f \in Surjection(S, T)
  BY DEF Surjection
<1> QED BY <1>1, FS_Surjection

(* What is summed up is finite. *)
LEMMA FiniteSums ==
    ASSUME PayoutIInv, NEW t \in Tutors
    PROVE  /\ IsFiniteSet(ExtraKeys(t)) /\ ExtraKeys(t) \subseteq Keys /\ IntOn(book.rows, ExtraKeys(t))
           /\ IsFiniteSet(StandingOf(t)) /\ IntOn(amount, StandingOf(t))
           /\ StandingSum(t) \in Int /\ EarnedSum(t) \in Int /\ ExtraSum(t) \in Int
<1> DEFINE own == {x \in Adjustments : For[x] = t}
           won == {x \in Bonuses : BonusFor[x] = t}
           ownKeys == {<<"admin_adjustment", a>> : a \in own}
           wonKeys == {<<"availability_bonus", w>> : w \in won}
<1>1. IsFiniteSet(own) /\ IsFiniteSet(won)
  BY PayoutAssumption, FS_Subset
<1> HIDE DEF own, won
<1>2. IsFiniteSet(ownKeys) /\ IsFiniteSet(wonKeys)
  BY <1>1, FiniteKeys
<1>3. ExtraKeys(t) = ownKeys \cup wonKeys
  BY DEF ExtraKeys, own, won
<1>4. ExtraKeys(t) \subseteq Keys
  BY DEF ExtraKeys, Keys
<1> HIDE DEF ownKeys, wonKeys
<1>5. IsFiniteSet(ExtraKeys(t))
  BY <1>2, <1>3, FS_Union
<1>6. IntOn(book.rows, ExtraKeys(t))
  BY <1>4 DEF PayoutIInv, TypeOK, Books, IntOn
<1>7. IsFiniteSet(StandingOf(t)) /\ IntOn(amount, StandingOf(t))
  BY PayoutAssumption, FS_Subset DEF StandingOf, PayoutIInv, TypeOK, IntOn
<1>8. EarnedSum(t) \in Int
  BY NetAddsUp DEF EarnedSum, EarnedBy
<1> QED BY <1>4, <1>5, <1>6, <1>7, <1>8, SumRemove DEF StandingSum, ExtraSum

LEMMA InitAccounted == Init => AllAccounted
<1> SUFFICES ASSUME Init, NEW t \in Tutors PROVE Accounted(t)
  BY DEF AllAccounted
<1>1. EarnedBy(t) = {} /\ StandingOf(t) = {} /\ book.balance[t] = 0
  BY DEF Init, EmptyBook, EarnedBy, StandingOf, Standing, OpenRequest
<1>2. \A k \in ExtraKeys(t) : book.rows[k] = 0
  BY KeyFacts DEF Init, EmptyBook, ExtraKeys
<1>3. ExtraSum(t) = 0
  BY <1>2, InitIInv, FiniteSums, SumZero DEF ExtraSum
<1> QED BY <1>1, <1>3, SumEmpty, AccountedIs DEF EarnedSum, StandingSum

(* Steps that move no summand of a tutor. *)
LEMMA QuietKeepsAccounted ==
    ASSUME AllAccounted, UNCHANGED <<book, amount>>,
           \A t \in Tutors : EarnedBy(t)' = EarnedBy(t) /\ StandingOf(t)' = StandingOf(t)
    PROVE  AllAccounted'
<1> SUFFICES ASSUME NEW t \in Tutors PROVE Accounted(t)'
  BY DEF AllAccounted
<1>1. ExtraKeys(t)' = ExtraKeys(t)
  BY DEF ExtraKeys
<1> QED BY <1>1 DEF AllAccounted, Accounted

LEMMA QuietStepsKeepAccounted ==
    ASSUME PayoutIInv, AllAccounted,
           \/ \E b \in Bookings : Begin(b) \/ Close(b) \/ FallDue(b) \/ ForceComplete(b)
           \/ \E batch \in SUBSET Bookings : WriteOwed(batch)
           \/ \E j \in Runs : ListDue(j) \/ RunDies(j)
           \/ \E r \in Requests : Approve(r) \/ MarkPaid(r)
           \/ UNCHANGED vars
    PROVE  AllAccounted'
<1>1. UNCHANGED <<book, amount>>
  BY DEF Begin, Close, FallDue, ForceComplete, WriteOwed, ListDue, RunDies, Approve, MarkPaid, vars
<1>2. \A b \in Bookings : earning'[b] \in {"available", "withdrawn"} <=>
                              earning[b] \in {"available", "withdrawn"}
  BY DEF PayoutIInv, TypeOK, Begin, Close, FallDue, ForceComplete, WriteOwed, Owed,
         ListDue, RunDies, Approve, MarkPaid, vars
<1>3. \A r \in Requests : request'[r] \in Standing <=> request[r] \in Standing
  BY DEF PayoutIInv, TypeOK, Begin, Close, FallDue, ForceComplete, WriteOwed, ListDue, RunDies,
         Approve, MarkPaid, vars, Standing, OpenRequest
<1>4. \A t \in Tutors : EarnedBy(t)' = EarnedBy(t) /\ StandingOf(t)' = StandingOf(t)
  BY <1>2, <1>3 DEF EarnedBy, StandingOf, Standing, OpenRequest
<1> QED BY <1>1, <1>4, QuietKeepsAccounted

(* A row that is no bonus and no adjustment is no extra. *)
LEMMA OtherRowsAreNoExtra ==
    ASSUME PayoutIInv, NEW t \in Tutors, NEW k \in Keys, k \notin ExtraKeys(t),
           \A q \in Keys : q # k => book'.rows[q] = book.rows[q]
    PROVE  ExtraSum(t)' = ExtraSum(t)
<1>1. /\ IsFiniteSet(ExtraKeys(t)) /\ IntOn(book.rows, ExtraKeys(t))
      /\ SameOn(book'.rows, book.rows, ExtraKeys(t))
  BY FiniteSums DEF SameOn
<1>2. ExtraKeys(t)' = ExtraKeys(t)
  BY DEF ExtraKeys
<1> QED BY <1>1, <1>2, SumSame DEF ExtraSum

LEMMA ClaimKeepsAccounted ==
    ASSUME PayoutIInv, AllAccounted,
           NEW j \in Runs, NEW b \in Bookings, ClaimAndCredit(j, b)
    PROVE  AllAccounted'
<1>1. CASE ~(Releasable(b) /\ ~Paid(b))
  BY <1>1, QuietKeepsAccounted DEF ClaimAndCredit, EarnedBy, StandingOf, Standing, OpenRequest
<1>2. CASE Releasable(b) /\ ~Paid(b)
  <2> DEFINE key == <<"session_earning", b>>
  <2>1. /\ earning[b] = "held" /\ UNCHANGED <<request, amount>>
        /\ \A c \in Bookings : earning'[c] = IF c = b THEN "available" ELSE earning[c]
        /\ book' = Post(book, Tutor[b], key, Net[b])
    BY <1>2 DEF ClaimAndCredit, Releasable, PayoutIInv, TypeOK
  <2>2. /\ Tutor[b] \in Tutors /\ Net[b] \in Int \ {0} /\ key \in Keys
        /\ \A t \in Tutors : key \notin ExtraKeys(t)
    <3>1. Net[b] \in Nat \ {0}
      BY PayoutAssumption
    <3>2. Net[b] \in Int \ {0}
      BY <3>1
    <3> QED BY <3>2, PayoutAssumption, KeyFacts DEF ExtraKeys
  <2> HIDE DEF key
  <2>3. /\ \A t \in Tutors : /\ book.balance[t] \in Nat
                             /\ book'.balance[t] = IF t = Tutor[b] THEN book.balance[t] + Net[b]
                                                   ELSE book.balance[t]
        /\ \A q \in Keys : q # key => book'.rows[q] = book.rows[q]
    BY <2>1, <2>2, PostMoves DEF PayoutIInv, TypeOK
  <2> SUFFICES ASSUME NEW t \in Tutors PROVE Accounted(t)'
    BY DEF AllAccounted
  <2>4. Accounted(t) /\ ExtraSum(t)' = ExtraSum(t)
    BY <2>2, <2>3, OtherRowsAreNoExtra DEF AllAccounted
  <2>5. StandingSum(t)' = StandingSum(t)
    BY <2>1 DEF StandingSum, StandingOf, Standing, OpenRequest
  <2>6. CASE t # Tutor[b]
    <3>1. EarnedBy(t)' = EarnedBy(t)
      BY <2>1, <2>6 DEF EarnedBy
    <3> QED BY <2>3, <2>4, <2>5, <2>6, <3>1, AccountedIs DEF EarnedSum, Accounted, StandingSum, ExtraSum
  <2>7. CASE t = Tutor[b]
    <3>1. EarnedBy(t)' = EarnedBy(t) \cup {b} /\ b \notin EarnedBy(t) /\ EarnedBy(t) \subseteq Bookings
      BY <2>1, <2>7 DEF EarnedBy
    <3>2. SumFunctionOnSet(Net, EarnedBy(t) \cup {b}) = SumFunctionOnSet(Net, EarnedBy(t)) + Net[b]
      <4>1. EarnedBy(t) \cup {b} \subseteq Bookings
        BY <3>1
      <4>2. IsFiniteSet(EarnedBy(t)) /\ IntOn(Net, EarnedBy(t) \cup {b})
        BY <3>1, <4>1, NetAddsUp
      <4> QED BY <3>1, <4>2, SumAdd
    <3>3. book.balance[t] + StandingSum(t) = EarnedSum(t) + ExtraSum(t)
      BY <2>4, AccountedIs
    <3>4. (book.balance[t] + Net[b]) + StandingSum(t) = (EarnedSum(t) + Net[b]) + ExtraSum(t)
      BY <2>2, <2>3, <3>3, FiniteSums
    <3> QED BY <2>3, <2>4, <2>5, <2>7, <3>1, <3>2, <3>4 DEF Accounted, EarnedSum, StandingSum, ExtraSum
  <2> QED BY <2>6, <2>7
<1> QED BY <1>1, <1>2

(* A request takes the whole balance: what was in the wallet now stands. *)
LEMMA RequestKeepsAccounted ==
    ASSUME PayoutIInv, AllAccounted, NEW r \in Requests, RequestWithdrawal(r)
    PROVE  AllAccounted'
<1> DEFINE key == <<"withdrawal_hold", r>>
           taken == book.balance[Of[r]]
<1>1. /\ request[r] = "none" /\ UNCHANGED earning
      /\ \A q \in Requests : /\ request'[q] = IF q = r THEN "requested" ELSE request[q]
                             /\ amount'[q] = IF q = r THEN taken ELSE amount[q]
      /\ book' = Post(book, Of[r], key, -taken)
  BY DEF RequestWithdrawal, PayoutIInv, TypeOK
<1>2. /\ Of[r] \in Tutors /\ key \in Keys /\ book \in Books(Tutors, Keys)
      /\ \A t \in Tutors : key \notin ExtraKeys(t)
  BY PayoutAssumption, KeyFacts DEF PayoutIInv, TypeOK, ExtraKeys
<1>3. taken \in Nat /\ taken # 0
  BY <1>2, PayoutAssumption DEF Books, RequestWithdrawal
<1> HIDE DEF key, taken
<1>4. -taken \in Int \ {0}
  BY <1>3
<1>5. /\ \A t \in Tutors : /\ book.balance[t] \in Nat
                           /\ book'.balance[t] = IF t = Of[r] THEN book.balance[t] + (-taken)
                                                 ELSE book.balance[t]
      /\ \A q \in Keys : q # key => book'.rows[q] = book.rows[q]
  BY <1>1, <1>2, <1>4, PostMoves
<1> SUFFICES ASSUME NEW t \in Tutors PROVE Accounted(t)'
  BY DEF AllAccounted
<1>6. /\ book.balance[t] + StandingSum(t) = EarnedSum(t) + ExtraSum(t)
      /\ ExtraSum(t)' = ExtraSum(t) /\ EarnedSum(t)' = EarnedSum(t)
  <2>1. EarnedSum(t)' = EarnedSum(t)
    BY <1>1 DEF EarnedSum, EarnedBy
  <2> QED BY <1>2, <1>5, <2>1, OtherRowsAreNoExtra, AccountedIs DEF AllAccounted
<1>7. /\ IsFiniteSet(StandingOf(t)) /\ IntOn(amount, StandingOf(t)) /\ r \notin StandingOf(t)
      /\ SameOn(amount', amount, StandingOf(t)) /\ StandingSum(t) \in Int
  BY <1>1, FiniteSums DEF StandingOf, Standing, OpenRequest, SameOn
<1>8. StandingSum(t)' = StandingSum(t) + IF t = Of[r] THEN taken ELSE 0
  <2>1. SumFunctionOnSet(amount', StandingOf(t)) = StandingSum(t)
    BY <1>7, SumSame DEF StandingSum
  <2>2. CASE t # Of[r]
    <3>1. StandingOf(t)' = StandingOf(t)
      BY <1>1, <2>2 DEF StandingOf, Standing, OpenRequest
    <3> QED BY <1>7, <2>1, <2>2, <3>1 DEF StandingSum
  <2>3. CASE t = Of[r]
    <3>1. StandingOf(t)' = StandingOf(t) \cup {r}
      BY <1>1, <2>3 DEF StandingOf, Standing, OpenRequest
    <3>2. IntOn(amount', StandingOf(t) \cup {r}) /\ amount'[r] = taken
      BY <1>1, <1>3, <1>7 DEF IntOn, SameOn
    <3>3. SumFunctionOnSet(amount', StandingOf(t) \cup {r}) = SumFunctionOnSet(amount', StandingOf(t)) + taken
      BY <1>7, <3>2, SumAdd
    <3> QED BY <2>1, <2>3, <3>1, <3>3 DEF StandingSum
  <2> QED BY <2>2, <2>3
<1>9. book'.balance[t] + StandingSum(t)' = book.balance[t] + StandingSum(t)
  BY <1>3, <1>5, <1>7, <1>8
<1> QED BY <1>6, <1>9 DEF Accounted, EarnedSum, StandingSum, ExtraSum

(* A rejection puts the amount back, and it no longer stands. *)
LEMMA RejectKeepsAccounted ==
    ASSUME PayoutIInv, AllAccounted, NEW r \in Requests, Reject(r)
    PROVE  AllAccounted'
<1> DEFINE key == <<"withdrawal_reversed", r>>
<1>1. /\ request[r] \in OpenRequest /\ UNCHANGED <<earning, amount>>
      /\ \A q \in Requests : request'[q] = IF q = r THEN "rejected" ELSE request[q]
      /\ book' = Post(book, Of[r], key, amount[r])
  BY DEF Reject, PayoutIInv, TypeOK
<1>2. /\ Of[r] \in Tutors /\ key \in Keys /\ book \in Books(Tutors, Keys)
      /\ amount[r] \in Nat /\ \A t \in Tutors : key \notin ExtraKeys(t)
  BY PayoutAssumption, KeyFacts DEF PayoutIInv, TypeOK, ExtraKeys
<1> HIDE DEF key
<1>3. amount[r] \in Int \ {0}
  <2>1. Held(r) /\ book.rows[<<"withdrawal_hold", r>>] = -amount[r]
    BY <1>1 DEF PayoutIInv, HoldTellsRequest, OpenRequest
  <2> QED BY <1>2, <2>1 DEF Held, Posted
<1>4. /\ \A t \in Tutors : /\ book.balance[t] \in Nat
                           /\ book'.balance[t] = IF t = Of[r] THEN book.balance[t] + amount[r]
                                                 ELSE book.balance[t]
      /\ \A q \in Keys : q # key => book'.rows[q] = book.rows[q]
  BY <1>1, <1>2, <1>3, PostMoves
<1> SUFFICES ASSUME NEW t \in Tutors PROVE Accounted(t)'
  BY DEF AllAccounted
<1>5. /\ book.balance[t] + StandingSum(t) = EarnedSum(t) + ExtraSum(t)
      /\ ExtraSum(t)' = ExtraSum(t) /\ EarnedSum(t)' = EarnedSum(t)
  <2>1. EarnedSum(t)' = EarnedSum(t)
    BY <1>1 DEF EarnedSum, EarnedBy
  <2> QED BY <1>2, <1>4, <2>1, OtherRowsAreNoExtra, AccountedIs DEF AllAccounted
<1>6. IsFiniteSet(StandingOf(t)) /\ IntOn(amount, StandingOf(t)) /\ StandingSum(t) \in Int
  BY FiniteSums
<1>7. CASE t # Of[r]
  <2>1. StandingOf(t)' = StandingOf(t)
    BY <1>1, <1>7 DEF StandingOf, Standing, OpenRequest
  <2>2. StandingSum(t)' = StandingSum(t)
    BY <1>1, <2>1 DEF StandingSum
  <2> QED BY <1>4, <1>5, <1>7, <2>2 DEF Accounted, EarnedSum, StandingSum, ExtraSum
<1>8. CASE t = Of[r]
  <2>1. StandingOf(t)' = StandingOf(t) \ {r} /\ r \in StandingOf(t)
    BY <1>1, <1>8 DEF StandingOf, Standing, OpenRequest
  <2>2. /\ StandingSum(t) = amount[r] + SumFunctionOnSet(amount, StandingOf(t) \ {r})
        /\ SumFunctionOnSet(amount, StandingOf(t) \ {r}) \in Int
    <3>1. IsFiniteSet(StandingOf(t) \ {r}) /\ IntOn(amount, StandingOf(t) \ {r})
      BY <1>6, FS_RemoveElement DEF IntOn
    <3> QED BY <1>6, <2>1, <3>1, SumRemove DEF StandingSum
  <2>3. StandingSum(t)' = SumFunctionOnSet(amount, StandingOf(t) \ {r})
    BY <1>1, <2>1 DEF StandingSum
  <2>4. book'.balance[t] + StandingSum(t)' = book.balance[t] + StandingSum(t)
    <3>1. book.balance[t] \in Int /\ book'.balance[t] = book.balance[t] + amount[r]
      BY <1>4, <1>8
    <3> QED BY <1>2, <2>2, <2>3, <3>1
  <2> QED BY <1>5, <2>4 DEF Accounted, EarnedSum, StandingSum, ExtraSum
<1> QED BY <1>7, <1>8

(* A cancel that debits the tutor takes the earning with the credits. *)
LEMMA CancelKeepsAccounted ==
    ASSUME PayoutIInv, AllAccounted, NEW b \in Bookings, ForceCancel(b)
    PROVE  AllAccounted'
<1>1. UNCHANGED <<request, amount>>
  BY DEF ForceCancel
<1>2. CASE TutorReversal(b) # "debit_available"
  <2>1. /\ UNCHANGED book
        /\ \A c \in Bookings : earning'[c] \in {"available", "withdrawn"} <=>
                                   earning[c] \in {"available", "withdrawn"}
    BY <1>2 DEF ForceCancel, TutorReversal, PayoutIInv, TypeOK
  <2>2. \A t \in Tutors : EarnedBy(t)' = EarnedBy(t) /\ StandingOf(t)' = StandingOf(t)
    BY <1>1, <2>1 DEF EarnedBy, StandingOf, Standing, OpenRequest
  <2> QED BY <1>1, <2>1, <2>2, QuietKeepsAccounted
<1>3. CASE TutorReversal(b) = "debit_available"
  <2> DEFINE key == <<"earning_reversal", b>>
  <2>1. /\ earning[b] = "available"
        /\ \A c \in Bookings : earning'[c] = IF c = b THEN "reversed" ELSE earning[c]
    BY <1>3 DEF TutorReversal, ForceCancel, PayoutIInv, TypeOK
  <2>2. book' = Post(book, Tutor[b], key, -Net[b])
    BY <1>3, <2>1 DEF ForceCancel, PostOnce, PayoutIInv, EarningTellsLedger, TakenBack
  <2>3. /\ Tutor[b] \in Tutors /\ Net[b] \in Nat \ {0} /\ key \in Keys
        /\ \A t \in Tutors : key \notin ExtraKeys(t)
    BY PayoutAssumption, KeyFacts DEF ExtraKeys
  <2> HIDE DEF key
  <2>4. PICK d \in Int \ {0} : d = -Net[b]
    BY <2>3
  <2>5. /\ \A t \in Tutors : /\ book.balance[t] \in Nat
                             /\ book'.balance[t] = IF t = Tutor[b] THEN book.balance[t] + d
                                                   ELSE book.balance[t]
        /\ \A q \in Keys : q # key => book'.rows[q] = book.rows[q]
    BY <2>2, <2>3, <2>4, PostMoves DEF PayoutIInv, TypeOK
  <2> SUFFICES ASSUME NEW t \in Tutors PROVE Accounted(t)'
    BY DEF AllAccounted
  <2>6. /\ book.balance[t] + StandingSum(t) = EarnedSum(t) + ExtraSum(t)
        /\ ExtraSum(t)' = ExtraSum(t) /\ StandingSum(t)' = StandingSum(t)
    <3>1. StandingSum(t)' = StandingSum(t)
      BY <1>1 DEF StandingSum, StandingOf, Standing, OpenRequest
    <3> QED BY <2>3, <2>5, <3>1, OtherRowsAreNoExtra, AccountedIs DEF AllAccounted
  <2>7. CASE t # Tutor[b]
    <3>1. EarnedBy(t)' = EarnedBy(t)
      BY <2>1, <2>7 DEF EarnedBy
    <3> QED BY <2>5, <2>6, <2>7, <3>1 DEF Accounted, EarnedSum, StandingSum, ExtraSum
  <2>8. CASE t = Tutor[b]
    <3>1. EarnedBy(t)' = EarnedBy(t) \ {b} /\ b \in EarnedBy(t) /\ EarnedBy(t) \subseteq Bookings
      BY <2>1, <2>8 DEF EarnedBy
    <3>2. /\ EarnedSum(t) = Net[b] + SumFunctionOnSet(Net, EarnedBy(t) \ {b})
          /\ SumFunctionOnSet(Net, EarnedBy(t) \ {b}) \in Int
      BY <3>1, NetAddsUp, SumRemove DEF EarnedSum
    <3>3. book'.balance[t] = book.balance[t] + d /\ book.balance[t] \in Int
      BY <2>5, <2>8
    <3>4. StandingSum(t) \in Int /\ ExtraSum(t) \in Int
      BY FiniteSums
    <3>5. book'.balance[t] + StandingSum(t) = SumFunctionOnSet(Net, EarnedBy(t) \ {b}) + ExtraSum(t)
      BY <2>3, <2>4, <2>6, <3>2, <3>3, <3>4
    <3> QED BY <2>6, <3>1, <3>5 DEF Accounted, EarnedSum, StandingSum, ExtraSum
  <2> QED BY <2>7, <2>8
<1> QED BY <1>2, <1>3

(* A row that was not there adds what it is written with. *)
LEMMA FirstValue ==
    ASSUME NEW S, IsFiniteSet(S), NEW f, IntOn(f, S), NEW e, NEW x \in S, NEW v \in Int,
           e[x] = v, f[x] = 0, SameOn(e, f, S \ {x})
    PROVE  SumFunctionOnSet(e, S) = SumFunctionOnSet(f, S) + v
<1>1. SumFunctionOnSet(e, S) = SumFunctionOnSet(f, S) + (e[x] - f[x])
  BY SumChange
<1>2. SumFunctionOnSet(f, S) \in Int
  BY SumRemove
<1> QED BY <1>1, <1>2

(* A bonus or an adjustment is an extra of its tutor's. *)
LEMMA ExtraKeepsAccounted ==
    ASSUME PayoutIInv, AllAccounted, NEW t \in Tutors, NEW k \in ExtraKeys(t), NEW d \in Int \ {0},
           \A u \in Tutors : u # t => k \notin ExtraKeys(u), book.rows[k] = 0,
           book' = Post(book, t, k, d), UNCHANGED <<earning, request, amount>>
    PROVE  AllAccounted'
<1>1. k \in Keys
  BY DEF ExtraKeys, Keys
<1>2. /\ \A u \in Tutors : /\ book.balance[u] \in Nat
                           /\ book'.balance[u] = IF u = t THEN book.balance[u] + d
                                                 ELSE book.balance[u]
      /\ \A q \in Keys : book'.rows[q] = IF q = k THEN d ELSE book.rows[q]
  BY <1>1, PostMoves DEF PayoutIInv, TypeOK
<1> SUFFICES ASSUME NEW u \in Tutors PROVE Accounted(u)'
  BY DEF AllAccounted
<1>3. /\ book.balance[u] + StandingSum(u) = EarnedSum(u) + ExtraSum(u)
      /\ EarnedSum(u)' = EarnedSum(u) /\ StandingSum(u)' = StandingSum(u)
  <2>1. EarnedSum(u)' = EarnedSum(u) /\ StandingSum(u)' = StandingSum(u)
    BY DEF EarnedSum, EarnedBy, StandingSum, StandingOf, Standing, OpenRequest
  <2> QED BY <2>1, AccountedIs DEF AllAccounted
<1>4. StandingSum(u) \in Int /\ EarnedSum(u) \in Int /\ ExtraSum(u) \in Int
  BY FiniteSums
<1>5. CASE u # t
  <2>1. ExtraSum(u)' = ExtraSum(u)
    BY <1>1, <1>2, <1>5, OtherRowsAreNoExtra
  <2> QED BY <1>2, <1>3, <1>5, <2>1 DEF Accounted, EarnedSum, StandingSum, ExtraSum
<1>6. CASE u = t
  <2>1. /\ IsFiniteSet(ExtraKeys(t)) /\ IntOn(book.rows, ExtraKeys(t)) /\ ExtraKeys(t) \subseteq Keys
        /\ SameOn(book'.rows, book.rows, ExtraKeys(t) \ {k}) /\ book'.rows[k] = d
    BY <1>1, <1>2, FiniteSums DEF SameOn
  <2>2. SumFunctionOnSet(book'.rows, ExtraKeys(t)) =
            SumFunctionOnSet(book.rows, ExtraKeys(t)) + d
    BY <2>1, FirstValue
  <2>3. ExtraKeys(t)' = ExtraKeys(t)
    BY DEF ExtraKeys
  <2>4. ExtraSum(t)' = ExtraSum(t) + d
    BY <1>4, <1>6, <2>2, <2>3 DEF ExtraSum
  <2>5. book'.balance[t] + StandingSum(t) = EarnedSum(t) + (ExtraSum(t) + d)
    BY <1>2, <1>3, <1>4, <1>6
  <2> QED BY <1>3, <1>6, <2>4, <2>5 DEF Accounted, EarnedSum, StandingSum, ExtraSum
<1> QED BY <1>5, <1>6

LEMMA AdjustOrBonusKeepsAccounted ==
    ASSUME PayoutIInv, AllAccounted,
           (\E a \in Adjustments : Adjust(a)) \/ (\E w \in Bonuses : AwardBonus(w))
    PROVE  AllAccounted'
<1>1. ASSUME NEW a \in Adjustments, Adjust(a) PROVE AllAccounted'
  <2> DEFINE key == <<"admin_adjustment", a>>
  <2>1. /\ For[a] \in Tutors /\ Delta[a] \in Int \ {0} /\ book.rows[key] = 0
        /\ book' = Post(book, For[a], key, Delta[a])
        /\ UNCHANGED <<earning, request, amount>>
    BY <1>1, PayoutAssumption DEF Adjust, CanPost, Posted
  <2>2. key \in ExtraKeys(For[a]) /\ \A u \in Tutors : u # For[a] => key \notin ExtraKeys(u)
    BY DEF ExtraKeys
  <2> HIDE DEF key
  <2> QED BY <2>1, <2>2, ExtraKeepsAccounted
<1>2. ASSUME NEW w \in Bonuses, AwardBonus(w) PROVE AllAccounted'
  <2> DEFINE key == <<"availability_bonus", w>>
  <2>1. /\ BonusFor[w] \in Tutors /\ BonusCredits[w] \in Nat \ {0} /\ book.rows[key] = 0
        /\ book' = Post(book, BonusFor[w], key, BonusCredits[w])
        /\ UNCHANGED <<earning, request, amount>>
    BY <1>2, PayoutAssumption DEF AwardBonus, CanPost, Posted
  <2>2. key \in ExtraKeys(BonusFor[w]) /\ \A u \in Tutors : u # BonusFor[w] => key \notin ExtraKeys(u)
    BY DEF ExtraKeys
  <2>3. BonusCredits[w] \in Int \ {0}
    BY <2>1
  <2> HIDE DEF key
  <2> QED BY <2>1, <2>2, <2>3, ExtraKeepsAccounted
<1> QED BY <1>1, <1>2

LEMMA StepKeepsAccounted ==
    ASSUME PayoutIInv, AllAccounted, [Next]_vars
    PROVE  AllAccounted'
<1>1. ASSUME NEW b \in Bookings, SessionStep(b) PROVE AllAccounted'
  BY <1>1, QuietStepsKeepAccounted, CancelKeepsAccounted DEF SessionStep
<1>2. ASSUME NEW r \in Requests, RequestStep(r) PROVE AllAccounted'
  BY <1>2, QuietStepsKeepAccounted, RequestKeepsAccounted, RejectKeepsAccounted DEF RequestStep
<1>3. ASSUME NEW j \in Runs, RunStep(j) PROVE AllAccounted'
  BY <1>3, QuietStepsKeepAccounted, ClaimKeepsAccounted DEF RunStep
<1>4. CASE Next
  BY <1>1, <1>2, <1>3, <1>4, QuietStepsKeepAccounted, AdjustOrBonusKeepsAccounted DEF Next
<1> QED BY <1>4, QuietStepsKeepAccounted

(***************************************************************************)
(* M12 in credits: a tutor's wallet and standing requests are at every     *)
(* moment what released sessions, bonuses and adjustments brought in, and  *)
(* for a tutor no admin took credits from, a request that stands is for at *)
(* least what the rows it claimed are worth, and the wallet holds at least *)
(* the unclaimed ones: for any number of bookings of any worth, requests,  *)
(* bonuses, adjustments and overlapping runs of the job.                   *)
(***************************************************************************)
THEOREM WithdrawnIsEarned == Spec => []WithdrawalIsItsEarnings
<1>1. PayoutIInv /\ WithdrawalIsItsEarnings /\ [Next]_vars => WithdrawalIsItsEarnings'
  <2>1. AllAccounted' /\ AllCovered' => WithdrawalIsItsEarnings'
    BY SquareIs, PTL
  <2> QED BY <2>1, SquareIs, StepKeepsCovered, StepKeepsAccounted
<1>2. Init => WithdrawalIsItsEarnings
  BY InitAccounted, InitCovered, SquareIs
<1> QED BY <1>1, <1>2, PayoutSafe, PTL DEF Spec
=============================================================================
