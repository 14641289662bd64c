------------------------------- MODULE Payout -------------------------------
(***************************************************************************)
(* The tutor's half of a booking's money: the earnings row that a finished *)
(* session is owed, its hold, its release into the wallet, the withdrawal  *)
(* that claims it, and what an admin does to it with force-complete and    *)
(* force-cancel; and the weekly bonus, paid into the same wallet, of which *)
(* AvailabilityBonus has the job. Checkout is the student's half.          *)
(*                                                                         *)
(* One action is one database transaction. They decide on rows they hold   *)
(* FOR UPDATE or re-check in the UPDATE that moves them, so each is one    *)
(* step; a run of release-earnings is many, from a list it read first.     *)
(***************************************************************************)
EXTENDS Ledger, FiniteSets

CONSTANTS
    Tutors,
    Bookings,
    Requests,     \* withdrawal_requests rows
    Adjustments,  \* admin adjustments, one per rendered form
    Bonuses,      \* availability_bonus_awards rows
    Runs,         \* runs of the release-earnings job that may overlap
    Tutor,        \* Tutor[b]
    Net,          \* Net[b]: net_credits, the price less the platform's fee
    Of,           \* Of[r]: the tutor of a request
    For,          \* For[a]: the tutor an adjustment is for
    Delta,        \* Delta[a]: its credits, of either sign
    BonusFor,     \* BonusFor[w]: the tutor of an award
    BonusCredits, \* BonusCredits[w]: its credits
    MinCredits,   \* the balance whose payout reaches min_withdrawal_usd
    NoRequest

ASSUME PayoutAssumption ==
    /\ IsFiniteSet(Bookings) /\ IsFiniteSet(Requests)
    /\ IsFiniteSet(Adjustments) /\ IsFiniteSet(Bonuses)
    /\ Tutor \in [Bookings -> Tutors]
    /\ Net \in [Bookings -> Nat \ {0}]
    /\ Of \in [Requests -> Tutors]
    /\ For \in [Adjustments -> Tutors]
    /\ Delta \in [Adjustments -> Int \ {0}]
    /\ BonusFor \in [Bonuses -> Tutors]
    /\ BonusCredits \in [Bonuses -> Nat \ {0}]
    /\ MinCredits \in Nat \ {0}
    /\ NoRequest \notin Requests

VARIABLES
    begun,        \* begun[b]: scheduled_start_at has passed
    status,       \* status[b]: bookings.status; "confirmed" is also in_progress
    earning,      \* earning[b]: tutor_earnings.status, "none" without a row
    due,          \* due[b]: available_at has passed
    claim,        \* claim[b]: tutor_earnings.withdrawal_request_id
    listed,       \* listed[j]: what run j read and has not come to yet
    request,      \* request[r]: withdrawal_requests.status, "none" before the row
    amount,       \* amount[r]: amount_credits
    book          \* the tutors' half of the ledger

vars == <<begun, status, earning, due, claim, listed, request, amount, book>>

Keys == ({"session_earning", "earning_reversal"} \X Bookings)
            \cup ({"withdrawal_hold", "withdrawal_reversed"} \X Requests)
            \cup ({"admin_adjustment"} \X Adjustments)
            \cup ({"availability_bonus"} \X Bonuses)

Paid(b) == Posted(book, <<"session_earning", b>>)
TakenBack(b) == Posted(book, <<"earning_reversal", b>>)
Held(r) == Posted(book, <<"withdrawal_hold", r>>)
Returned(r) == Posted(book, <<"withdrawal_reversed", r>>)

OpenRequest == {"requested", "approved"}
HasOpenRequest(t) == \E r \in Requests : Of[r] = t /\ request[r] \in OpenRequest

Init ==
    /\ begun = [b \in Bookings |-> FALSE]
    /\ status = [b \in Bookings |-> "confirmed"]
    /\ earning = [b \in Bookings |-> "none"]
    /\ due = [b \in Bookings |-> FALSE]
    /\ claim = [b \in Bookings |-> NoRequest]
    /\ listed = [j \in Runs |-> {}]
    /\ request = [r \in Requests |-> "none"]
    /\ amount = [r \in Requests |-> 0]
    /\ book = EmptyBook(Tutors, Keys)

-----------------------------------------------------------------------------
(* The session *)

Begin(b) ==
    /\ ~begun[b]
    /\ begun' = [begun EXCEPT ![b] = TRUE]
    /\ UNCHANGED <<status, earning, due, claim, listed, request, amount, book>>

(* A participant, the deadline or the complete-sessions sweep closes the session. *)
Close(b) ==
    /\ begun[b]
    /\ status[b] = "confirmed"
    /\ \E outcome \in {"completed", "no_show_student", "no_show_tutor"} :
           status' = [status EXCEPT ![b] = outcome]
    /\ UNCHANGED <<begun, earning, due, claim, listed, request, amount, book>>

(* Mutant of Owed: a student's no-show pays nobody. *)
OwedIfCompleted(b) == status[b] = "completed" /\ earning[b] = "none"

Owed(b) == status[b] \in {"completed", "no_show_student"} /\ earning[b] = "none"

(* Mutant of WriteOwed: a list read before the lock, when a cancel could still land. *)
WriteOwedUnlocked(batch) ==
    /\ \A b \in batch : status[b] \notin {"confirmed", "no_show_tutor"} /\ earning[b] = "none"
    /\ earning' = [b \in Bookings |-> IF b \in batch THEN "held" ELSE earning[b]]
    /\ UNCHANGED <<begun, status, due, claim, listed, request, amount, book>>

(* writeOwedEarnings: any batch of what is owed, whatever another transaction has locked. *)
WriteOwed(batch) ==
    /\ \A b \in batch : Owed(b)
    /\ earning' = [b \in Bookings |-> IF b \in batch THEN "held" ELSE earning[b]]
    /\ UNCHANGED <<begun, status, due, claim, listed, request, amount, book>>

(* The hold runs out: earnings_hold_hours after the session ended. *)
FallDue(b) ==
    /\ earning[b] = "held"
    /\ ~due[b]
    /\ due' = [due EXCEPT ![b] = TRUE]
    /\ UNCHANGED <<begun, status, earning, claim, listed, request, amount, book>>

-----------------------------------------------------------------------------
(* release-earnings *)

Releasable(b) == earning[b] = "held" /\ due[b]

ListDue(j) ==
    /\ listed[j] = {}
    /\ \E b \in Bookings : Releasable(b)
    /\ listed' = [listed EXCEPT ![j] = {b \in Bookings : Releasable(b)}]
    /\ UNCHANGED <<begun, status, earning, due, claim, request, amount, book>>

(* Mutant of ClaimAndCredit: the list is the claim. *)
ClaimAsListed(j, b) ==
    /\ b \in listed[j]
    /\ listed' = [listed EXCEPT ![j] = @ \ {b}]
    /\ IF ~Paid(b)
       THEN /\ earning' = [earning EXCEPT ![b] = "available"]
            /\ book' = Post(book, Tutor[b], <<"session_earning", b>>, Net[b])
       ELSE UNCHANGED <<earning, book>>
    /\ UNCHANGED <<begun, status, due, claim, request, amount>>

(* claimAndCreditEarning: both qualifiers re-checked, and all undone by a duplicate. *)
ClaimAndCredit(j, b) ==
    /\ b \in listed[j]
    /\ listed' = [listed EXCEPT ![j] = @ \ {b}]
    /\ IF Releasable(b) /\ ~Paid(b)
       THEN /\ earning' = [earning EXCEPT ![b] = "available"]
            /\ book' = Post(book, Tutor[b], <<"session_earning", b>>, Net[b])
       ELSE UNCHANGED <<earning, book>>
    /\ UNCHANGED <<begun, status, due, claim, request, amount>>

(* The function times out, or the host stops it, part way down its list. *)
RunDies(j) ==
    /\ listed[j] # {}
    /\ listed' = [listed EXCEPT ![j] = {}]
    /\ UNCHANGED <<begun, status, earning, due, claim, request, amount, book>>

-----------------------------------------------------------------------------
(* Withdrawals *)

Claimable(b, t) == Tutor[b] = t /\ earning[b] = "available" /\ claim[b] = NoRequest

(* Mutant of RequestWithdrawal: a partial withdrawal that still claims every row. *)
RequestMinimum(r) ==
    LET t == Of[r] IN
    /\ request[r] = "none"
    /\ ~HasOpenRequest(t)
    /\ book.balance[t] >= MinCredits
    /\ request' = [request EXCEPT ![r] = "requested"]
    /\ amount' = [amount EXCEPT ![r] = MinCredits]
    /\ book' = Post(book, t, <<"withdrawal_hold", r>>, -MinCredits)
    /\ claim' = [b \in Bookings |-> IF Claimable(b, t) THEN r ELSE claim[b]]
    /\ UNCHANGED <<begun, status, earning, due, listed>>

(* requestWithdrawal: the whole balance, and the earnings it came from, under one lock. *)
RequestWithdrawal(r) ==
    LET t == Of[r] IN
    /\ request[r] = "none"
    /\ ~HasOpenRequest(t)
    /\ book.balance[t] >= MinCredits
    /\ request' = [request EXCEPT ![r] = "requested"]
    /\ amount' = [amount EXCEPT ![r] = book.balance[t]]
    /\ book' = Post(book, t, <<"withdrawal_hold", r>>, -book.balance[t])
    /\ claim' = [b \in Bookings |-> IF Claimable(b, t) THEN r ELSE claim[b]]
    /\ UNCHANGED <<begun, status, earning, due, listed>>

Approve(r) ==
    /\ request[r] = "requested"
    /\ request' = [request EXCEPT ![r] = "approved"]
    /\ UNCHANGED <<begun, status, earning, due, claim, listed, amount, book>>

(* Mutant of MarkPaid: before M12, every available row of the tutor was withdrawn. *)
MarkPaidByTutor(r) ==
    /\ request[r] \in OpenRequest
    /\ request' = [request EXCEPT ![r] = "paid"]
    /\ earning' = [b \in Bookings |-> IF Tutor[b] = Of[r] /\ earning[b] = "available"
                                      THEN "withdrawn" ELSE earning[b]]
    /\ UNCHANGED <<begun, status, due, claim, listed, amount, book>>

(* markWithdrawalPaid: the hold was the debit, so nothing moves but the rows it claimed. *)
MarkPaid(r) ==
    /\ request[r] \in OpenRequest
    /\ request' = [request EXCEPT ![r] = "paid"]
    /\ earning' = [b \in Bookings |-> IF claim[b] = r /\ earning[b] = "available"
                                      THEN "withdrawn" ELSE earning[b]]
    /\ UNCHANGED <<begun, status, due, claim, listed, amount, book>>

(* rejectWithdrawal: the amount goes back, and so do the rows. *)
Reject(r) ==
    /\ request[r] \in OpenRequest
    /\ ~Returned(r)
    /\ book' = Post(book, Of[r], <<"withdrawal_reversed", r>>, amount[r])
    /\ request' = [request EXCEPT ![r] = "rejected"]
    /\ claim' = [b \in Bookings |-> IF claim[b] = r /\ earning[b] = "available"
                                    THEN NoRequest ELSE claim[b]]
    /\ UNCHANGED <<begun, status, earning, due, listed, amount>>

(* applyCreditAdjustment: once per form, and never below zero. *)
Adjust(a) ==
    /\ CanPost(book, For[a], <<"admin_adjustment", a>>, Delta[a])
    /\ book' = Post(book, For[a], <<"admin_adjustment", a>>, Delta[a])
    /\ UNCHANGED <<begun, status, earning, due, claim, listed, request, amount>>

(* claimAndCredit of the weekly job: the award row and its credit, once. *)
AwardBonus(w) ==
    /\ CanPost(book, BonusFor[w], <<"availability_bonus", w>>, BonusCredits[w])
    /\ book' = Post(book, BonusFor[w], <<"availability_bonus", w>>, BonusCredits[w])
    /\ UNCHANGED <<begun, status, earning, due, claim, listed, request, amount>>

-----------------------------------------------------------------------------
(* The admin on the booking *)

(* applyForceComplete: a no-show of the student, already owed, keeps the row it has. *)
ForceComplete(b) ==
    /\ status[b] \in {"confirmed", "no_show_tutor", "no_show_student"}
    /\ begun[b]
    /\ status' = [status EXCEPT ![b] = "completed"]
    /\ earning' = [earning EXCEPT ![b] = IF @ = "none" THEN "held" ELSE @]
    /\ UNCHANGED <<begun, due, claim, listed, request, amount, book>>

(* tutorReversalFor *)
TutorReversal(b) ==
    CASE earning[b] \in {"none", "reversed"} -> "none"
      [] earning[b] = "held" -> "reverse_held"
      [] earning[b] = "withdrawn" -> "absorb_withdrawn"
      [] earning[b] = "available" ->
            IF HasOpenRequest(Tutor[b]) \/ book.balance[Tutor[b]] < Net[b]
            THEN "absorb_locked" ELSE "debit_available"

(* Mutant of ForceCancel: every row of a cancelled booking is marked reversed. *)
ForceCancelMarksAll(b) ==
    /\ status[b] # "cancelled"
    /\ status' = [status EXCEPT ![b] = "cancelled"]
    /\ book' = IF TutorReversal(b) = "debit_available"
               THEN PostOnce(book, Tutor[b], <<"earning_reversal", b>>, -Net[b])
               ELSE book
    /\ earning' = IF TutorReversal(b) # "none"
                  THEN [earning EXCEPT ![b] = "reversed"] ELSE earning
    /\ UNCHANGED <<begun, due, claim, listed, request, amount>>

(* applyForceCancel, the tutor's side: Checkout has the student's. *)
ForceCancel(b) ==
    /\ status[b] # "cancelled"
    /\ status' = [status EXCEPT ![b] = "cancelled"]
    /\ book' = IF TutorReversal(b) = "debit_available"
               THEN PostOnce(book, Tutor[b], <<"earning_reversal", b>>, -Net[b])
               ELSE book
    /\ earning' = IF TutorReversal(b) \in {"reverse_held", "debit_available"}
                  THEN [earning EXCEPT ![b] = "reversed"]
                  ELSE earning
    /\ UNCHANGED <<begun, due, claim, listed, request, amount>>

-----------------------------------------------------------------------------
SessionStep(b) == Begin(b) \/ Close(b) \/ FallDue(b) \/ ForceComplete(b) \/ ForceCancel(b)

RequestStep(r) == RequestWithdrawal(r) \/ Approve(r) \/ MarkPaid(r) \/ Reject(r)

RunStep(j) == ListDue(j) \/ RunDies(j) \/ \E b \in Bookings : ClaimAndCredit(j, b)

Next ==
    \/ \E b \in Bookings : SessionStep(b)
    \/ \E batch \in (SUBSET Bookings) \ {{}} : WriteOwed(batch)
    \/ \E j \in Runs : RunStep(j)
    \/ \E r \in Requests : RequestStep(r)
    \/ \E a \in Adjustments : Adjust(a)
    \/ \E w \in Bonuses : AwardBonus(w)

Spec == Init /\ [][Next]_vars

(***************************************************************************)
(* pg_cron calls both jobs for ever (cron/job-names.ts: every 15 minutes,  *)
(* hourly). A booking is locked for moments only, so a sweep that skips it *)
(* is followed by one that does not; and a run that dies is followed by    *)
(* runs that do not always die before the same row (they walk the longest  *)
(* waiting first).                                                         *)
(***************************************************************************)
FairSpec ==
    /\ Spec
    /\ \A b \in Bookings : WF_vars(\E batch \in SUBSET Bookings : b \in batch /\ WriteOwed(batch))
    /\ \A j \in Runs : WF_vars(ListDue(j))
    /\ \A j \in Runs, b \in Bookings : SF_vars(ClaimAndCredit(j, b))

-----------------------------------------------------------------------------
TypeOK ==
    /\ begun \in [Bookings -> BOOLEAN]
    /\ status \in [Bookings ->
           {"confirmed", "completed", "no_show_student", "no_show_tutor", "cancelled"}]
    /\ earning \in [Bookings -> {"none", "held", "available", "withdrawn", "reversed"}]
    /\ due \in [Bookings -> BOOLEAN]
    /\ claim \in [Bookings -> Requests \cup {NoRequest}]
    /\ listed \in [Runs -> SUBSET Bookings]
    /\ request \in [Requests -> {"none", "requested", "approved", "paid", "rejected"}]
    /\ amount \in [Requests -> Nat]
    /\ book \in Books(Tutors, Keys)

(***************************************************************************)
(* The status of an earnings row tells what the ledger did for it, however *)
(* runs of the job, cancels and withdrawals overlap: held and none were    *)
(* never paid, available and withdrawn were paid once and keep it, and     *)
(* reversed is square.                                                     *)
(***************************************************************************)
EarningTellsLedger ==
    \A b \in Bookings :
        /\ earning[b] \in {"none", "held"} => ~Paid(b) /\ ~TakenBack(b)
        /\ earning[b] \in {"available", "withdrawn"} => Paid(b) /\ ~TakenBack(b)
        /\ earning[b] = "reversed" => (Paid(b) <=> TakenBack(b))

(***************************************************************************)
(* M12: a row is withdrawn by the request that claimed it and no other, a  *)
(* rejected request keeps nothing, and a row being withdrawn is not taken  *)
(* back from the tutor meanwhile.                                          *)
(***************************************************************************)
ClaimsAreAccountable ==
    \A b \in Bookings :
        /\ claim[b] # NoRequest =>
               /\ Of[claim[b]] = Tutor[b]
               /\ \/ request[claim[b]] \in OpenRequest /\ earning[b] = "available"
                  \/ request[claim[b]] = "paid" /\ earning[b] = "withdrawn"
        /\ earning[b] = "withdrawn" => claim[b] # NoRequest

(***************************************************************************)
(* No tutor is paid for a cancelled session that was not paid out yet: the *)
(* sweep, the release and the cancel never cross (writeOwedEarnings: "a    *)
(* cancel land in between, refund the student, and still see the tutor     *)
(* paid").                                                                 *)
(***************************************************************************)
CancelledIsNotPaid ==
    [][\A b \in Bookings : status[b] = "cancelled" /\ ~Paid(b) => ~Paid(b)']_vars

(* A request is held once, for its amount, and given back if and only if it is rejected. *)
HoldTellsRequest ==
    \A r \in Requests :
        /\ Held(r) <=> request[r] # "none"
        /\ Returned(r) <=> request[r] = "rejected"
        /\ Held(r) => book.rows[<<"withdrawal_hold", r>>] = -amount[r]
        /\ Returned(r) => book.rows[<<"withdrawal_reversed", r>>] = amount[r]

(* One open request per tutor, so "the open withdrawal" is one. *)
OneOpenRequest ==
    \A q, r \in Requests :
        request[q] \in OpenRequest /\ request[r] \in OpenRequest /\ Of[q] = Of[r] => q = r

(* What a tutor is owed for happened, and a cancelled booking waits for nothing. *)
OwedForASession ==
    \A b \in Bookings :
        /\ earning[b] # "none" => begun[b] /\ status[b] \notin {"confirmed", "no_show_tutor"}
        /\ earning[b] = "held" => status[b] # "cancelled"
        /\ status[b] \in {"completed", "no_show_student"} => begun[b]

PayoutIInv ==
    /\ TypeOK
    /\ EarningTellsLedger /\ ClaimsAreAccountable /\ HoldTellsRequest
    /\ OneOpenRequest /\ OwedForASession

-----------------------------------------------------------------------------
(* A request that stands has left the wallet with its amount. *)
Standing == OpenRequest \cup {"paid"}
StandingOf(t) == {r \in Requests : Of[r] = t /\ request[r] \in Standing}

EarnedBy(t) == {b \in Bookings : Tutor[b] = t /\ earning[b] \in {"available", "withdrawn"}}
Unclaimed(t) == {b \in Bookings : Claimable(b, t)}
ClaimedBy(r) == {b \in Bookings : claim[b] = r}

(* The ledger rows of a tutor that come from no session: bonuses and adjustments. *)
ExtraKeys(t) == {<<"admin_adjustment", a>> : a \in {x \in Adjustments : For[x] = t}}
                    \cup {<<"availability_bonus", w>> : w \in {x \in Bonuses : BonusFor[x] = t}}

(* An admin took credits away from the tutor. *)
Docked(t) == \E a \in Adjustments : /\ For[a] = t /\ Delta[a] < 0
                                    /\ Posted(book, <<"admin_adjustment", a>>)

(* What left with the tutor's requests and what is still there are what the *)
(* released sessions, the bonuses and the adjustments brought in.           *)
Accounted(t) ==
    book.balance[t] + SumFunctionOnSet(amount, StandingOf(t)) =
        SumFunctionOnSet(Net, EarnedBy(t)) + SumFunctionOnSet(book.rows, ExtraKeys(t))

(* The wallet holds the rows nobody claimed, and a request the rows it claimed. *)
Covered(t) ==
    /\ book.balance[t] >= SumFunctionOnSet(Net, Unclaimed(t))
    /\ \A r \in StandingOf(t) : amount[r] >= SumFunctionOnSet(Net, ClaimedBy(r))

(***************************************************************************)
(* M12 in credits: every credit of a tutor, in the wallet or withdrawn, is *)
(* accounted for by a released session that was not taken back, a bonus or *)
(* an adjustment, and unless an admin took credits away, what a request    *)
(* took is at least what the rows it claimed are worth, and what is left   *)
(* at least what the unclaimed ones are. With no bonus and no adjustment   *)
(* the two make them equal: a withdrawal is its earnings.                  *)
(***************************************************************************)
WithdrawalIsItsEarnings ==
    \A t \in Tutors : Accounted(t) /\ (~Docked(t) => Covered(t))

(***************************************************************************)
(* Whoever closed the session, and whenever a run died, the row is written *)
(* and, once due, released (writeOwedEarnings, M1 and M2), unless an admin *)
(* cancels first.                                                          *)
(***************************************************************************)
SessionsArePaid ==
    \A b \in Bookings :
        /\ status[b] \in {"completed", "no_show_student"} ~>
               earning[b] # "none" \/ status[b] = "cancelled"
        /\ Releasable(b) ~> earning[b] # "held"
=============================================================================
