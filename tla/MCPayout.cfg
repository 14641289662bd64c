\* The tutor's money, from the end of the session to the payout.
\* Deadlock is not checked: every session may be over and every request closed.
CHECK_DEADLOCK FALSE
SPECIFICATION FairSpec
CONSTANTS
    tom = tom
    maths = maths
    physics = physics
    july = july
    august = august
    correction = correction
    week = week
    run1 = run1
    run2 = run2
    NoRequest = NoRequest
    Tutors <- MCTutors
    Bookings <- MCBookings
    Requests <- MCRequests
    Adjustments <- MCAdjustments
    Bonuses <- MCBonuses
    Runs <- MCRuns
    Tutor <- MCTutor
    Net <- MCNet
    Of <- MCOf
    For <- MCFor
    Delta <- MCDelta
    BonusFor <- MCBonusFor
    BonusCredits <- MCBonusCredits
    MinCredits <- MCMinCredits
INVARIANTS
    PayoutIInv
    EarningTellsLedger
    ClaimsAreAccountable
    WithdrawalIsItsEarnings
PROPERTIES
    CancelledIsNotPaid
    SessionsArePaid
