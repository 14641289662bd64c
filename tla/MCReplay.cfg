\* Two tabs pay for one booking; what a replay of the second one answers.
\* Deadlock is not checked: the clock is bounded, and every checkout may be over.
CHECK_DEADLOCK FALSE
SPECIFICATION Spec
CONSTANTS
    ann = ann
    byPayPal = byPayPal
    byCredits = byCredits
    tab1 = tab1
    tab2 = tab2
    NoBooking = NoBooking
    NoPayment = NoPayment
    Students <- MCStudents
    Bookings <- MCBookings
    Payments <- MCPayments
    Owner <- MCOwner
    Collides <- MCCollides
    ByPayPal <- MCByPayPal
    Price <- MCPrice
    Payer <- MCPayer
    PackageCredits <- MCPackageCredits
    Hold <- MCHold
    MaxHolds <- MCMaxHolds
    MaxNow <- MCMaxNow
INVARIANT ReplayReportsItself
