\* Three concurrent attempts against the cap of two open holds.
\* Deadlock is not checked: the clock is bounded.
CHECK_DEADLOCK FALSE
SPECIFICATION Spec
CONSTANTS
    ann = ann
    mon = mon
    tue = tue
    wed = wed
    NoBooking = NoBooking
    NoPayment = NoPayment
    Students <- MCStudents
    Bookings <- MCBookings
    Payments <- MCPayments
    Owner <- MCOwner
    Collides <- MCCollides
    ByPayPal <- MCByPayPal
    Price <- MCPrice
    Payer <- MCPayer
    PackageCredits <- MCPackageCredits
    Hold <- MCHold
    MaxHolds <- MCMaxHolds
    MaxNow <- MCMaxNow
INVARIANT HoldsWithinCap
