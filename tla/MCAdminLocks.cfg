\* The three admin actions of admin-bookings.ts on one booking.
SPECIFICATION LocksSpec
CONSTANTS
    first = first
    canceller = canceller
    reverser = reverser
    completer = completer
    Nobody = Nobody
    Shared = Shared
    Bookings <- MCBookings
    On <- MCOn
    Actors <- MCActors
    Runs <- MCRuns
INVARIANT NoWaitCycle
