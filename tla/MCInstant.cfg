\* The instant handshake, presence and broadcasts of one tutor.
\* Deadlock is not checked: every request may be answered and no job due.
CHECK_DEADLOCK FALSE
SPECIFICATION FairSpec
CONSTANTS
    sue = sue
    sam = sam
    sue1 = sue1
    sam1 = sam1
    algebra = algebra
    tab1 = tab1
    Nothing = Nothing
    Students <- MCStudents
    Requests <- MCRequests
    From <- MCFrom
    Price <- MCPrice
    Broadcasts <- MCBroadcasts
    Calls <- MCCalls
    MaxBalance = 1
    MaxCrashes = 1
INVARIANTS
    InstantIInv
    TutorInOnePlace
    ChargedOnceForARoom
PROPERTIES
    ImplementsTutorTime
    WaitEnds
    GoneHostIsEnded
