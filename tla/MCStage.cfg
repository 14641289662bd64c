\* The tutor's profile row against the broadcasts it stands for.
\* Deadlock is not checked: every request may be answered and no job due.
CHECK_DEADLOCK FALSE
SPECIFICATION Spec
CONSTANTS
    sue = sue
    sam = sam
    sue1 = sue1
    sam1 = sam1
    algebra = algebra
    tab1 = tab1
    Nothing = Nothing
    Students <- MCStudents
    Requests <- MCRequests
    From <- MCFrom
    Price <- MCPrice
    Broadcasts <- MCBroadcasts
    Calls <- MCCalls
    MaxBalance = 1
    MaxCrashes = 1
INVARIANTS
    ToggleLockedOnlyOnStage
