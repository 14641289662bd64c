\* A student's tab and two bookings of hers.
SPECIFICATION CallSpec
CONSTANTS
    Rooms = {lesson, call}
    IsTutor = FALSE
    None = None
    MaxClients = 2
INVARIANT FinishedIsOver
