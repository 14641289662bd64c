\* The two transitions of New York and of Berlin, in hours.
SPECIFICATION Spec
CHECK_DEADLOCK FALSE
CONSTANTS
    Day = 24
    WeekDays = 7
    HoldTime = 1
    Step = 1
INVARIANT HoursResolveAsStated
