\* Two bookings' locks, one room, two calls of one tab, four connects, two messages a page,
\* three arrivals, three weeks, two reminders, a few thousand calendars, one host who may
\* come back and four sends of one writer.
SPECIFICATION Spec
CHECK_DEADLOCK FALSE
CONSTANTS
    first = first
    second = second
    canceller = canceller
    otherCanceller = otherCanceller
    completer = completer
    releaser = releaser
    payer = payer
    booker = booker
    sent = sent
    sentAgain = sentAgain
    later = later
    elsewhere = elsewhere
    Nobody = Nobody
    Shared = Shared
    Bookings <- MCBookings
    On <- MCOn
    Actors <- MCActors
    Runs <- MCRuns
    Booked = 2
    UnmetGrace = 2
    TokenCap = 3
    TokenGrace = 1
    StartsAt = 2
    OpensBefore = 1
    ClosesAfter = 1
    MaxLatency = 1
    LastCall = 4
    MaxTime = 7
    Rooms = {lesson, call}
    IsTutor = FALSE
    None = None
    MaxClients = 2
    Attempts = {a1, a2, a3, a4}
    NoChannel = NoChannel
    PageSize = 2
    MaxMessages = 2
    MaxDrafts = 1
    MaxArrivals = 3
    StaleSeconds = 2
    WeekLength = 3
    MinSeconds = 2
    WeeksToCheck = 2
    BonusRuns = {r1, r2}
    LastTick = 6
    ReminderKinds <- MCReminderKinds
    StartsAfter <- MCStartsAfter
    StartsWithin <- MCStartsWithin
    BookedAgo <- MCBookedAgo
    Cadence = 2
    MaxMissed = 1
    Sweeps = {s1, s2}
    LastStart = 10
    Day = 6
    WeekDays = 2
    HoldTime = 2
    Step = 1
    MaxReads = 2
    Asks = {ask1, ask2}
    NoAsk = NoAsk
    MaxLists = 1
    MaxReturns = 1
    MaxLost = 2
    MaxFailures = 1
    MaxChecks = 2
    Sends <- MCSends
    Writer <- MCWriter
    Thread <- MCThread
    ClientKey <- MCClientKey
    RateCount = 1
    RateWindow = 2
    LastSecond = 3
    Edits = {e1, e2}
    Decisions = {d1, d2}
INVARIANTS
    PartsIInv
    NoWaitCycle
    NoShowsWereAbsent
    TokensEndWithTheSession
    ChannelKept
    SentOnce
    OnlineTimeWasInView
    BonusPaidOnce
    RemindedOnceInTime
    SlotsOfCalendarAreExact
PROPERTIES
    RoomIsClosed
    HungUpIsReleased
    PicksUpEverything
    AcceptedIsJoined
    PendingIsShown
    EndIsLearned
