------------------------------ MODULE SlotGrid ------------------------------
(***************************************************************************)
(* The bookable slots of a tutor's calendar, as computeSlots enumerates    *)
(* them and as they are defined. Instants and wall-clock times are whole   *)
(* units; a day has Day of them. A zone has one offset before the instant  *)
(* `at` and another from it on: a DST transition, or none.                 *)
(***************************************************************************)
EXTENDS Integers

CONSTANTS
    Day, WeekDays,
    HoldTime,      \* PENDING_PAYMENT_HOLD_MINUTES
    Step           \* SLOT_STEP_MINUTES

ASSUME SlotAssumption == {Day, WeekDays, Step} \subseteq Nat \ {0} /\ HoldTime \in Nat

UTC == [before |-> 0, after |-> 0, at |-> 0]

zoneOffset(zone, t) == IF t < zone.at THEN zone.before ELSE zone.after
wallClockInZone(t, zone) == t + zoneOffset(zone, t)
DateOf(wall) == wall \div Day
MinuteOf(wall) == wall % Day

(* Mutant of zonedWallToUtc: the offset is measured once. *)
zonedWallToUtcOnce(wall, zone) == wall - zoneOffset(zone, wall)

(* The offset at the naive guess, refined once at the instant it gives. *)
zonedWallToUtc(wall, zone) ==
    LET offset == zoneOffset(zone, wall)
        refined == zoneOffset(zone, wall - offset)
    IN wall - refined

(* A calendar: the tutor's zone, rules and exceptions, the bookings, the    *)
(* moment it is computed at, the cutoffs and the length asked for.          *)
windowsForDate(date, cal) ==
    LET onThisDate == {e \in cal.exceptions : e.date = date}
        overrides == {e \in onThisDate : e.isAvailable /\ e.end # 0}
    IN IF \E e \in onThisDate : ~e.isAvailable THEN {}
       ELSE IF overrides # {} THEN overrides
       ELSE {r \in cal.rules : r.weekday = date % WeekDays}

LiveBookings(cal) ==
    {b \in cal.bookings : b.status # "pending_payment" \/ b.createdAt + HoldTime > cal.now}

Overlaps(start, cal, b) == start < b.end /\ b.start < start + cal.duration

Bookable(start, cal) ==
    /\ start >= cal.now + cal.notice /\ start <= cal.now + cal.horizon
    /\ \A b \in LiveBookings(cal) : ~Overlaps(start, cal, b)

(* The starts of one window: steps from its own start that leave room. *)
Starts(window, cal) ==
    {m \in window.start..(window.end - cal.duration) : (m - window.start) % Step = 0}

(* The viewer's days `from` to `to`, as an interval of instants. *)
RangeStart(range, viewer) == zonedWallToUtc(range.from * Day, viewer)
RangeEnd(range, viewer) == zonedWallToUtc((range.to + 1) * Day, viewer)

computeSlots(cal, range, viewer) ==
    LET opens == RangeStart(range, viewer)
        closes == RangeEnd(range, viewer)
        tutorDates == (DateOf(wallClockInZone(opens, cal.zone)) - 1)
                      ..(DateOf(wallClockInZone(closes, cal.zone)) + 1)
        candidates == UNION {UNION {{zonedWallToUtc(date * Day + m, cal.zone) : m \in Starts(w, cal)} :
                                       w \in windowsForDate(date, cal)} : date \in tutorDates}
    IN {t \in candidates : t >= opens /\ t < closes /\ Bookable(t, cal)}

(* The server's own check of a start, over the UTC days around it. *)
isSlotOpen(cal, t) ==
    t \in computeSlots(cal, [from |-> DateOf(t) - 1, to |-> DateOf(t) + 1], UTC)

(***************************************************************************)
(* Properties                                                              *)
(***************************************************************************)
(* The instants that read as `wall` on the zone's clock: none where it is   *)
(* put forward, two where it is put back.                                   *)
Readings(wall, zone) ==
    {t \in {wall - zone.before, wall - zone.after} : wallClockInZone(t, zone) = wall}

(* A lesson of a length as compute-slots.ts:12-15 defines it: it begins on a *)
(* window's grid, and on the tutor's clock every instant of it reads as a    *)
(* time of that day inside the window.                                       *)
InSomeWindow(t, length, cal) ==
    LET reads(u) == wallClockInZone(u, cal.zone)
        date == DateOf(reads(t))
    IN \E w \in windowsForDate(date, cal) :
           /\ (MinuteOf(reads(t)) - w.start) % Step = 0
           /\ \A u \in t..(t + length - 1) : /\ date * Day + w.start <= reads(u)
                                             /\ reads(u) < date * Day + w.end

(* How much of a lesson is over when the tutor's clock is moved: all, mostly. *)
Steady(t, cal) ==
    IF cal.zone.before # cal.zone.after /\ cal.zone.at \in (t + 1)..(t + cal.duration - 1)
    THEN cal.zone.at - t ELSE cal.duration

(* compute-slots.ts: every slot is in a window, free and within the         *)
(* cutoffs, and every such start is a slot; a start the calendar offers is  *)
(* a start the server accepts. Only where the clock is put forward or back  *)
(* may the two differ: at a start that does not exist, or that comes twice, *)
(* and for a lesson during which it is moved, which is sure to be in the    *)
(* window no longer than up to that moment.                                 *)
SlotsAreExact(cal, range, viewer) ==
    LET slots == computeSlots(cal, range, viewer)
        asked == RangeStart(range, viewer)..(RangeEnd(range, viewer) - 1)
        skipped == {t \in slots : \E m \in 0..(Day - 1), date \in {DateOf(t) - 1, DateOf(t), DateOf(t) + 1} :
                       /\ Readings(date * Day + m, cal.zone) = {}
                       /\ zonedWallToUtc(date * Day + m, cal.zone) = t}
    IN /\ \A t \in slots \ skipped : InSomeWindow(t, Steady(t, cal), cal) /\ Bookable(t, cal)
       /\ \A t \in asked : InSomeWindow(t, cal.duration, cal) /\ Bookable(t, cal)
             => \/ t \in slots \/ Readings(wallClockInZone(t, cal.zone), cal.zone) # {t}
                \/ Steady(t, cal) # cal.duration
       /\ \A t \in slots : isSlotOpen(cal, t)

(* compute-slots.ts:185: "nonexistent spring-forward times resolve forward; *)
(* ambiguous fall-back times resolve to the first (pre-transition)          *)
(* occurrence".                                                             *)
ResolvesAsStated(wall, zone) ==
    LET t == zonedWallToUtc(wall, zone)
    IN /\ Readings(wall, zone) = {} => wallClockInZone(t, zone) > wall
       /\ \A u \in Readings(wall, zone) : t <= u
=============================================================================
