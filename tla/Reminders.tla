----------------------------- MODULE Reminders -----------------------------
(***************************************************************************)
(* The 24-hour and the 1-hour reminder of one scheduled booking: a sweep   *)
(* called at a cadence, some of whose calls are missed and some overlap an *)
(* admin's "run now", claims what is due by stamping it and then sends.    *)
(***************************************************************************)
EXTENDS Naturals

CONSTANTS
    ReminderKinds,             \* "24h" and "1h"
    StartsAfter, StartsWithin, BookedAgo,   \* REMINDER_WINDOWS, per kind
    Cadence,           \* how often the job is called
    MaxMissed,         \* how many calls in a row may be missed
    Sweeps,            \* calls of the job that can be under way at once
    LastStart          \* bound: when the session may start

ASSUME ReminderAssumption ==
    /\ StartsAfter \in [ReminderKinds -> Nat] /\ StartsWithin \in [ReminderKinds -> Nat]
    /\ BookedAgo \in [ReminderKinds -> Nat \ {0}]
    /\ Cadence \in Nat \ {0} /\ MaxMissed \in Nat /\ LastStart \in Nat \ {0}

VARIABLES
    time,
    bookingState,  \* the booking's status: "none", "confirmed" or "closed"
    bookedAt, startsAt,
    stamped,     \* kinds whose reminder_24h_sent_at, reminder_1h_sent_at is set
    mails,       \* mails[k]: reminders sent
    toClaim,     \* toClaim[s]: kinds a sweep has yet to claim
    toSend,      \* toSend[s]: kinds it has claimed and not sent
    called,      \* the job was called at this tick
    missed       \* calls missed in a row

reminderVars == <<time, bookingState, bookedAt, startsAt, stamped, mails, toClaim, toSend, called, missed>>

RemindersInit ==
    /\ time = 1 /\ bookingState = "none" /\ bookedAt = 0 /\ startsAt = 0
    /\ stamped = {} /\ mails = [k \in ReminderKinds |-> 0]
    /\ toClaim = [s \in Sweeps |-> {}] /\ toSend = [s \in Sweeps |-> {}]
    /\ called = FALSE /\ missed = 0

Book ==
    /\ bookingState = "none" /\ bookingState' = "confirmed" /\ bookedAt' = time
    /\ startsAt' \in (time + 1)..LastStart
    /\ UNCHANGED <<time, stamped, mails, toClaim, toSend, called, missed>>

(* Cancelled, or entered by both. *)
LeaveConfirmed ==
    /\ bookingState = "confirmed" /\ bookingState' = "closed"
    /\ UNCHANGED <<time, bookedAt, startsAt, stamped, mails, toClaim, toSend, called, missed>>

(* The schedule calls on its ticks, an admin at any time. *)
runBookingRemindersSweep(s) ==
    /\ toClaim[s] = {} /\ toSend[s] = {}
    /\ toClaim' = [toClaim EXCEPT ![s] = ReminderKinds]
    /\ called' = TRUE
    /\ UNCHANGED <<time, bookingState, bookedAt, startsAt, stamped, mails, toSend, missed>>

InWindow(k) ==
    /\ bookingState = "confirmed"
    /\ startsAt > time + StartsAfter[k] /\ startsAt <= time + StartsWithin[k]
    /\ bookedAt + BookedAgo[k] <= time

Claim(s, k, due) ==
    /\ k \in toClaim[s] /\ toClaim' = [toClaim EXCEPT ![s] = @ \ {k}]
    /\ IF due THEN stamped' = stamped \cup {k} /\ toSend' = [toSend EXCEPT ![s] = @ \cup {k}]
       ELSE UNCHANGED <<stamped, toSend>>
    /\ UNCHANGED <<time, bookingState, bookedAt, startsAt, mails, called, missed>>

(* Mutant of claimDueReminders: the stamp is not looked at again. *)
claimInWindow(s, k) == Claim(s, k, InWindow(k))

(* One UPDATE ... RETURNING per kind. *)
claimDueReminders(s, k) == Claim(s, k, k \notin stamped /\ InWindow(k))

(* A send that fails after its stamp is not tried again. *)
sendReminder(s, k) ==
    /\ toClaim[s] = {} /\ k \in toSend[s]
    /\ toSend' = [toSend EXCEPT ![s] = @ \ {k}]
    /\ mails' \in {mails, [mails EXCEPT ![k] = @ + 1]}
    /\ UNCHANGED <<time, bookingState, bookedAt, startsAt, stamped, toClaim, called, missed>>

(* Time waits for the claims of a sweep, and passes a call that is missed. *)
ReminderTick ==
    /\ bookingState = "confirmed" => time < startsAt
    /\ time < LastStart /\ time' = time + 1 /\ called' = FALSE
    /\ \A s \in Sweeps : toClaim[s] = {}
    /\ IF time % Cadence # 0 THEN UNCHANGED missed
       ELSE IF called THEN missed' = 0 ELSE missed < MaxMissed /\ missed' = missed + 1
    /\ UNCHANGED <<bookingState, bookedAt, startsAt, stamped, mails, toClaim, toSend>>

RemindersNext ==
    \/ Book \/ LeaveConfirmed \/ ReminderTick
    \/ \E s \in Sweeps :
          \/ runBookingRemindersSweep(s)
          \/ \E k \in ReminderKinds : claimDueReminders(s, k) \/ sendReminder(s, k)

RemindersSpec == RemindersInit /\ [][RemindersNext]_reminderVars

(***************************************************************************)
(* Properties                                                              *)
(***************************************************************************)
RemindersTypeOK ==
    /\ time \in 1..LastStart /\ bookingState \in {"none", "confirmed", "closed"}
    /\ bookedAt \in Nat /\ startsAt \in 0..LastStart
    /\ stamped \subseteq ReminderKinds /\ mails \in [ReminderKinds -> Nat]
    /\ toClaim \in [Sweeps -> SUBSET ReminderKinds] /\ toSend \in [Sweeps -> SUBSET ReminderKinds]
    /\ called \in BOOLEAN /\ missed \in 0..MaxMissed

(* When the booking enters the window of a reminder. *)
Opens(k) == IF bookedAt + BookedAgo[k] + StartsWithin[k] >= startsAt
            THEN bookedAt + BookedAgo[k] ELSE startsAt - StartsWithin[k]

(* booking-reminders.ts: "each window is wider than the cadence so one or   *)
(* two missed runs still remind; the stamp stops a second send". A booking  *)
(* that was in a window for that long is claimed before the window closes,  *)
(* and nobody is reminded twice.                                            *)
RemindedOnceInTime == \A k \in ReminderKinds :
    /\ mails[k] <= (IF k \in stamped THEN 1 ELSE 0)
    /\ /\ bookingState = "confirmed" /\ time + StartsAfter[k] >= startsAt
       /\ Opens(k) + (MaxMissed + 1) * Cadence + StartsAfter[k] <= startsAt
       => k \in stamped

(* A reminder is sent by the sweep whose stamp it was. *)
SendersStamped == \A k \in ReminderKinds : \A s \in Sweeps : k \in toSend[s] =>
    /\ k \in stamped /\ mails[k] = 0
    /\ \A q \in Sweeps : k \in toSend[q] => q = s

(* What a call of this tick found in its window is claimed, or about to be. *)
CalledIsClaimed == called => \A k \in ReminderKinds :
    InWindow(k) => k \in stamped \/ \E s \in Sweeps : k \in toClaim[s]

(* How long ago the schedule's last tick before now was: at least one.     *)
SinceSchedule == IF time % Cadence = 0 THEN Cadence ELSE time % Cadence

(* A reminder still unclaimed has waited for the calls missed, no longer.  *)
UnclaimedWasMissed == \A k \in ReminderKinds :
    bookingState = "confirmed" /\ k \notin stamped /\ time + StartsAfter[k] <= startsAt =>
        time < Opens(k) + missed * Cadence + SinceSchedule
=============================================================================
