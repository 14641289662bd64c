---------------------------- MODULE SessionRoom ----------------------------
(***************************************************************************)
(* One booking from the moment it can be entered to the moment it is over: *)
(* an instant session in the Agora room or a scheduled one in LessonSpace. *)
(* Each participant's join is a route of several statements; the room is   *)
(* closed by whoever gets there first: a participant, the deadline, the    *)
(* unmet grace, the sweep or an admin, who may also reopen the verdict: a  *)
(* no-show can be force-completed, and anything that was entered cancelled *)
(* after all. Times are ticks, 0 is SQL's NULL.                            *)
(***************************************************************************)
EXTENDS Naturals

CONSTANTS
    Booked,         \* duration_minutes
    UnmetGrace,     \* INSTANT_UNMET_GRACE_MINUTES
    TokenCap,       \* TOKEN_TTL_SECONDS
    TokenGrace,     \* DEADLINE_GRACE_SECONDS
    StartsAt,       \* scheduled_start_at
    OpensBefore,    \* JOIN_WINDOW_BEFORE_MINUTES
    ClosesAfter,    \* JOIN_WINDOW_AFTER_MINUTES, and SCHEDULED_GRACE_MINUTES
    MaxLatency,     \* bound: how long a route may take from its check to its answer
    LastCall,       \* bound: when the last route is called
    MaxTime         \* bound: the clock

ASSUME RoomAssumption ==
    /\ Booked \in Nat \ {0} /\ TokenCap \in Nat \ {0}
    /\ UnmetGrace \in Nat /\ TokenGrace \in Nat
    /\ StartsAt \in Nat \ {0} /\ OpensBefore \in Nat /\ ClosesAfter \in Nat
    /\ MaxLatency \in Nat /\ LastCall \in Nat /\ MaxTime \in Nat \ {0}

VARIABLES
    kind,         \* bookings.type, "none" before there is a booking
    status,       \* bookings.status
    clock,
    createdAt,
    joinedAt,     \* joinedAt[p]: student_joined_at, tutor_joined_at
    startedAt, endedAt,
    forced,       \* an audit row says booking.force_complete
    route,        \* route[p]: where p's join request stands, and since when
    entry,        \* entry[p]: p was handed a token or a classroom link
    expiry        \* expiry[p]: when the last of p's Agora tokens runs out

roomVars == <<kind, status, clock, createdAt, joinedAt, startedAt, endedAt, forced,
             route, entry, expiry>>

People == {"student", "tutor"}
Other(p) == IF p = "student" THEN "tutor" ELSE "student"
Idle == [at |-> "idle", since |-> 0, start |-> 0]
Routes == [at : {"idle", "checked", "launched", "stamped"}, since : Nat, start : Nat]

RoomInit ==
    /\ kind = "none" /\ status = "none" /\ clock = 1
    /\ createdAt = 0 /\ startedAt = 0 /\ endedAt = 0 /\ forced = FALSE
    /\ joinedAt = [p \in People |-> 0]
    /\ route = [p \in People |-> Idle]
    /\ entry = [p \in People |-> FALSE]
    /\ expiry = [p \in People |-> 0]

Outcomes == {"completed", "no_show_tutor", "no_show_student"}

EndsAt == StartsAt + Booked
Deadline == startedAt + Booked
Elapsed == startedAt # 0 /\ clock >= Deadline

(* The accept's insert, or the confirmation of a scheduled booking. *)
insertBooking(type) ==
    /\ kind = "none" /\ kind' = type
    /\ status' = IF type = "instant" THEN "in_progress" ELSE "confirmed"
    /\ createdAt' = clock
    /\ UNCHANGED <<clock, joinedAt, startedAt, endedAt, route, entry, expiry, forced>>

(***************************************************************************)
(* Joining                                                                 *)
(***************************************************************************)
checkSessionAccess == kind = "instant" /\ status = "in_progress" /\ ~Elapsed

withinJoinWindow == StartsAt <= clock + OpensBefore /\ clock <= EndsAt + ClosesAfter

checkLessonSpaceAccess ==
    kind = "scheduled" /\ status \in {"confirmed", "in_progress"} /\ withinJoinWindow

(* The row is read and the caller let past. A refusal changes nothing; one  *)
(* because the time is up also tries to close the room, which the deadline *)
(* may do at any time.                                                     *)
EnterRoute(p) ==
    /\ route[p] = Idle /\ clock <= LastCall
    /\ checkSessionAccess \/ checkLessonSpaceAccess
    /\ route' = [route EXCEPT ![p] = [at |-> "checked", since |-> clock, start |-> 0]]
    /\ UNCHANGED <<kind, status, clock, createdAt, joinedAt, startedAt, endedAt, entry, expiry, forced>>

(* LessonSpace opens the space, or fails and nothing has been written. *)
launchSpace(p) ==
    /\ kind = "scheduled" /\ route[p].at = "checked"
    /\ \/ route' = [route EXCEPT ![p].at = "launched"]
       \/ route' = [route EXCEPT ![p] = Idle]
    /\ UNCHANGED <<kind, status, clock, createdAt, joinedAt, startedAt, endedAt, entry, expiry, forced>>

pairCompletesOnThisWrite(p) == joinedAt[Other(p)] # 0

joinStampAssignments(p) ==
    /\ joinedAt' = [joinedAt EXCEPT ![p] = IF @ = 0 THEN clock ELSE @]
    /\ startedAt' = IF startedAt = 0 /\ pairCompletesOnThisWrite(p) THEN clock ELSE startedAt

(* Mutant of stampSessionJoin: a row that moved is no reason to refuse. *)
stampSessionJoinAnyway(p) ==
    /\ kind = "instant" /\ route[p].at = "checked"
    /\ IF status = "in_progress" THEN joinStampAssignments(p) ELSE UNCHANGED <<joinedAt, startedAt>>
    /\ route' = [route EXCEPT ![p] = [at |-> "stamped", since |-> @.since, start |-> startedAt']]
    /\ UNCHANGED <<kind, status, clock, createdAt, endedAt, entry, expiry, forced>>

stampSessionJoin(p) ==
    /\ kind = "instant" /\ route[p].at = "checked"
    /\ \/ /\ status = "in_progress"
          /\ joinStampAssignments(p)
          /\ route' = [route EXCEPT ![p] = [at |-> "stamped", since |-> @.since, start |-> startedAt']]
       \/ /\ status # "in_progress"
          /\ route' = [route EXCEPT ![p] = Idle]
          /\ UNCHANGED <<joinedAt, startedAt>>
    /\ UNCHANGED <<kind, status, clock, createdAt, endedAt, entry, expiry, forced>>

(* The same stamp for the classroom, whose link goes out with the answer. *)
stampScheduledSessionJoin(p) ==
    /\ kind = "scheduled" /\ route[p].at = "launched"
    /\ \/ /\ status \in {"confirmed", "in_progress"}
          /\ joinStampAssignments(p)
          /\ status' = IF pairCompletesOnThisWrite(p) THEN "in_progress" ELSE status
          /\ entry' = [entry EXCEPT ![p] = TRUE]
       \/ /\ status \notin {"confirmed", "in_progress"}
          /\ UNCHANGED <<status, joinedAt, startedAt, entry>>
    /\ route' = [route EXCEPT ![p] = Idle]
    /\ UNCHANGED <<kind, clock, createdAt, endedAt, expiry, forced>>

AtMost(n, cap) == IF n >= cap THEN cap ELSE n
Left(start) == IF start + Booked >= clock THEN start + Booked - clock ELSE 0

(* Mutant of sessionTokenLifetime: every token lasts the standard hour. *)
standardTokenLifetime(start) == TokenCap

sessionTokenLifetime(start) ==
    IF start # 0 THEN AtMost(Left(start) + TokenGrace, TokenCap) ELSE AtMost(Booked, TokenCap)

(* The token, or the 5xx of a mint that fails after the stamp. *)
mintToken(p) ==
    /\ route[p].at = "stamped"
    /\ \/ /\ expiry' = [expiry EXCEPT ![p] = clock + sessionTokenLifetime(route[p].start)]
          /\ entry' = [entry EXCEPT ![p] = TRUE]
       \/ UNCHANGED <<expiry, entry>>
    /\ route' = [route EXCEPT ![p] = Idle]
    /\ UNCHANGED <<kind, status, clock, createdAt, joinedAt, startedAt, endedAt, forced>>

(***************************************************************************)
(* Closing. Every closer is one guarded statement, so the handlers made of *)
(* two of them (endSession, getSessionState, the cron) add no behaviour.   *)
(***************************************************************************)
Close(as, at) ==
    /\ status' = as /\ endedAt' = at
    /\ UNCHANGED <<kind, clock, createdAt, joinedAt, startedAt, route, entry, expiry, forced>>

(* Mutant of endInstantSession: the moment somebody noticed. *)
endInstantSessionNow ==
    /\ kind = "instant" /\ status = "in_progress" /\ startedAt # 0
    /\ Close("completed", clock)

(* A participant's End, at any time, or whoever notices the deadline. *)
endInstantSession ==
    /\ kind = "instant" /\ status = "in_progress" /\ startedAt # 0
    /\ Close("completed", IF Elapsed THEN Deadline ELSE clock)

endElapsedInstantSession == Elapsed /\ endInstantSession

classifiedStatus ==
    IF startedAt # 0 THEN "completed"
    ELSE IF joinedAt["tutor"] = 0 THEN "no_show_tutor"
    ELSE IF joinedAt["student"] = 0 THEN "no_show_student"
    ELSE "completed"

UnmetDue == kind = "instant" /\ startedAt = 0 /\ createdAt + UnmetGrace <= clock

closeUnmetInstantSession ==
    /\ UnmetDue /\ status = "in_progress"
    /\ Close(classifiedStatus, clock)

(* Mutant of sweepElapsedScheduledSessions: only lessons that began. *)
sweepStartedScheduledSessions ==
    /\ kind = "scheduled" /\ status = "in_progress"
    /\ EndsAt + ClosesAfter <= clock
    /\ Close(classifiedStatus, EndsAt)

sweepElapsedScheduledSessions ==
    /\ kind = "scheduled" /\ status \in {"confirmed", "in_progress"}
    /\ EndsAt + ClosesAfter <= clock
    /\ Close(classifiedStatus, EndsAt)

(* FORCE_CANCEL_FROM: a finished session too, whose ended_at stands. *)
applyForceCancel ==
    /\ status \in {"confirmed", "in_progress"} \cup Outcomes
    /\ status' = "cancelled"
    /\ UNCHANGED <<kind, clock, createdAt, joinedAt, startedAt, endedAt, route, entry, expiry, forced>>

(* FORCE_COMPLETE_FROM: whoever came, once a lesson's start has passed; an  *)
(* ended_at that is there stands.                                          *)
applyForceComplete ==
    /\ status \in {"confirmed", "in_progress", "no_show_tutor", "no_show_student"}
    /\ kind = "scheduled" => StartsAt <= clock
    /\ status' = "completed" /\ forced' = TRUE
    /\ endedAt' = IF endedAt # 0 THEN endedAt
                  ELSE IF kind = "scheduled" /\ EndsAt < clock THEN EndsAt ELSE clock
    /\ UNCHANGED <<kind, clock, createdAt, joinedAt, startedAt, route, entry, expiry>>

(* Time passes, and waits for a route that has used up its latency. *)
RoomTick ==
    /\ kind # "none" /\ clock < MaxTime
    /\ \A p \in People : route[p] # Idle => clock < route[p].since + MaxLatency
    /\ clock' = clock + 1
    /\ UNCHANGED <<kind, status, createdAt, joinedAt, startedAt, endedAt, route, entry, expiry, forced>>

Join(p) ==
    \/ EnterRoute(p) \/ launchSpace(p)
    \/ stampSessionJoin(p) \/ stampScheduledSessionJoin(p) \/ mintToken(p)

(* The complete-sessions job, and whoever runs one of its statements first. *)
completeSessions ==
    endElapsedInstantSession \/ closeUnmetInstantSession \/ sweepElapsedScheduledSessions

RoomNext ==
    \/ \E type \in {"instant", "scheduled"} : insertBooking(type)
    \/ \E p \in People : Join(p)
    \/ endInstantSession \/ completeSessions
    \/ applyForceCancel \/ applyForceComplete \/ RoomTick

RoomSpec == RoomInit /\ [][RoomNext]_roomVars

(***************************************************************************)
(* Properties                                                              *)
(***************************************************************************)
RoomTypeOK ==
    /\ kind \in {"none", "instant", "scheduled"}
    /\ status \in {"none", "confirmed", "in_progress", "cancelled"} \cup Outcomes
    /\ clock \in Nat \ {0} /\ createdAt \in Nat /\ startedAt \in Nat /\ endedAt \in Nat
    /\ joinedAt \in [People -> Nat] /\ expiry \in [People -> Nat]
    /\ route \in [People -> Routes] /\ entry \in [People -> BOOLEAN] /\ forced \in BOOLEAN

(* started_at is the first moment both were present. *)
StartedWhenBothCame ==
    /\ \A p \in People : joinedAt[p] <= clock
    /\ startedAt <= clock
    /\ startedAt # 0 <=> \A p \in People : joinedAt[p] # 0
    /\ startedAt # 0 => startedAt \in {joinedAt[p] : p \in People}
    /\ startedAt # 0 => \A p \in People : joinedAt[p] <= startedAt

(* A no-show is written about a person who was never let in, and a session  *)
(* is completed only if both were there or an admin vouched for it: a       *)
(* session that both were let into is never a no-show, whichever closer won *)
(* the row and whatever joins were under way when it did.                   *)
NoShowsWereAbsent ==
    /\ status = "no_show_tutor" => ~entry["tutor"]
    /\ status = "no_show_student" => ~entry["student"] /\ joinedAt["tutor"] # 0
    /\ status = "completed" => startedAt # 0 \/ forced

(* What the earnings are dated by. However late an instant session is       *)
(* closed, it ended between its start and its deadline, or at the end of    *)
(* the unmet grace or later; a lesson ended at its scheduled end. Only an   *)
(* admin's completion dates it otherwise: by that moment, if the lesson was *)
(* still on or the room was open. Cancelling a finished one changes no date. *)
EndedInTime ==
    /\ status \in Outcomes => endedAt # 0
    /\ forced => status \in {"completed", "cancelled"} /\ endedAt # 0
    /\ endedAt # 0 =>
          /\ status \in Outcomes \cup {"cancelled"}
          /\ kind = "scheduled" => StartsAt <= endedAt /\ endedAt <= EndsAt
          /\ kind = "scheduled" /\ ~forced => endedAt = EndsAt
          /\ kind = "instant" /\ ~forced =>
                IF startedAt # 0 THEN startedAt <= endedAt /\ endedAt <= Deadline
                                 ELSE createdAt + UnmetGrace <= endedAt
          /\ kind = "instant" => createdAt <= endedAt /\ endedAt <= clock

(* token-request.ts: a token must not outlive the session it was issued for, *)
(* by more than the grace and the time one route may take.                   *)
TokensEndWithTheSession == startedAt # 0 =>
    \A p \in People : expiry[p] <= Deadline + TokenGrace + MaxLatency

(* Every booking is closed and classified at last. *)
RoomIsClosed == status \in {"confirmed", "in_progress"} ~> status \in Outcomes \cup {"cancelled"}
=============================================================================
