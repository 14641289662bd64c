------------------------- MODULE SessionRoom_proofs -------------------------
(***************************************************************************)
(* A room is classified by who really came, dated between its start and    *)
(* its deadline, and left by every token when it ends, for any durations,  *)
(* graces, join window and latency of the routes.                          *)
(***************************************************************************)
EXTENDS SessionRoom, TLAPS

(* Nothing has happened to a booking that is not there. *)
NotYetBooked == kind = "none" =>
    /\ status = "none" /\ startedAt = 0
    /\ \A p \in People : joinedAt[p] = 0 /\ route[p].at = "idle"

(* A route that is under way was let past within its latency, and before   *)
(* the deadline of what began by then; one that has stamped did so as a    *)
(* person who joined, with the start that was written at its stamp.        *)
RouteInTime(p) == route[p].at # "idle" =>
    /\ route[p].since <= clock /\ clock <= route[p].since + MaxLatency
    /\ kind = "instant" /\ startedAt # 0 => route[p].since <= Deadline
    /\ route[p].at = "stamped" =>
          /\ kind = "instant" /\ joinedAt[p] # 0
          /\ route[p].start = startedAt \/ (route[p].start = 0 /\ route[p].since <= startedAt)

RoutesInTime == \A p \in People : RouteInTime(p)

(* Only a person who joined was handed a token or a link. *)
EnteredHaveJoined == \A p \in People : entry[p] => joinedAt[p] # 0

(* What the classification found is still so. *)
OutcomeStands ==
    /\ status = "no_show_tutor" => joinedAt["tutor"] = 0
    /\ status = "no_show_student" => joinedAt["student"] = 0 /\ joinedAt["tutor"] # 0
    /\ status = "completed" => startedAt # 0 \/ forced

(* A booking is older than its start, and neither is in the future. *)
BookedFirst == createdAt <= clock /\ (startedAt # 0 => createdAt <= startedAt)

(* Before the start a token lasts no longer than the booking from now on. *)
TokensInTime ==
    /\ startedAt = 0 => \A p \in People : expiry[p] <= clock + Booked
    /\ TokensEndWithTheSession

RoomIInv ==
    /\ RoomTypeOK /\ NotYetBooked /\ StartedWhenBothCame /\ RoutesInTime
    /\ EnteredHaveJoined /\ OutcomeStands /\ EndedInTime /\ TokensInTime /\ BookedFirst

LEMMA RoomStart == RoomInit => RoomIInv
<1>1. RoomInit => EndedInTime /\ OutcomeStands /\ BookedFirst
  BY DEF RoomInit, EndedInTime, OutcomeStands, BookedFirst, Outcomes
<1>2. RoomInit => joinedAt \in [People -> Nat] /\ expiry \in [People -> Nat] /\ entry \in [People -> BOOLEAN]
  BY DEF RoomInit
<1>3. RoomInit => route \in [People -> Routes]
  <2>1. Idle \in Routes BY DEF Idle, Routes
  <2>2. QED BY <2>1 DEF RoomInit
<1>4. RoomInit => /\ kind \in {"none", "instant", "scheduled"} /\ forced \in BOOLEAN
                  /\ status \in {"none", "confirmed", "in_progress", "cancelled"} \cup Outcomes
  BY DEF RoomInit
<1>5. RoomInit => clock \in Nat \ {0} /\ createdAt \in Nat /\ startedAt \in Nat /\ endedAt \in Nat
  BY DEF RoomInit
<1>6. RoomInit => RoomTypeOK
  BY <1>2, <1>3, <1>4, <1>5, Zenon DEF RoomTypeOK
<1>7. RoomInit => NotYetBooked /\ RoutesInTime /\ EnteredHaveJoined
  BY DEF RoomInit, NotYetBooked, RoutesInTime, RouteInTime, EnteredHaveJoined, Idle
<1>8. RoomInit => StartedWhenBothCame /\ TokensInTime
  BY RoomAssumption DEF RoomInit, StartedWhenBothCame, TokensInTime, TokensEndWithTheSession, People
<1>9. QED BY <1>1, <1>6, <1>7, <1>8 DEF RoomIInv

LEMMA BookingKeeps ==
  ASSUME RoomIInv, NEW type \in {"instant", "scheduled"}, insertBooking(type) PROVE RoomIInv'
<1> USE DEF insertBooking, RoomIInv
<1>1. RoomTypeOK' /\ NotYetBooked' /\ EnteredHaveJoined'
  BY DEF RoomTypeOK, NotYetBooked, EnteredHaveJoined
<1>2. StartedWhenBothCame' /\ RoutesInTime' /\ TokensInTime'
  BY DEF RoomTypeOK, NotYetBooked, StartedWhenBothCame, RoutesInTime, RouteInTime, TokensInTime,
     TokensEndWithTheSession, Deadline
<1>3. OutcomeStands' /\ EndedInTime' /\ BookedFirst'
  BY DEF OutcomeStands, NotYetBooked, EndedInTime, BookedFirst, Outcomes, RoomTypeOK
<1>4. QED BY <1>1, <1>2, <1>3

LEMMA EnterKeeps == ASSUME RoomIInv, NEW p \in People, EnterRoute(p) PROVE RoomIInv'
<1> USE DEF EnterRoute, RoomIInv
<1>1. /\ route' = [route EXCEPT ![p] = [at |-> "checked", since |-> clock, start |-> 0]]
      /\ route'[p] = [at |-> "checked", since |-> clock, start |-> 0]
      /\ \A q \in People : q # p => route'[q] = route[q]
      /\ route' \in [People -> Routes]
  BY DEF RoomTypeOK, Routes
<1>2. kind # "none" /\ (kind = "instant" => ~Elapsed)
  BY DEF checkSessionAccess, checkLessonSpaceAccess
<1>3. RoomTypeOK' /\ NotYetBooked'
  BY <1>1, <1>2 DEF RoomTypeOK, NotYetBooked
<1>4. RoutesInTime'
  BY <1>1, <1>2, RoomAssumption DEF RoutesInTime, RouteInTime, Elapsed, Deadline, RoomTypeOK, Routes
<1>5. StartedWhenBothCame' /\ EnteredHaveJoined' /\ OutcomeStands' /\ EndedInTime' /\ TokensInTime' /\ BookedFirst'
  BY DEF StartedWhenBothCame, EnteredHaveJoined, OutcomeStands, EndedInTime, TokensInTime,
     BookedFirst, TokensEndWithTheSession, Deadline, EndsAt, Outcomes
<1>6. QED BY <1>3, <1>4, <1>5

LEMMA LaunchKeeps == ASSUME RoomIInv, NEW p \in People, launchSpace(p) PROVE RoomIInv'
<1> USE DEF launchSpace, RoomIInv
<1>1. /\ route' \in [People -> Routes]
      /\ \A q \in People : q # p => route'[q] = route[q]
      /\ \/ route'[p].at = "launched" /\ route'[p].since = route[p].since
         \/ route'[p].at = "idle"
  BY DEF RoomTypeOK, Routes, Idle
<1>2. RoomTypeOK' /\ NotYetBooked'
  BY <1>1 DEF RoomTypeOK, NotYetBooked
<1>3. RoutesInTime'
  BY <1>1 DEF RoutesInTime, RouteInTime, Deadline
<1>4. StartedWhenBothCame' /\ EnteredHaveJoined' /\ OutcomeStands' /\ EndedInTime' /\ TokensInTime' /\ BookedFirst'
  BY DEF StartedWhenBothCame, EnteredHaveJoined, OutcomeStands, EndedInTime, TokensInTime,
     BookedFirst, TokensEndWithTheSession, Deadline, EndsAt, Outcomes
<1>5. QED BY <1>2, <1>3, <1>4

(* What a stamp writes: the caller is there, and the second to come is the  *)
(* start. Nothing that was written before is written again.                 *)
LEMMA EntryStamped ==
  ASSUME RoomTypeOK, StartedWhenBothCame, NEW p \in People, joinStampAssignments(p)
  PROVE  /\ joinedAt' \in [People -> Nat] /\ startedAt' \in Nat
         /\ joinedAt'[p] # 0 /\ joinedAt'[p] <= clock
         /\ \A q \in People : joinedAt[q] # 0 => joinedAt'[q] = joinedAt[q]
         /\ \A q \in People : q # p => joinedAt'[q] = joinedAt[q]
         /\ startedAt # 0 => startedAt' = startedAt
         /\ startedAt = 0 => startedAt' \in {0, clock}
         /\ startedAt' # 0 <=> \A q \in People : joinedAt'[q] # 0
         /\ startedAt' # 0 => startedAt' \in {joinedAt'[q] : q \in People}
         /\ startedAt' # 0 => \A q \in People : joinedAt'[q] <= startedAt'
<1> USE DEF joinStampAssignments, RoomTypeOK
<1>1. People = {p, Other(p)} /\ Other(p) # p /\ Other(p) \in People
  BY DEF People, Other
<1>2. /\ joinedAt' \in [People -> Nat]
      /\ joinedAt'[p] = IF joinedAt[p] = 0 THEN clock ELSE joinedAt[p]
      /\ \A q \in People : q # p => joinedAt'[q] = joinedAt[q]
  OBVIOUS
<1>3. /\ joinedAt[p] <= clock /\ joinedAt[Other(p)] <= clock
      /\ startedAt # 0 <=> joinedAt[p] # 0 /\ joinedAt[Other(p)] # 0
      /\ startedAt # 0 => startedAt \in {joinedAt[p], joinedAt[Other(p)]}
      /\ startedAt # 0 => joinedAt[p] <= startedAt /\ joinedAt[Other(p)] <= startedAt
  BY <1>1 DEF StartedWhenBothCame
<1>4. startedAt' = IF startedAt = 0 /\ joinedAt[Other(p)] # 0 THEN clock ELSE startedAt
  BY DEF pairCompletesOnThisWrite
<1>5. /\ startedAt' # 0 <=> joinedAt'[p] # 0 /\ joinedAt'[Other(p)] # 0
      /\ startedAt' # 0 => startedAt' \in {joinedAt'[p], joinedAt'[Other(p)]}
      /\ startedAt' # 0 => joinedAt'[p] <= startedAt' /\ joinedAt'[Other(p)] <= startedAt'
  BY <1>1, <1>2, <1>3, <1>4
<1>6. startedAt' # 0 => startedAt' \in {joinedAt'[q] : q \in People}
  BY <1>1, <1>5
<1>7. QED BY <1>1, <1>2, <1>3, <1>4, <1>5, <1>6

(* The parts of the invariant a stamp can disturb but for the routes. *)
LEMMA StampWrites ==
  ASSUME RoomIInv, NEW p \in People, joinStampAssignments(p),
         status \in {"confirmed", "in_progress"}, status' \in {"confirmed", "in_progress"},
         kind # "none", kind' = kind, clock' = clock, createdAt' = createdAt,
         endedAt' = endedAt, expiry' = expiry, forced' = forced,
         entry' \in [People -> BOOLEAN], \A q \in People : entry'[q] => entry[q] \/ q = p
  PROVE  /\ NotYetBooked' /\ StartedWhenBothCame' /\ EnteredHaveJoined' /\ OutcomeStands'
         /\ EndedInTime' /\ TokensInTime' /\ BookedFirst'
<1> USE DEF RoomIInv
<1>1. NotYetBooked' /\ OutcomeStands'
  BY DEF NotYetBooked, OutcomeStands
<1>2. StartedWhenBothCame'
  <2>1. \A q \in People : joinedAt'[q] <= clock
    BY EntryStamped DEF StartedWhenBothCame
  <2>2. startedAt' <= clock
    BY EntryStamped DEF StartedWhenBothCame, RoomTypeOK
  <2>3. QED BY <2>1, <2>2, EntryStamped DEF StartedWhenBothCame
<1>3. EnteredHaveJoined'
  BY EntryStamped DEF EnteredHaveJoined
<1>4. EndedInTime'
  BY DEF EndedInTime, Outcomes
<1>5. TokensInTime'
  <2>1. CASE startedAt # 0
    BY <2>1, EntryStamped DEF TokensInTime, TokensEndWithTheSession, Deadline
  <2>2. CASE startedAt = 0
    BY <2>2, EntryStamped, RoomAssumption DEF TokensInTime, TokensEndWithTheSession, Deadline, RoomTypeOK
  <2>3. QED BY <2>1, <2>2
<1>6. BookedFirst'
  BY EntryStamped DEF BookedFirst, RoomTypeOK
<1>7. QED BY <1>1, <1>2, <1>3, <1>4, <1>5, <1>6

(* A route of the other person is as much in time after a stamp as before. *)
LEMMA StampKeepsRoutes ==
  ASSUME RoomIInv, NEW p \in People, joinStampAssignments(p), kind' = kind, clock' = clock,
         NEW q \in People, route'[q] = route[q]
  PROVE  RouteInTime(q)'
<1> USE DEF RoomIInv, RouteInTime
<1>1. /\ route[q].since \in Nat /\ route[q].start \in Nat /\ clock \in Nat /\ startedAt \in Nat
      /\ Booked \in Nat
  BY RoomAssumption DEF RoomTypeOK, Routes
<1>2. CASE startedAt # 0
  BY <1>1, <1>2, EntryStamped DEF RoutesInTime, RouteInTime, Deadline
<1>3. CASE startedAt = 0
  BY <1>1, <1>3, EntryStamped DEF RoutesInTime, RouteInTime, Deadline
<1>4. QED BY <1>2, <1>3

LEMMA InstantStampKeeps == ASSUME RoomIInv, NEW p \in People, stampSessionJoin(p) PROVE RoomIInv'
<1> USE DEF stampSessionJoin, RoomIInv
<1>1. CASE status # "in_progress"
  <2>1. /\ route' \in [People -> Routes] /\ route'[p].at = "idle"
        /\ \A q \in People : q # p => route'[q] = route[q]
    BY <1>1 DEF RoomTypeOK, Routes, Idle
  <2>2. RoomTypeOK' /\ NotYetBooked' /\ RoutesInTime'
    BY <1>1, <2>1 DEF RoomTypeOK, NotYetBooked, RoutesInTime, RouteInTime, Deadline
  <2>3. StartedWhenBothCame' /\ EnteredHaveJoined' /\ OutcomeStands' /\ EndedInTime' /\ TokensInTime' /\ BookedFirst'
    BY <1>1 DEF StartedWhenBothCame, EnteredHaveJoined, OutcomeStands, EndedInTime, TokensInTime,
       BookedFirst, TokensEndWithTheSession, Deadline, EndsAt, Outcomes
  <2>4. QED BY <2>2, <2>3
<1>2. CASE status = "in_progress"
  <2>1. joinStampAssignments(p) /\ route[p].at = "checked" /\ kind = "instant"
    BY <1>2
  <2>2. startedAt' \in Nat /\ joinedAt' \in [People -> Nat]
    BY <2>1, EntryStamped
  <2>3. /\ route'[p] = [at |-> "stamped", since |-> route[p].since, start |-> startedAt']
        /\ \A q \in People : q # p => route'[q] = route[q]
    BY <1>2 DEF RoomTypeOK
  <2>4. /\ route' \in [People -> Routes] /\ route'[p].at = "stamped"
        /\ route'[p].start = startedAt' /\ route'[p].since = route[p].since
    BY <1>2, <2>2, <2>3 DEF RoomTypeOK, Routes
  <2>5. RoomTypeOK'
    BY <2>2, <2>4 DEF RoomTypeOK
  <2>6. /\ NotYetBooked' /\ StartedWhenBothCame' /\ EnteredHaveJoined' /\ OutcomeStands'
        /\ EndedInTime' /\ TokensInTime' /\ BookedFirst'
    <3>1. entry' \in [People -> BOOLEAN] /\ \A q \in People : entry'[q] => entry[q]
      BY DEF RoomTypeOK
    <3>2. QED BY <1>2, <2>1, <3>1, StampWrites
  <2>7. RoutesInTime'
    <3> SUFFICES ASSUME NEW q \in People PROVE RouteInTime(q)'
      BY DEF RoutesInTime
    <3>2. CASE q # p
      BY <2>1, <2>3, <3>2, StampKeepsRoutes
    <3>3. CASE q = p
      <4>1. /\ route[p].since \in Nat /\ clock \in Nat /\ Booked \in Nat /\ startedAt \in Nat
            /\ route[p].since <= clock /\ clock <= route[p].since + MaxLatency
            /\ startedAt # 0 => route[p].since <= startedAt + Booked
        BY <2>1, RoomAssumption DEF RoomTypeOK, Routes, RoutesInTime, RouteInTime, Deadline
      <4>2. joinedAt'[p] # 0 /\ startedAt' \in {startedAt, 0, clock}
            /\ (startedAt # 0 => startedAt' = startedAt)
        BY <2>1, EntryStamped
      <4>3. startedAt' # 0 => route'[p].since <= startedAt' + Booked
        BY <2>4, <4>1, <4>2
      <4>4. QED BY <2>1, <2>4, <3>3, <4>1, <4>2, <4>3 DEF RouteInTime, Deadline
    <3>4. QED BY <3>2, <3>3
  <2>8. QED BY <2>5, <2>6, <2>7
<1>3. QED BY <1>1, <1>2

LEMMA ScheduledStampKeeps ==
  ASSUME RoomIInv, NEW p \in People, stampScheduledSessionJoin(p) PROVE RoomIInv'
<1> USE DEF stampScheduledSessionJoin, RoomIInv
<1>1. /\ route' \in [People -> Routes] /\ route'[p].at = "idle"
      /\ \A q \in People : q # p => route'[q] = route[q]
  BY DEF RoomTypeOK, Routes, Idle
<1>2. CASE status \notin {"confirmed", "in_progress"}
  <2>1. RoomTypeOK' /\ NotYetBooked' /\ RoutesInTime'
    BY <1>1, <1>2 DEF RoomTypeOK, NotYetBooked, RoutesInTime, RouteInTime, Deadline
  <2>2. StartedWhenBothCame' /\ EnteredHaveJoined' /\ OutcomeStands' /\ EndedInTime' /\ TokensInTime' /\ BookedFirst'
    BY <1>2 DEF StartedWhenBothCame, EnteredHaveJoined, OutcomeStands, EndedInTime, TokensInTime,
       BookedFirst, TokensEndWithTheSession, Deadline, EndsAt, Outcomes
  <2>3. QED BY <2>1, <2>2
<1>3. CASE status \in {"confirmed", "in_progress"}
  <2>1. joinStampAssignments(p) /\ status' \in {"confirmed", "in_progress"} /\ kind = "scheduled"
    BY <1>3
  <2>2. entry' \in [People -> BOOLEAN] /\ \A q \in People : entry'[q] => entry[q] \/ q = p
    BY <1>3 DEF RoomTypeOK
  <2>3. RoomTypeOK'
    BY <1>1, <2>1, <2>2, EntryStamped DEF RoomTypeOK
  <2>4. /\ NotYetBooked' /\ StartedWhenBothCame' /\ EnteredHaveJoined' /\ OutcomeStands'
        /\ EndedInTime' /\ TokensInTime' /\ BookedFirst'
    BY <1>3, <2>1, <2>2, StampWrites
  <2>5. RoutesInTime'
    <3> SUFFICES ASSUME NEW q \in People PROVE RouteInTime(q)'
      BY DEF RoutesInTime
    <3>1. CASE q # p
      BY <1>1, <2>1, <3>1, StampKeepsRoutes
    <3>2. CASE q = p
      BY <1>1, <3>2 DEF RouteInTime
    <3>3. QED BY <3>1, <3>2
  <2>6. QED BY <2>3, <2>4, <2>5
<1>4. QED BY <1>2, <1>3

(* How long a token may last, before the start and after it. *)
LEMMA TokenLifetime ==
  ASSUME RoomTypeOK, NEW s \in Nat
  PROVE  /\ clock + sessionTokenLifetime(s) \in Nat
         /\ s = 0 => clock + sessionTokenLifetime(s) <= clock + Booked
         /\ s # 0 => \/ clock + sessionTokenLifetime(s) <= s + Booked + TokenGrace
                     \/ clock + sessionTokenLifetime(s) <= clock + TokenGrace
<1>1. /\ clock \in Nat /\ Booked \in Nat /\ TokenCap \in Nat /\ TokenGrace \in Nat
  BY RoomAssumption DEF RoomTypeOK
<1>2. Left(s) \in Nat /\ (clock + Left(s) = s + Booked \/ Left(s) = 0)
  BY <1>1 DEF Left
<1>3. \A n \in Nat : AtMost(n, TokenCap) \in Nat /\ AtMost(n, TokenCap) <= n
  BY <1>1 DEF AtMost
<1>4. CASE s = 0
  BY <1>1, <1>3, <1>4 DEF sessionTokenLifetime
<1>5. CASE s # 0
  <2>1. sessionTokenLifetime(s) \in Nat /\ sessionTokenLifetime(s) <= Left(s) + TokenGrace
    BY <1>1, <1>2, <1>3, <1>5 DEF sessionTokenLifetime
  <2>2. QED BY <1>1, <1>2, <1>5, <2>1
<1>6. QED BY <1>4, <1>5

LEMMA MintKeeps == ASSUME RoomIInv, NEW p \in People, mintToken(p) PROVE RoomIInv'
<1> USE DEF mintToken, RoomIInv
<1>1. /\ route' \in [People -> Routes] /\ route'[p].at = "idle"
      /\ \A q \in People : q # p => route'[q] = route[q]
  BY DEF RoomTypeOK, Routes, Idle
<1>2. /\ kind = "instant" /\ joinedAt[p] # 0 /\ route[p].start \in Nat /\ route[p].since \in Nat
      /\ route[p].since <= clock /\ clock <= route[p].since + MaxLatency
      /\ startedAt # 0 => route[p].since <= Deadline
      /\ route[p].start = startedAt \/ (route[p].start = 0 /\ route[p].since <= startedAt)
  BY DEF RoutesInTime, RouteInTime, RoomTypeOK, Routes
<1>3. /\ clock + sessionTokenLifetime(route[p].start) \in Nat
      /\ startedAt = 0 => clock + sessionTokenLifetime(route[p].start) <= clock + Booked
      /\ startedAt # 0 => clock + sessionTokenLifetime(route[p].start) <= Deadline + TokenGrace + MaxLatency
  <2> DEFINE end == clock + sessionTokenLifetime(route[p].start)
  <2>1. /\ end \in Nat
        /\ route[p].start = 0 => end <= clock + Booked
        /\ route[p].start # 0 => end <= route[p].start + Booked + TokenGrace \/ end <= clock + TokenGrace
    BY <1>2, TokenLifetime
  <2>2. /\ clock \in Nat /\ startedAt \in Nat /\ Booked \in Nat /\ TokenGrace \in Nat /\ MaxLatency \in Nat
    BY RoomAssumption DEF RoomTypeOK
  <2> SUFFICES /\ end \in Nat /\ (startedAt = 0 => end <= clock + Booked)
               /\ startedAt # 0 => end <= Deadline + TokenGrace + MaxLatency
    OBVIOUS
  <2> HIDE DEF end
  <2>3. CASE startedAt = 0
    BY <1>2, <2>1, <2>2, <2>3
  <2>4. CASE startedAt # 0 /\ route[p].start = 0
    BY <1>2, <2>1, <2>2, <2>4 DEF Deadline
  <2>5. CASE startedAt # 0 /\ route[p].start = startedAt
    BY <1>2, <2>1, <2>2, <2>5 DEF Deadline
  <2>6. QED BY <1>2, <2>3, <2>4, <2>5
<1>4. /\ expiry' \in [People -> Nat] /\ entry' \in [People -> BOOLEAN]
      /\ \A q \in People : expiry'[q] = expiry[q]
                           \/ expiry'[q] = clock + sessionTokenLifetime(route[p].start)
      /\ \A q \in People : entry'[q] => entry[q] \/ q = p
  BY <1>3 DEF RoomTypeOK
<1>5. RoomTypeOK' /\ NotYetBooked' /\ EnteredHaveJoined' /\ RoutesInTime'
  BY <1>1, <1>2, <1>4 DEF RoomTypeOK, NotYetBooked, EnteredHaveJoined, RoutesInTime, RouteInTime, Deadline
<1>6. TokensInTime'
  BY <1>3, <1>4 DEF TokensInTime, TokensEndWithTheSession, Deadline
<1>7. StartedWhenBothCame' /\ OutcomeStands' /\ EndedInTime' /\ BookedFirst'
  BY DEF StartedWhenBothCame, OutcomeStands, EndedInTime, BookedFirst, Deadline, EndsAt, Outcomes
<1>8. QED BY <1>5, <1>6, <1>7

(* A verdict leaves the joins, the routes and the tokens alone. *)
LEMMA VerdictKeeps ==
  ASSUME RoomIInv, kind # "none", status' \in Outcomes \cup {"cancelled"}, endedAt' \in Nat,
         forced' \in BOOLEAN, OutcomeStands', EndedInTime',
         UNCHANGED <<kind, clock, createdAt, joinedAt, startedAt, route, entry, expiry>>
  PROVE  RoomIInv'
<1> USE DEF RoomIInv
<1>1. RoomTypeOK' /\ NotYetBooked' /\ EnteredHaveJoined' /\ BookedFirst'
  BY DEF RoomTypeOK, NotYetBooked, EnteredHaveJoined, BookedFirst, Outcomes
<1>2. StartedWhenBothCame' /\ RoutesInTime' /\ TokensInTime'
  BY DEF StartedWhenBothCame, RoutesInTime, RouteInTime, TokensInTime, TokensEndWithTheSession, Deadline
<1>3. QED BY <1>1, <1>2

(* A closer finds a room that nobody closed or completed. *)
LEMMA CloseKeeps ==
  ASSUME RoomIInv, NEW as \in Outcomes, NEW at \in Nat \ {0}, Close(as, at), kind # "none",
         status \in {"confirmed", "in_progress"}, OutcomeStands', ~forced,
         kind = "scheduled" => at = EndsAt,
         kind = "instant" => /\ createdAt <= at /\ at <= clock
                             /\ IF startedAt # 0 THEN startedAt <= at /\ at <= Deadline
                                                 ELSE createdAt + UnmetGrace <= at
  PROVE  RoomIInv'
<1>1. StartsAt <= EndsAt
  BY RoomAssumption DEF EndsAt
<1>2. EndsAt \in Nat
  BY RoomAssumption DEF EndsAt
<1>3. /\ status' = as /\ endedAt' = at /\ Deadline' = Deadline /\ EndsAt' = EndsAt
      /\ UNCHANGED <<kind, clock, createdAt, joinedAt, startedAt, forced, route, entry, expiry>>
  BY DEF Close, Deadline, EndsAt
<1>4. status' \in Outcomes /\ endedAt' # 0 /\ ~forced' /\ kind' = kind /\ kind # "none"
  BY <1>3
<1>5. kind' = "scheduled" => StartsAt <= endedAt' /\ endedAt' <= EndsAt' /\ endedAt' = EndsAt'
  BY <1>1, <1>2, <1>3
<1>6. kind' = "instant" =>
         /\ IF startedAt' # 0 THEN startedAt' <= endedAt' /\ endedAt' <= Deadline'
                              ELSE createdAt' + UnmetGrace <= endedAt'
         /\ createdAt' <= endedAt' /\ endedAt' <= clock'
  BY <1>3
<1>7. EndedInTime'
  BY <1>4, <1>5, <1>6 DEF EndedInTime
<1>8. QED BY <1>3, <1>7, VerdictKeeps DEF RoomIInv, RoomTypeOK

LEMMA EndKeeps == ASSUME RoomIInv, endInstantSession PROVE RoomIInv'
<1> DEFINE at == IF Elapsed THEN Deadline ELSE clock
<1>1. /\ kind = "instant" /\ status = "in_progress" /\ startedAt # 0 /\ Close("completed", at)
      /\ startedAt \in Nat /\ clock \in Nat \ {0} /\ Booked \in Nat \ {0} /\ startedAt <= clock
      /\ createdAt \in Nat /\ createdAt <= startedAt
  BY RoomAssumption DEF endInstantSession, RoomIInv, RoomTypeOK, StartedWhenBothCame, BookedFirst
<1>2. at \in Nat \ {0} /\ startedAt <= at /\ at <= Deadline /\ at <= clock /\ createdAt <= at
  BY <1>1 DEF Elapsed, Deadline
<1> HIDE DEF at
<1>3. OutcomeStands' /\ ~forced
  BY <1>1 DEF OutcomeStands, Close, RoomIInv, EndedInTime
<1>4. QED BY <1>1, <1>2, <1>3, CloseKeeps DEF Outcomes

(* What the classification says is so while nobody has closed the room. *)
LEMMA Classified == ASSUME StartedWhenBothCame PROVE
    /\ classifiedStatus \in Outcomes
    /\ classifiedStatus = "no_show_tutor" => joinedAt["tutor"] = 0
    /\ classifiedStatus = "no_show_student" => joinedAt["student"] = 0 /\ joinedAt["tutor"] # 0
    /\ classifiedStatus = "completed" => startedAt # 0
  BY DEF StartedWhenBothCame, classifiedStatus, Outcomes, People

LEMMA UnmetKeeps == ASSUME RoomIInv, closeUnmetInstantSession PROVE RoomIInv'
<1>1. /\ kind = "instant" /\ status = "in_progress" /\ startedAt = 0
      /\ Close(classifiedStatus, clock) /\ clock \in Nat \ {0}
      /\ createdAt + UnmetGrace <= clock /\ createdAt <= clock
  BY DEF closeUnmetInstantSession, UnmetDue, RoomIInv, RoomTypeOK, BookedFirst
<1>2. OutcomeStands' /\ ~forced
  BY <1>1, Classified DEF OutcomeStands, Close, RoomIInv, EndedInTime
<1>3. QED BY <1>1, <1>2, Classified, CloseKeeps DEF RoomIInv, RoomTypeOK

LEMMA SweepKeeps == ASSUME RoomIInv, sweepElapsedScheduledSessions PROVE RoomIInv'
<1>1. /\ kind = "scheduled" /\ status \in {"confirmed", "in_progress"}
      /\ Close(classifiedStatus, EndsAt) /\ EndsAt \in Nat \ {0}
  BY RoomAssumption DEF sweepElapsedScheduledSessions, EndsAt
<1>2. OutcomeStands' /\ ~forced
  BY <1>1, Classified DEF OutcomeStands, Close, RoomIInv, EndedInTime
<1>3. QED BY <1>1, <1>2, Classified, CloseKeeps DEF RoomIInv

LEMMA CancelKeeps == ASSUME RoomIInv, applyForceCancel PROVE RoomIInv'
<1>1. /\ kind # "none" /\ status' = "cancelled" /\ UNCHANGED <<endedAt, forced>>
      /\ UNCHANGED <<kind, clock, createdAt, joinedAt, startedAt, route, entry, expiry>>
  BY DEF applyForceCancel, RoomIInv, NotYetBooked, Outcomes
<1>2. OutcomeStands'
  BY <1>1 DEF OutcomeStands
<1>3. EndedInTime'
  BY <1>1 DEF RoomIInv, EndedInTime, Outcomes, Deadline, EndsAt
<1>4. QED BY <1>1, <1>2, <1>3, VerdictKeeps DEF RoomIInv, RoomTypeOK

(* An admin's completion dates what nobody closed by its moment, and a      *)
(* lesson at its end if that has passed.                                    *)
LEMMA CompleteKeeps == ASSUME RoomIInv, applyForceComplete PROVE RoomIInv'
<1>1. /\ kind \in {"instant", "scheduled"} /\ status' = "completed" /\ forced' = TRUE
      /\ UNCHANGED <<kind, clock, createdAt, joinedAt, startedAt, route, entry, expiry>>
  BY DEF applyForceComplete, RoomIInv, NotYetBooked, RoomTypeOK
<1>2. /\ clock \in Nat \ {0} /\ createdAt \in Nat /\ createdAt <= clock /\ endedAt \in Nat
      /\ StartsAt \in Nat \ {0} /\ EndsAt \in Nat /\ StartsAt <= EndsAt
  BY RoomAssumption DEF RoomIInv, RoomTypeOK, BookedFirst, EndsAt
<1>3. /\ endedAt' \in Nat \ {0}
      /\ kind = "scheduled" => StartsAt <= endedAt' /\ endedAt' <= EndsAt
      /\ kind = "instant" => createdAt <= endedAt' /\ endedAt' <= clock
  <2>1. CASE endedAt # 0
    BY <1>2, <2>1 DEF applyForceComplete, RoomIInv, EndedInTime
  <2>2. CASE endedAt = 0
    BY <1>1, <1>2, <2>2 DEF applyForceComplete
  <2>3. QED BY <2>1, <2>2
<1>4. OutcomeStands'
  BY <1>1 DEF OutcomeStands
<1>5. EndedInTime'
  BY <1>1, <1>3 DEF EndedInTime, Outcomes, EndsAt
<1>6. QED BY <1>1, <1>3, <1>4, <1>5, VerdictKeeps DEF Outcomes

LEMMA TickKeeps == ASSUME RoomIInv, RoomTick PROVE RoomIInv'
<1> USE DEF RoomTick, RoomIInv
<1>1. RoomTypeOK' /\ NotYetBooked' /\ EnteredHaveJoined' /\ OutcomeStands'
  BY DEF RoomTypeOK, NotYetBooked, EnteredHaveJoined, OutcomeStands, Deadline
<1>2. StartedWhenBothCame' /\ BookedFirst' /\ EndedInTime'
  BY DEF StartedWhenBothCame, BookedFirst, RoomTypeOK, EndedInTime, Outcomes, Deadline, EndsAt
<1>3. RoutesInTime'
  <2> SUFFICES ASSUME NEW p \in People, route[p].at # "idle" PROVE RouteInTime(p)'
    BY DEF RoutesInTime, RouteInTime
  <2>1. clock < route[p].since + MaxLatency /\ route[p].since \in Nat /\ clock \in Nat /\ MaxLatency \in Nat
    BY RoomAssumption DEF RoomTypeOK, Routes, Idle
  <2>2. QED BY <2>1 DEF RoutesInTime, RouteInTime, Deadline
<1>4. TokensInTime'
  BY RoomAssumption DEF TokensInTime, TokensEndWithTheSession, Deadline, RoomTypeOK
<1>5. QED BY <1>1, <1>2, <1>3, <1>4

LEMMA StillKeeps == RoomIInv /\ UNCHANGED roomVars => RoomIInv'
  BY DEF roomVars, RoomIInv, RoomTypeOK, NotYetBooked, StartedWhenBothCame, RoutesInTime, RouteInTime,
     EnteredHaveJoined, OutcomeStands, EndedInTime, TokensInTime, TokensEndWithTheSession, BookedFirst,
     Deadline, EndsAt, Outcomes

LEMMA RoomStep == RoomIInv /\ [RoomNext]_roomVars => RoomIInv'
<1> SUFFICES ASSUME RoomIInv, RoomNext PROVE RoomIInv'
  BY StillKeeps
<1>1. ASSUME NEW type \in {"instant", "scheduled"}, insertBooking(type) PROVE RoomIInv'
  BY <1>1, BookingKeeps
<1>2. ASSUME NEW p \in People, Join(p) PROVE RoomIInv'
  BY <1>2, EnterKeeps, LaunchKeeps, InstantStampKeeps, ScheduledStampKeeps, MintKeeps DEF Join
<1>3. CASE endInstantSession \/ completeSessions
  BY <1>3, EndKeeps, UnmetKeeps, SweepKeeps DEF completeSessions, endElapsedInstantSession
<1>4. CASE applyForceCancel \/ applyForceComplete \/ RoomTick
  BY <1>4, CancelKeeps, CompleteKeeps, TickKeeps
<1>5. QED BY <1>1, <1>2, <1>3, <1>4 DEF RoomNext

(* The inductive invariant of a room and the routes into it. *)
THEOREM RoomSafe == RoomSpec => []RoomIInv
  BY RoomStart, RoomStep, PTL DEF RoomSpec

(* An outcome is of what was stamped. *)
LEMMA AbsenceIsTrue == RoomIInv => NoShowsWereAbsent
  BY DEF RoomIInv, EnteredHaveJoined, OutcomeStands, NoShowsWereAbsent, People

(* Nobody who was let in is recorded as absent, and a completed session had *)
(* both unless an admin force-completed it, whichever closer wins the row   *)
(* while joins are under way.                                               *)
THEOREM AbsentWereAbsent == RoomSpec => []NoShowsWereAbsent
BY AbsenceIsTrue, RoomSafe, PTL

(* A token is over with its session, but for the grace and one latency.     *)
THEOREM TokensAreBounded == RoomSpec => []TokensEndWithTheSession
<1>1. RoomIInv => TokensEndWithTheSession
  BY DEF RoomIInv, TokensInTime
<1>2. QED BY <1>1, RoomSafe, PTL

(* A session started when both had come; its end is dated in its time, or,  *)
(* for a session an admin completed, by that moment at the latest.          *)
THEOREM DatedInTime == RoomSpec => [](StartedWhenBothCame /\ EndedInTime)
<1>1. RoomIInv => StartedWhenBothCame /\ EndedInTime
  BY DEF RoomIInv
<1>2. QED BY <1>1, RoomSafe, PTL
=============================================================================
