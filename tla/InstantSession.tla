--------------------------- MODULE InstantSession ---------------------------
(***************************************************************************)
(* The instant handshake of one tutor, with the tutor's presence and       *)
(* broadcasts: everything that writes the tutor's profile row, the         *)
(* requests sent to the tutor, the instant bookings they become, and the   *)
(* broadcasts. A statement or a transaction is one step; handlers made of  *)
(* several are several steps, and the process may die between two.         *)
(***************************************************************************)
EXTENDS Naturals

CONSTANTS
    Students,
    Requests,     \* calls of createSessionRequest
    From,         \* From[r]: the student who sends r
    Price,        \* Price[r]: the credits quoted to the student
    Broadcasts,
    Calls,        \* calls of acceptSessionRequest
    Nothing,      \* a call at rest
    MaxBalance,   \* bound: the credits a student ever has
    MaxCrashes    \* bound: how often the process dies between two statements

ASSUME InstantAssumption ==
    /\ From \in [Requests -> Students]
    /\ Price \in [Requests -> Nat \ {0}]
    /\ MaxBalance \in Nat /\ MaxCrashes \in Nat
    /\ Nothing \notin Requests

VARIABLES
    live, mode,   \* tutor_profiles.is_live, live_mode
    fresh,        \* approved and last seen within the window of live_tutors
    broadcast,    \* broadcast[b]: broadcasts.status
    request,      \* request[r]: its row's status, or how far its call has come
    due,          \* due[r]: expires_at is past
    session,      \* session[r]: the instant booking r became
    balance,      \* balance[s]: a student's wallet
    charged,      \* charged[r]: booking_debit rows of r's booking
    call,         \* call[c]: where an accept stands, and on which request
    sweep,        \* where the sweep-presence job stands
    swept,        \* whether its first statement cleared the tutor
    crashes

tutor == <<live, mode, fresh>>
rows == <<request, due, session>>
money == <<balance, charged>>
job == <<sweep, swept>>
vars == <<tutor, broadcast, rows, money, call, job, crashes>>

Unsent == {"new", "checked", "quoted", "refused"}
Answers == {"accepted", "declined", "expired", "failed_payment"}
CallSteps == [on : Requests \cup {Nothing}, at : {"rest", "settled", "unpaid"}, late : BOOLEAN]
AtRest == [on |-> Nothing, at |-> "rest", late |-> FALSE]

Init ==
    /\ live = FALSE /\ mode = "none" /\ fresh = FALSE
    /\ broadcast = [b \in Broadcasts |-> "none"]
    /\ request = [r \in Requests |-> "new"]
    /\ due = [r \in Requests |-> FALSE]
    /\ session = [r \in Requests |-> "none"]
    /\ balance \in [Students -> 0..MaxBalance]
    /\ charged = [r \in Requests |-> 0]
    /\ call = [c \in Calls |-> AtRest]
    /\ sweep = "idle" /\ swept = FALSE
    /\ crashes = 0

(* A row of the live_tutors view, and one of a host who is on stage. *)
InView == live /\ fresh
HostFresh == InView /\ mode = "broadcast"

Pending == {r \in Requests : request[r] = "pending"}
Answered(R, answer) == [r \in Requests |-> IF r \in R THEN answer ELSE request[r]]

(***************************************************************************)
(* Presence                                                                *)
(***************************************************************************)
(* The tutor's toggle; the WHERE clause refuses it during a broadcast. *)
setTutorLive(on) ==
    /\ mode # "broadcast"
    /\ live' = on
    /\ mode' = IF on THEN "instant" ELSE "none"
    /\ fresh' = (on \/ fresh)
    /\ UNCHANGED <<broadcast, rows, money, call, job, crashes>>

(* A heartbeat says the tab is open; it never makes the tutor live. *)
touchPresence ==
    /\ ~fresh /\ fresh' = TRUE
    /\ UNCHANGED <<live, mode, broadcast, rows, money, call, job, crashes>>

(* Two minutes without a heartbeat, or the approval is revoked. *)
GoStale ==
    /\ fresh /\ fresh' = FALSE
    /\ UNCHANGED <<live, mode, broadcast, rows, money, call, job, crashes>>

(* An admin suspends the tutor's account, who goes off the air at once,     *)
(* whatever the mode; broadcast rows and waiting requests are left to the   *)
(* jobs. An unsuspension touches nothing here, so it may follow at once.    *)
applySuspension ==
    /\ live /\ live' = FALSE /\ mode' = "none"
    /\ UNCHANGED <<fresh, broadcast, rows, money, call, job, crashes>>

(***************************************************************************)
(* The student's request                                                   *)
(***************************************************************************)
(* getInstantTutorInfo: the tutor is read once, at the start of the call. *)
CheckTutor(r) ==
    /\ request[r] = "new"
    /\ \/ /\ InView /\ mode # "broadcast"
          /\ request' = [request EXCEPT ![r] = "checked"]
       \/ /\ ~InView \/ mode = "broadcast"
          /\ request' = [request EXCEPT ![r] = "refused"]
    /\ UNCHANGED <<tutor, broadcast, due, session, money, call, job, crashes>>

Own(r) == {q \in Pending : From[q] = From[r]}
OwnDue(r) == {q \in Own(r) : due[q]}

(* The student's overdue requests are expired; another one waiting, or too *)
(* few credits for the quote, refuse the call.                             *)
CheckStudent(r) ==
    /\ request[r] = "checked"
    /\ LET fine == Own(r) = OwnDue(r) /\ balance[From[r]] >= Price[r] IN
       request' = [Answered(OwnDue(r), "expired") EXCEPT ![r] = IF fine THEN "quoted" ELSE "refused"]
    /\ UNCHANGED <<tutor, broadcast, due, session, money, call, job, crashes>>

(* The insert, or PendingRequestExistsError of the one-pending index. *)
insertSessionRequest(r) ==
    /\ request[r] = "quoted"
    /\ request' = [request EXCEPT ![r] = IF Own(r) = {} THEN "pending" ELSE "refused"]
    /\ UNCHANGED <<tutor, broadcast, due, session, money, call, job, crashes>>

(* The request's time runs out. *)
Lapse(r) ==
    /\ request[r] = "pending" /\ ~due[r]
    /\ due' = [due EXCEPT ![r] = TRUE]
    /\ UNCHANGED <<tutor, broadcast, request, session, money, call, job, crashes>>

(* The student's credits move elsewhere: a top-up, a scheduled booking. *)
MoveCredits(s) == \E n \in 0..MaxBalance :
    /\ balance' = [balance EXCEPT ![s] = n]
    /\ UNCHANGED <<tutor, broadcast, rows, charged, call, job, crashes>>

(***************************************************************************)
(* The answers                                                             *)
(***************************************************************************)
(* Mutant of declineSessionRequest: the WHERE clause forgets the status. *)
declineSessionRequestAnyStatus(r) ==
    /\ request[r] \notin Unsent \cup {"declined"}
    /\ request' = [request EXCEPT ![r] = "declined"]
    /\ UNCHANGED <<tutor, broadcast, due, session, money, call, job, crashes>>

declineSessionRequest(r) ==
    /\ request[r] = "pending"
    /\ request' = [request EXCEPT ![r] = "declined"]
    /\ UNCHANGED <<tutor, broadcast, due, session, money, call, job, crashes>>

(* Mutant of expirePendingRequests: only tutors still in the view are tidied. *)
expirePendingRequestsInView ==
    /\ InView
    /\ \E r \in Pending : due[r]
    /\ request' = Answered({r \in Pending : due[r]}, "expired")
    /\ UNCHANGED <<tutor, broadcast, due, session, money, call, job, crashes>>

(* The expire-requests job. *)
expirePendingRequests ==
    /\ \E r \in Pending : due[r]
    /\ request' = Answered({r \in Pending : due[r]}, "expired")
    /\ UNCHANGED <<tutor, broadcast, due, session, money, call, job, crashes>>

(* closeUnmetInstantSessions: rooms whose five minutes to meet are over. *)
ClosedUnmet == [r \in Requests |-> IF session[r] = "overdue" THEN "over" ELSE session[r]]

(* An accept settles the tutor's overdue rooms, then starts its          *)
(* transaction, whose now() decides whether the request is late.         *)
AcceptCall(c, r) ==
    /\ call[c] = AtRest
    /\ request[r] \notin Unsent
    /\ session' = ClosedUnmet
    /\ call' = [call EXCEPT ![c] = [on |-> r, at |-> "settled", late |-> due[r]]]
    /\ UNCHANGED <<tutor, broadcast, request, due, money, job, crashes>>

InRoom == {r \in Requests : session[r] \in {"unmet", "overdue", "met"}}

(* The accept transaction, holding the tutor's row and the request's. It *)
(* refuses a request that is answered, a tutor on stage or in a room,    *)
(* and, at any time, one whose scheduled booking collides.               *)
RefuseAccept(c) ==
    /\ call[c].at = "settled"
    /\ request[call[c].on] = "pending" => ~call[c].late
    /\ call' = [call EXCEPT ![c] = AtRest]
    /\ UNCHANGED <<tutor, broadcast, rows, money, job, crashes>>

ExpireLate(c) ==
    /\ call[c].at = "settled" /\ call[c].late
    /\ request[call[c].on] = "pending"
    /\ request' = [request EXCEPT ![call[c].on] = "expired"]
    /\ call' = [call EXCEPT ![c] = AtRest]
    /\ UNCHANGED <<tutor, broadcast, due, session, money, job, crashes>>

(* Mutant of MayAccept: a tutor in a room may accept. *)
MayAcceptInRoom(c) ==
    /\ call[c].at = "settled" /\ ~call[c].late
    /\ request[call[c].on] = "pending"
    /\ mode # "broadcast"

(* Mutant of MayAccept: the request read before the lock, not under it. *)
MayAcceptStale(c) ==
    /\ call[c].at = "settled" /\ ~call[c].late
    /\ mode # "broadcast"
    /\ InRoom = {}

MayAccept(c) ==
    /\ call[c].at = "settled" /\ ~call[c].late
    /\ request[call[c].on] = "pending"
    /\ mode # "broadcast"
    /\ InRoom = {}

acceptSessionRequest(c, r, s) ==
    /\ MayAccept(c) /\ r = call[c].on /\ s = From[r]
    /\ balance[s] >= Price[r]
    /\ balance' = [balance EXCEPT ![s] = @ - Price[r]]
    /\ charged' = [charged EXCEPT ![r] = @ + 1]
    /\ session' = [session EXCEPT ![r] = "unmet"]
    /\ request' = [Answered(Pending, "declined") EXCEPT ![r] = "accepted"]
    /\ call' = [call EXCEPT ![c] = AtRest]
    /\ UNCHANGED <<tutor, broadcast, due, job, crashes>>

(* The debit fails: the transaction is rolled back, and a statement of its *)
(* own records why, unless the request was answered in between.            *)
FailDebit(c) ==
    /\ MayAccept(c)
    /\ balance[From[call[c].on]] < Price[call[c].on]
    /\ call' = [call EXCEPT ![c].at = "unpaid"]
    /\ UNCHANGED <<tutor, broadcast, rows, money, job, crashes>>

markFailedPayment(c) ==
    /\ call[c].at = "unpaid"
    /\ request' = Answered({call[c].on} \cap Pending, "failed_payment")
    /\ call' = [call EXCEPT ![c] = AtRest]
    /\ UNCHANGED <<tutor, broadcast, due, session, money, job, crashes>>

(***************************************************************************)
(* The room, as far as the handshake sees it (SessionRoom has the rest)    *)
(***************************************************************************)
Meet(r) ==
    /\ session[r] \in {"unmet", "overdue"}
    /\ session' = [session EXCEPT ![r] = "met"]
    /\ UNCHANGED <<tutor, broadcast, request, due, money, call, job, crashes>>

GraceEnds(r) ==
    /\ session[r] = "unmet"
    /\ session' = [session EXCEPT ![r] = "overdue"]
    /\ UNCHANGED <<tutor, broadcast, request, due, money, call, job, crashes>>

RoomEnds(r) ==
    /\ session[r] = "met"
    /\ session' = [session EXCEPT ![r] = "over"]
    /\ UNCHANGED <<tutor, broadcast, request, due, money, call, job, crashes>>

(* An admin cancels or completes a room, met or not; what a cancel gives    *)
(* back is one of MoveCredits.                                             *)
ForceClose(r) ==
    /\ session[r] \in {"unmet", "overdue", "met"}
    /\ session' = [session EXCEPT ![r] = "over"]
    /\ UNCHANGED <<tutor, broadcast, request, due, money, call, job, crashes>>

closeUnmetInstantSessions ==
    /\ session # ClosedUnmet /\ session' = ClosedUnmet
    /\ UNCHANGED <<tutor, broadcast, request, due, money, call, job, crashes>>

(***************************************************************************)
(* Broadcasts                                                              *)
(***************************************************************************)
LiveRows == {b \in Broadcasts : broadcast[b] = "live"}

(* Mutant of startBroadcast: no look at the bookings in progress. *)
startBroadcastInRoom(b) ==
    /\ broadcast[b] = "none"
    /\ LiveRows = {}
    /\ broadcast' = [broadcast EXCEPT ![b] = "live"]
    /\ live' = TRUE /\ mode' = "broadcast" /\ fresh' = TRUE
    /\ request' = Answered(Pending, "expired")
    /\ UNCHANGED <<due, session, money, call, job, crashes>>

(* One transaction under the tutor's row. A scheduled lesson in progress   *)
(* may refuse it at any time.                                              *)
startBroadcast(b) ==
    /\ broadcast[b] = "none"
    /\ LiveRows = {} /\ InRoom = {}
    /\ broadcast' = [broadcast EXCEPT ![b] = "live"]
    /\ live' = TRUE /\ mode' = "broadcast" /\ fresh' = TRUE
    /\ request' = Answered(Pending, "expired")
    /\ UNCHANGED <<due, session, money, call, job, crashes>>

(* A broadcast that is over already is left alone, the tutor's row too. *)
endBroadcast(b) ==
    /\ broadcast[b] = "live"
    /\ broadcast' = [broadcast EXCEPT ![b] = "ended"]
    /\ live' = (live /\ mode # "broadcast")
    /\ mode' = IF mode = "broadcast" THEN "none" ELSE mode
    /\ UNCHANGED <<fresh, rows, money, call, job, crashes>>

(***************************************************************************)
(* The sweep-presence job: three statements, each with its own reading of  *)
(* live_tutors, and a process that may die between them.                   *)
(***************************************************************************)
sweepStalePresence ==
    /\ sweep = "idle" /\ sweep' = "swept"
    /\ swept' = (live /\ ~fresh)
    /\ live' = InView
    /\ mode' = IF live /\ ~fresh THEN "none" ELSE mode
    /\ UNCHANGED <<fresh, broadcast, rows, money, call, crashes>>

expirePendingRequestsForTutors ==
    /\ sweep = "swept" /\ sweep' = "expired"
    /\ request' = IF swept THEN Answered(Pending, "expired") ELSE request
    /\ swept' = FALSE
    /\ UNCHANGED <<tutor, broadcast, due, session, money, call, crashes>>

(* Mutant of endStaleBroadcasts: only the tutor this run swept. *)
endSweptBroadcasts ==
    /\ sweep = "expired" /\ sweep' = "idle"
    /\ broadcast' = [b \in Broadcasts |->
                        IF broadcast[b] = "live" /\ swept THEN "ended" ELSE broadcast[b]]
    /\ UNCHANGED <<tutor, rows, money, call, swept, crashes>>

endStaleBroadcasts ==
    /\ sweep = "expired" /\ sweep' = "idle"
    /\ broadcast' = [b \in Broadcasts |->
                        IF broadcast[b] = "live" /\ ~HostFresh THEN "ended" ELSE broadcast[b]]
    /\ UNCHANGED <<tutor, rows, money, call, swept, crashes>>

(* The process that runs an accept, or the job, dies. *)
AcceptDies(c) ==
    /\ call[c] # AtRest /\ crashes < MaxCrashes
    /\ call' = [call EXCEPT ![c] = AtRest]
    /\ crashes' = crashes + 1
    /\ UNCHANGED <<tutor, broadcast, rows, money, job>>

SweepDies ==
    /\ sweep # "idle" /\ crashes < MaxCrashes
    /\ sweep' = "idle" /\ swept' = FALSE
    /\ crashes' = crashes + 1
    /\ UNCHANGED <<tutor, broadcast, rows, money, call>>

Presence == touchPresence \/ GoStale \/ applySuspension \/ \E on \in BOOLEAN : setTutorLive(on)

Asking == \E r \in Requests :
    CheckTutor(r) \/ CheckStudent(r) \/ insertSessionRequest(r) \/ Lapse(r)

Answering ==
    \/ \E r \in Requests : declineSessionRequest(r)
    \/ expirePendingRequests
    \/ \E c \in Calls, r \in Requests : AcceptCall(c, r)
    \/ \E c \in Calls : RefuseAccept(c) \/ ExpireLate(c) \/ FailDebit(c) \/ markFailedPayment(c)
    \/ \E c \in Calls, r \in Requests, s \in Students : acceptSessionRequest(c, r, s)

Rooms ==
    \/ \E r \in Requests : Meet(r) \/ GraceEnds(r) \/ RoomEnds(r) \/ ForceClose(r)
    \/ closeUnmetInstantSessions

Stage == \E b \in Broadcasts : startBroadcast(b) \/ endBroadcast(b)

Sweep == sweepStalePresence \/ expirePendingRequestsForTutors \/ endStaleBroadcasts

Dies == SweepDies \/ \E c \in Calls : AcceptDies(c)

Next ==
    \/ Presence \/ Asking \/ Answering \/ Rooms \/ Stage \/ Sweep \/ Dies
    \/ \E s \in Students : MoveCredits(s)

Spec == Init /\ [][Next]_vars

(* The clock runs and the two jobs are called again and again. *)
FairSpec ==
    /\ Spec
    /\ \A r \in Requests : WF_vars(Lapse(r))
    /\ WF_vars(expirePendingRequests)
    /\ WF_vars(Sweep)

(***************************************************************************)
(* Properties                                                              *)
(***************************************************************************)
InstantTypeOK ==
    /\ live \in BOOLEAN /\ fresh \in BOOLEAN
    /\ mode \in {"none", "instant", "broadcast"}
    /\ broadcast \in [Broadcasts -> {"none", "live", "ended"}]
    /\ request \in [Requests -> Unsent \cup Answers \cup {"pending"}]
    /\ due \in [Requests -> BOOLEAN]
    /\ session \in [Requests -> {"none", "unmet", "overdue", "met", "over"}]
    /\ balance \in [Students -> 0..MaxBalance]
    /\ charged \in [Requests -> Nat]
    /\ call \in [Calls -> CallSteps]
    /\ sweep \in {"idle", "swept", "expired"} /\ swept \in BOOLEAN
    /\ crashes \in 0..MaxCrashes

(* A call past its first statement is about a request that was sent. *)
CallsAreAboutSentRequests == \A c \in Calls :
    call[c].at # "rest" => call[c].on \in Requests /\ request[call[c].on] \notin Unsent

(* accept.ts and service.ts lock one row for this: the tutor is never in   *)
(* two rooms, nor in a room while the profile row says the tutor is on     *)
(* stage, whatever the order of accepts, broadcast starts, toggles and     *)
(* sweeps.                                                                 *)
TutorInOnePlace ==
    /\ \A q, r \in InRoom : q = r
    /\ mode = "broadcast" => InRoom = {}

(* A student pays for a request once if it became a room, and else never:  *)
(* a failed debit, a crash before failed_payment is recorded, a second tab *)
(* that accepts or a late expiry change nothing of it.                     *)
ChargedOnceForARoom == \A r \in Requests :
    /\ charged[r] = (IF session[r] = "none" THEN 0 ELSE 1)
    /\ session[r] # "none" <=> request[r] = "accepted"

InstantIInv ==
    /\ InstantTypeOK
    /\ CallsAreAboutSentRequests
    /\ TutorInOnePlace
    /\ ChargedOnceForARoom

(* What TutorTime sees: where the tutor is, and what became of a request. *)
Place == IF mode = "broadcast" THEN "stage" ELSE IF InRoom # {} THEN "room" ELSE "free"

Deal == [r \in Requests |->
           CASE request[r] \in Unsent -> "unsent"
             [] request[r] = "pending" -> "waiting"
             [] request[r] = "accepted" -> "agreed"
             [] OTHER -> "lapsed"]

Time == INSTANCE TutorTime WITH place <- Place, deal <- Deal, paid <- charged

(* Every statement of every handler and job is a step of TutorTime or does *)
(* not show there.                                                         *)
ImplementsTutorTime == Time!Spec

(* A student's wait ends: declined, accepted, failed or expired. *)
WaitEnds == \A r \in Requests : request[r] = "pending" ~> request[r] # "pending"

(* A broadcast whose host is gone does not stay listed: it is ended by the *)
(* sweep, however often the sweep died before, or the host is back.        *)
GoneHostIsEnded == \A b \in Broadcasts :
    broadcast[b] = "live" /\ ~HostFresh ~> broadcast[b] = "ended" \/ HostFresh

(* SPEC.md 1325: the instant toggle is locked until the broadcast ends. A  *)
(* tutor who is seen in broadcast mode has a live broadcast to end.        *)
ToggleLockedOnlyOnStage == HostFresh => LiveRows # {}
=============================================================================
