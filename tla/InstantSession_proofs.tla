------------------------ MODULE InstantSession_proofs ------------------------
(***************************************************************************)
(* The tutor is in one place at a time, a student pays for a room exactly  *)
(* once, and every statement is a step of TutorTime, for any number of     *)
(* students, requests, broadcasts and tabs.                                *)
(***************************************************************************)
EXTENDS InstantSession, TLAPS

USE DEF AtRest, Unsent, Answers

(* What the bounds give the arithmetic of the invariant. *)
LEMMA Within == ASSUME NEW m \in Nat, NEW n \in 0..m PROVE
    /\ 0 \in 0..m
    /\ n < m => n + 1 \in 0..m
    /\ \A p \in Nat : n >= p => n - p \in 0..m
  OBVIOUS

LEMMA InstantInit == Init => InstantIInv
<1> SUFFICES ASSUME Init PROVE InstantIInv
  OBVIOUS
<1>1. InstantTypeOK
  <2>1. crashes \in 0..MaxCrashes
    BY InstantAssumption DEF Init
  <2>2. call \in [Calls -> CallSteps]
    BY DEF Init, CallSteps
  <2>3. QED BY <2>1, <2>2 DEF Init, InstantTypeOK
<1>2. CallsAreAboutSentRequests /\ TutorInOnePlace /\ ChargedOnceForARoom
  BY DEF Init, CallsAreAboutSentRequests, TutorInOnePlace, ChargedOnceForARoom, InRoom
<1>3. QED BY <1>1, <1>2 DEF InstantIInv

(* The steps that leave requests, rooms and money alone. *)
LEMMA PresenceKeeps == ASSUME InstantIInv, Presence PROVE InstantIInv'
  BY DEF Presence, touchPresence, GoStale, applySuspension, setTutorLive, InstantIInv, InstantTypeOK, CallSteps,
     CallsAreAboutSentRequests, TutorInOnePlace, ChargedOnceForARoom, InRoom, rows, money, job

LEMMA AskingKeeps == ASSUME InstantIInv, Asking PROVE InstantIInv'
<1> USE DEF InstantIInv, InstantTypeOK, CallsAreAboutSentRequests, TutorInOnePlace,
            ChargedOnceForARoom, InRoom, rows, money, job, tutor, CallSteps
<1>1. ASSUME NEW r \in Requests, CheckTutor(r) PROVE InstantIInv'
  BY <1>1 DEF CheckTutor
<1>2. ASSUME NEW r \in Requests, CheckStudent(r) PROVE InstantIInv'
  BY <1>2 DEF CheckStudent, Answered, OwnDue, Own, Pending
<1>3. ASSUME NEW r \in Requests, insertSessionRequest(r) PROVE InstantIInv'
  BY <1>3 DEF insertSessionRequest
<1>4. ASSUME NEW r \in Requests, Lapse(r) PROVE InstantIInv'
  BY <1>4 DEF Lapse
<1>5. QED BY <1>1, <1>2, <1>3, <1>4 DEF Asking

LEMMA AcceptKeeps ==
  ASSUME InstantIInv, NEW c \in Calls, NEW r \in Requests, NEW s \in Students,
         acceptSessionRequest(c, r, s)
  PROVE  InstantIInv'
<1> USE DEF InstantIInv, acceptSessionRequest, MayAccept
<1>1. /\ r \in Pending /\ session[r] = "none" /\ charged[r] = 0 /\ r = call[c].on
      /\ InRoom = {} /\ mode # "broadcast"
  BY DEF InstantTypeOK, ChargedOnceForARoom, Pending
<1>2. InstantTypeOK'
  <2>1. balance[s] - Price[r] \in 0..MaxBalance
    <3>1. balance[s] \in 0..MaxBalance /\ Price[r] \in Nat /\ MaxBalance \in Nat
      BY InstantAssumption DEF InstantTypeOK
    <3>2. QED BY <3>1, Within
  <2>2. balance' \in [Students -> 0..MaxBalance]
    BY <2>1 DEF InstantTypeOK
  <2>3. request' \in [Requests -> Unsent \cup Answers \cup {"pending"}]
    BY DEF InstantTypeOK, Answered
  <2>4. call' \in [Calls -> CallSteps]
    BY DEF InstantTypeOK, CallSteps
  <2>5. session' \in [Requests -> {"none", "unmet", "overdue", "met", "over"}]
    BY DEF InstantTypeOK
  <2>6. charged' \in [Requests -> Nat]
    BY DEF InstantTypeOK
  <2>7. QED BY <2>2, <2>3, <2>4, <2>5, <2>6 DEF InstantTypeOK, tutor, job
<1>3. ASSUME NEW q \in Requests PROVE request[q] \notin Unsent => request'[q] \notin Unsent
  BY DEF Answered, InstantTypeOK
<1>4. CallsAreAboutSentRequests'
  BY <1>3 DEF CallsAreAboutSentRequests, InstantTypeOK
<1>5. InRoom' = {r}
  BY <1>1 DEF InRoom, InstantTypeOK
<1>6. TutorInOnePlace'
  BY <1>1, <1>5 DEF TutorInOnePlace, tutor
<1>7. ChargedOnceForARoom'
  BY <1>1 DEF ChargedOnceForARoom, Answered, Pending, InstantTypeOK
<1>8. QED BY <1>2, <1>4, <1>6, <1>7

LEMMA AnsweringKeeps == ASSUME InstantIInv, Answering PROVE InstantIInv'
<1> USE DEF InstantIInv, InstantTypeOK, CallsAreAboutSentRequests, TutorInOnePlace,
            ChargedOnceForARoom, rows, money, job, tutor, CallSteps
<1>1. ASSUME NEW r \in Requests, declineSessionRequest(r) PROVE InstantIInv'
  BY <1>1 DEF declineSessionRequest, InRoom
<1>2. CASE expirePendingRequests
  BY <1>2 DEF expirePendingRequests, Answered, Pending, InRoom
<1>3. ASSUME NEW c \in Calls, NEW r \in Requests, AcceptCall(c, r) PROVE InstantIInv'
  <2>1. InRoom' \subseteq InRoom /\ \A q \in Requests : session'[q] = "none" <=> session[q] = "none"
    BY <1>3 DEF AcceptCall, ClosedUnmet, InRoom
  <2>2. InstantTypeOK'
    BY <1>3 DEF AcceptCall, ClosedUnmet
  <2>3. CallsAreAboutSentRequests'
    BY <1>3 DEF AcceptCall
  <2>4. TutorInOnePlace' /\ ChargedOnceForARoom'
    BY <1>3, <2>1 DEF AcceptCall
  <2>5. QED BY <2>2, <2>3, <2>4
<1>4. ASSUME NEW c \in Calls, RefuseAccept(c) PROVE InstantIInv'
  BY <1>4 DEF RefuseAccept, InRoom
<1>5. ASSUME NEW c \in Calls, ExpireLate(c) PROVE InstantIInv'
  BY <1>5 DEF ExpireLate, InRoom
<1>6. ASSUME NEW c \in Calls, FailDebit(c) PROVE InstantIInv'
  BY <1>6 DEF FailDebit, InRoom, MayAccept
<1>7. ASSUME NEW c \in Calls, markFailedPayment(c) PROVE InstantIInv'
  BY <1>7 DEF markFailedPayment, Answered, Pending, InRoom
<1>8. ASSUME NEW c \in Calls, NEW r \in Requests, NEW s \in Students, acceptSessionRequest(c, r, s)
      PROVE InstantIInv'
  BY <1>8, AcceptKeeps
<1>9. QED BY <1>1, <1>2, <1>3, <1>4, <1>5, <1>6, <1>7, <1>8 DEF Answering

LEMMA RoomsKeep == ASSUME InstantIInv, Rooms PROVE InstantIInv'
<1> USE DEF InstantIInv, InstantTypeOK, CallsAreAboutSentRequests, TutorInOnePlace,
            ChargedOnceForARoom, rows, money, job, tutor, CallSteps, InRoom
<1>1. ASSUME NEW r \in Requests, Meet(r) PROVE InstantIInv'
  BY <1>1 DEF Meet
<1>2. ASSUME NEW r \in Requests, GraceEnds(r) PROVE InstantIInv'
  BY <1>2 DEF GraceEnds
<1>3. ASSUME NEW r \in Requests, RoomEnds(r) PROVE InstantIInv'
  BY <1>3 DEF RoomEnds
<1>4. CASE closeUnmetInstantSessions
  BY <1>4 DEF closeUnmetInstantSessions, ClosedUnmet
<1>5. ASSUME NEW r \in Requests, ForceClose(r) PROVE InstantIInv'
  BY <1>5 DEF ForceClose
<1>6. QED BY <1>1, <1>2, <1>3, <1>4, <1>5 DEF Rooms

LEMMA StageKeeps == ASSUME InstantIInv, Stage PROVE InstantIInv'
<1> USE DEF InstantIInv, InstantTypeOK, CallsAreAboutSentRequests, TutorInOnePlace,
            ChargedOnceForARoom, rows, money, job, tutor, CallSteps, InRoom
<1>1. ASSUME NEW b \in Broadcasts, startBroadcast(b) PROVE InstantIInv'
  BY <1>1 DEF startBroadcast, Answered, Pending
<1>2. ASSUME NEW b \in Broadcasts, endBroadcast(b) PROVE InstantIInv'
  BY <1>2 DEF endBroadcast
<1>3. QED BY <1>1, <1>2 DEF Stage

LEMMA SweepKeeps == ASSUME InstantIInv, Sweep \/ Dies PROVE InstantIInv'
<1> USE DEF InstantIInv, InstantTypeOK, CallsAreAboutSentRequests, TutorInOnePlace,
            ChargedOnceForARoom, rows, money, job, tutor, CallSteps, InRoom
<1>1. CASE sweepStalePresence
  BY <1>1 DEF sweepStalePresence, InView
<1>2. CASE expirePendingRequestsForTutors
  <2>1. request' \in [Requests -> Unsent \cup Answers \cup {"pending"}]
    BY <1>2 DEF expirePendingRequestsForTutors, Answered, Answers
  <2>2. InstantTypeOK'
    BY <1>2, <2>1 DEF expirePendingRequestsForTutors
  <2>3. \A q \in Requests : request'[q] = request[q] \/ (request[q] = "pending" /\ request'[q] = "expired")
    BY <1>2 DEF expirePendingRequestsForTutors, Answered, Pending
  <2>4. CallsAreAboutSentRequests'
    BY <1>2, <2>3 DEF expirePendingRequestsForTutors, Unsent
  <2>5. TutorInOnePlace' /\ ChargedOnceForARoom'
    BY <1>2, <2>3 DEF expirePendingRequestsForTutors
  <2>6. QED BY <2>2, <2>4, <2>5
<1>3. CASE endStaleBroadcasts
  BY <1>3 DEF endStaleBroadcasts
<1>4. ASSUME NEW c \in Calls, AcceptDies(c) PROVE InstantIInv'
  <2>1. crashes' \in 0..MaxCrashes
    BY <1>4, InstantAssumption, Within DEF AcceptDies
  <2>2. QED BY <1>4, <2>1 DEF AcceptDies
<1>5. CASE SweepDies
  <2>1. crashes' \in 0..MaxCrashes
    BY <1>5, InstantAssumption, Within DEF SweepDies
  <2>2. QED BY <1>5, <2>1 DEF SweepDies
<1>6. QED BY <1>1, <1>2, <1>3, <1>4, <1>5 DEF Sweep, Dies

LEMMA MoneyKeeps == ASSUME InstantIInv, NEW s \in Students, MoveCredits(s) PROVE InstantIInv'
  BY DEF MoveCredits, InstantIInv, InstantTypeOK, CallsAreAboutSentRequests, TutorInOnePlace,
     ChargedOnceForARoom, rows, job, tutor, CallSteps, InRoom

LEMMA InstantNext == InstantIInv /\ [Next]_vars => InstantIInv'
<1> SUFFICES ASSUME InstantIInv, [Next]_vars PROVE InstantIInv'
  OBVIOUS
<1>1. CASE UNCHANGED vars
  BY <1>1 DEF vars, InstantIInv, InstantTypeOK, CallsAreAboutSentRequests, TutorInOnePlace,
     ChargedOnceForARoom, rows, money, job, tutor, CallSteps, InRoom
<1>2. QED
  BY <1>1, PresenceKeeps, AskingKeeps, AnsweringKeeps, RoomsKeep, StageKeeps, SweepKeeps,
     MoneyKeeps DEF Next

(* The invariant the properties below rest on: the types, that an accept   *)
(* past its first statement is about a request that was sent, and the two  *)
(* of them that are inductive together.                                    *)
THEOREM InstantInvariant == Spec => []InstantIInv
  BY InstantInit, InstantNext, PTL DEF Spec

(* Two tabs, an accept and a broadcast start, or a toggle and a sweep      *)
(* never put the tutor in two rooms, or in a room and on stage.            *)
THEOREM TutorNeverInTwoPlaces == Spec => []TutorInOnePlace
<1>1. InstantIInv => TutorInOnePlace
  BY DEF InstantIInv
<1>2. QED BY <1>1, InstantInvariant, PTL

(* No interleaving of accepts, failures and crashes charges a student      *)
(* twice, or for a request that became no room.                            *)
THEOREM StudentPaysForRoomOnce == Spec => []ChargedOnceForARoom
<1>1. InstantIInv => ChargedOnceForARoom
  BY DEF InstantIInv
<1>2. QED BY <1>1, InstantInvariant, PTL

(* How a set of answers looks to TutorTime. *)
LEMMA AnswersShow ==
  ASSUME InstantTypeOK, NEW R \in SUBSET Pending,
         NEW answer \in {"declined", "expired", "failed_payment"},
         request' = Answered(R, answer)
  PROVE  /\ R \subseteq Time!Waiting
         /\ Deal' = Time!Lapsing(R)
  BY DEF InstantTypeOK, Answered, Deal, Time!Waiting, Time!Lapsing, Pending

LEMMA WaitingIsPending == InstantTypeOK => Time!Waiting = Pending
  BY DEF InstantTypeOK, Time!Waiting, Pending, Deal

(* Steps that answer some requests and move the tutor nowhere. *)
LEMMA AnswersLapse ==
  ASSUME InstantTypeOK, NEW R \in SUBSET Pending,
         NEW answer \in {"declined", "expired", "failed_payment"},
         request' = Answered(R, answer), UNCHANGED <<mode, session, charged>>
  PROVE  Time!Next
<1>1. Deal' = Time!Lapsing(R) /\ R \in SUBSET Time!Waiting
  BY AnswersShow
<1>2. Place' = Place
  BY DEF Place, InRoom
<1>3. QED BY <1>1, <1>2 DEF Time!Next, Time!Lapse

(* Steps that show only where the tutor is, and put the tutor nowhere new. *)
LEMMA MovesFree ==
  ASSUME UNCHANGED <<request, charged>>, Place' = Place \/ Place' = "free"
  PROVE  [Time!Next]_(Time!vars)
  BY DEF Time!Next, Time!BecomeFree, Time!vars, Deal

LEMMA AskingShows == ASSUME InstantIInv, Asking PROVE [Time!Next]_(Time!vars)
<1> USE DEF InstantIInv, rows, money, job, tutor
<1>1. ASSUME NEW r \in Requests, CheckTutor(r) PROVE [Time!Next]_(Time!vars)
  BY <1>1 DEF CheckTutor, InstantTypeOK, Time!vars, Deal, Place, InRoom
<1>2. ASSUME NEW r \in Requests, CheckStudent(r) PROVE [Time!Next]_(Time!vars)
  <2>1. Deal' = Time!Lapsing(OwnDue(r)) /\ OwnDue(r) \in SUBSET Time!Waiting
    BY <1>2 DEF CheckStudent, InstantTypeOK, Deal, Answered, OwnDue, Own, Pending,
       Time!Lapsing, Time!Waiting
  <2>2. Place' = Place /\ charged' = charged
    BY <1>2 DEF CheckStudent, Place, InRoom
  <2>3. QED BY <2>1, <2>2 DEF Time!Next, Time!Lapse
<1>3. ASSUME NEW r \in Requests, insertSessionRequest(r) PROVE [Time!Next]_(Time!vars)
  <2>1. Place' = Place /\ charged' = charged
    BY <1>3 DEF insertSessionRequest, Place, InRoom
  <2>2. CASE Own(r) = {}
    <3>1. Deal[r] = "unsent" /\ Deal' = [Deal EXCEPT ![r] = "waiting"]
      BY <1>3, <2>2 DEF insertSessionRequest, InstantTypeOK, Deal
    <3>2. QED BY <2>1, <3>1 DEF Time!Next, Time!Ask
  <2>3. CASE Own(r) # {}
    BY <1>3, <2>1, <2>3 DEF insertSessionRequest, InstantTypeOK, Deal, Time!vars
  <2>4. QED BY <2>2, <2>3
<1>4. ASSUME NEW r \in Requests, Lapse(r) PROVE [Time!Next]_(Time!vars)
  BY <1>4, MovesFree DEF Lapse, Place, InRoom
<1>5. QED BY <1>1, <1>2, <1>3, <1>4 DEF Asking

LEMMA AnsweringShows == ASSUME InstantIInv, Answering PROVE [Time!Next]_(Time!vars)
<1> USE DEF InstantIInv, rows, money, job, tutor
<1>1. ASSUME NEW r \in Requests, declineSessionRequest(r) PROVE [Time!Next]_(Time!vars)
  <2>1. {r} \in SUBSET Pending /\ request' = Answered({r}, "declined")
    BY <1>1 DEF declineSessionRequest, Answered, Pending, InstantTypeOK
  <2>2. QED BY <1>1, <2>1, AnswersLapse DEF declineSessionRequest
<1>2. CASE expirePendingRequests
  BY <1>2, AnswersLapse DEF expirePendingRequests
<1>3. ASSUME NEW c \in Calls, NEW r \in Requests, AcceptCall(c, r) PROVE [Time!Next]_(Time!vars)
  <2>1. InRoom' \subseteq InRoom
    BY <1>3 DEF AcceptCall, ClosedUnmet, InRoom, InstantTypeOK
  <2>2. QED BY <1>3, <2>1, MovesFree DEF AcceptCall, Place
<1>4. ASSUME NEW c \in Calls, RefuseAccept(c) \/ FailDebit(c) PROVE [Time!Next]_(Time!vars)
  BY <1>4, MovesFree DEF RefuseAccept, FailDebit, Place, InRoom
<1>5. ASSUME NEW c \in Calls, ExpireLate(c) PROVE [Time!Next]_(Time!vars)
  <2>1. call[c].on \in Requests
    BY <1>5 DEF ExpireLate, CallsAreAboutSentRequests, InstantTypeOK
  <2>2. {call[c].on} \in SUBSET Pending /\ request' = Answered({call[c].on}, "expired")
    BY <1>5, <2>1 DEF ExpireLate, Answered, Pending, InstantTypeOK
  <2>3. QED BY <1>5, <2>2, AnswersLapse DEF ExpireLate
<1>6. ASSUME NEW c \in Calls, markFailedPayment(c) PROVE [Time!Next]_(Time!vars)
  BY <1>6, AnswersLapse DEF markFailedPayment
<1>7. ASSUME NEW c \in Calls, NEW r \in Requests, NEW s \in Students, acceptSessionRequest(c, r, s)
      PROVE [Time!Next]_(Time!vars)
  <2>1. /\ request[r] = "pending" /\ session[r] = "none" /\ charged[r] = 0
        /\ InRoom = {} /\ mode # "broadcast" /\ mode' = mode
    BY <1>7 DEF acceptSessionRequest, MayAccept, ChargedOnceForARoom
  <2>2. Place = "free" /\ Place' = "room"
    BY <1>7, <2>1 DEF acceptSessionRequest, Place, InRoom, InstantTypeOK
  <2>3. charged' = [charged EXCEPT ![r] = 1]
    BY <1>7, <2>1 DEF acceptSessionRequest, InstantTypeOK
  <2>4. Deal' = [Time!Lapsing(Time!Waiting) EXCEPT ![r] = "agreed"] /\ r \in Time!Waiting
    BY <1>7, <2>1, WaitingIsPending DEF acceptSessionRequest, InstantTypeOK, Deal, Answered, Pending,
       Time!Lapsing
  <2>5. QED BY <2>2, <2>3, <2>4 DEF Time!Next, Time!Agree
<1>8. QED BY <1>1, <1>2, <1>3, <1>4, <1>5, <1>6, <1>7 DEF Answering

LEMMA StageShows == ASSUME InstantIInv, Stage PROVE [Time!Next]_(Time!vars)
<1> USE DEF InstantIInv, rows, money, job, tutor
<1>1. ASSUME NEW b \in Broadcasts, startBroadcast(b) PROVE [Time!Next]_(Time!vars)
  <2>1. Deal' = Time!Lapsing(Time!Waiting) /\ charged' = charged
    BY <1>1, AnswersShow, WaitingIsPending DEF startBroadcast
  <2>2. Place \in {"free", "stage"} /\ Place' = "stage"
    BY <1>1 DEF startBroadcast, Place
  <2>3. CASE Place = "free"
    BY <2>1, <2>2, <2>3 DEF Time!Next, Time!GoOnStage
  <2>4. CASE Place = "stage"
    BY <2>1, <2>2, <2>4 DEF Time!Next, Time!Lapse
  <2>5. QED BY <2>2, <2>3, <2>4
<1>2. ASSUME NEW b \in Broadcasts, endBroadcast(b) PROVE [Time!Next]_(Time!vars)
  <2>1. Place' = Place \/ Place' = "free"
    BY <1>2 DEF endBroadcast, Place, TutorInOnePlace, InRoom
  <2>2. QED BY <1>2, <2>1, MovesFree DEF endBroadcast
<1>3. QED BY <1>1, <1>2 DEF Stage

LEMMA SweepShows == ASSUME InstantIInv, Sweep \/ Dies PROVE [Time!Next]_(Time!vars)
<1> USE DEF InstantIInv, rows, money, job, tutor
<1>1. CASE sweepStalePresence
  <2>1. Place' = Place \/ Place' = "free"
    BY <1>1 DEF sweepStalePresence, Place, TutorInOnePlace, InRoom
  <2>2. QED BY <1>1, <2>1, MovesFree DEF sweepStalePresence
<1>2. CASE expirePendingRequestsForTutors
  <2>1. CASE swept
    BY <1>2, <2>1, AnswersLapse DEF expirePendingRequestsForTutors
  <2>2. CASE ~swept
    BY <1>2, <2>2, MovesFree DEF expirePendingRequestsForTutors, Place, InRoom
  <2>3. QED BY <2>1, <2>2
<1>3. CASE endStaleBroadcasts
  BY <1>3, MovesFree DEF endStaleBroadcasts, Place, InRoom
<1>4. CASE Dies
  BY <1>4, MovesFree DEF Dies, SweepDies, AcceptDies, Place, InRoom
<1>5. QED BY <1>1, <1>2, <1>3, <1>4 DEF Sweep

LEMMA RestShows ==
  ASSUME InstantIInv, Presence \/ Rooms \/ (\E s \in Students : MoveCredits(s)) \/ UNCHANGED vars
  PROVE  [Time!Next]_(Time!vars)
<1> USE DEF InstantIInv, rows, money, job, tutor, vars
<1>1. UNCHANGED <<request, charged>>
  BY DEF Presence, touchPresence, GoStale, applySuspension, setTutorLive, Rooms, Meet, GraceEnds, RoomEnds,
     ForceClose, closeUnmetInstantSessions, MoveCredits
<1>2. Place' = Place \/ Place' = "free"
  <2>1. CASE Presence
    BY <2>1 DEF Presence, touchPresence, GoStale, applySuspension, setTutorLive, Place, InRoom,
       TutorInOnePlace
  <2>2. CASE Rooms
    <3>1. InRoom' \subseteq InRoom /\ mode' = mode
      BY <2>2 DEF Rooms, Meet, GraceEnds, RoomEnds, ForceClose, closeUnmetInstantSessions, ClosedUnmet,
         InRoom, InstantTypeOK
    <3>2. QED BY <3>1 DEF Place
  <2>3. CASE (\E s \in Students : MoveCredits(s)) \/ UNCHANGED vars
    BY <2>3 DEF MoveCredits, Place, InRoom
  <2>4. QED BY <2>1, <2>2, <2>3
<1>3. QED BY <1>1, <1>2, MovesFree

(* Everything the handlers and the sweep do, in any order and with any     *)
(* death in between, is what TutorTime promises.                           *)
THEOREM InstantImplementsTutorTime == Spec => ImplementsTutorTime
<1>1. Init => Time!Init
  BY DEF Init, Time!Init, Place, Deal, InRoom
<1>2. InstantIInv /\ [Next]_vars => [Time!Next]_(Time!vars)
  BY AskingShows, AnsweringShows, StageShows, SweepShows, RestShows DEF Next
<1>3. QED BY <1>1, <1>2, InstantInvariant, PTL DEF Spec, ImplementsTutorTime, Time!Spec
=============================================================================
