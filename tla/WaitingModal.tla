---------------------------- MODULE WaitingModal ----------------------------
(***************************************************************************)
(* The student's tab after "Request now": the channel that announces the   *)
(* tutor's answer, the guarded reads behind it, and the ring, whose end    *)
(* shows "No answer" by the browser's clock alone. The server settles the  *)
(* request whenever it likes.                                              *)
(***************************************************************************)
EXTENDS Naturals

CONSTANT MaxReads     \* bound: getOutgoingRequest calls in flight

ASSUME ModalAssumption == MaxReads \in Nat \ {0}

VARIABLES
    request,      \* session_requests.status; "answered" is any end but accepted
    tab,          \* "widget", "sent" (the create is awaited), "waiting", "closed", "room"
    elapsed,      \* the ring ran out
    joined,       \* the channel of this request is subscribed
    told,         \* UPDATE events on their way
    reads,        \* getOutgoingRequest calls not yet handled
    answers,      \* final statuses read and on their way back
    outcome       \* what the modal was told

modalVars == <<request, tab, elapsed, joined, told, reads, answers, outcome>>

Finals == {"accepted", "answered"}

ModalInit ==
    /\ request = "none" /\ tab = "widget" /\ elapsed = FALSE /\ joined = FALSE
    /\ told = {} /\ reads = 0 /\ answers = {} /\ outcome = "none"

(***************************************************************************)
(* The server                                                              *)
(***************************************************************************)
(* Accepted, declined, expired or failed_payment: one UPDATE of the row,   *)
(* announced to a channel that is up. An accept may straddle the ring's end. *)
SettleRequest(final) ==
    /\ request = "pending" /\ request' = final
    /\ told' = IF joined THEN told \cup {final} ELSE told
    /\ UNCHANGED <<tab, elapsed, joined, reads, answers, outcome>>

getOutgoingRequest ==
    /\ reads > 0 /\ reads' = reads - 1
    /\ answers' = IF request \in Finals THEN answers \cup {request} ELSE answers
    /\ UNCHANGED <<request, tab, elapsed, joined, told, outcome>>

(***************************************************************************)
(* The tab                                                                 *)
(***************************************************************************)
onRequest ==
    /\ tab = "widget" /\ tab' = "sent" /\ request' = "pending"
    /\ UNCHANGED <<elapsed, joined, told, reads, answers, outcome>>

onRequested ==
    /\ tab = "sent" /\ tab' = "waiting"
    /\ UNCHANGED <<request, elapsed, joined, told, reads, answers, outcome>>

(* Mutant of onModalSubscribed: the channel as it was before the fallback. *)
onModalSubscribedQuietly ==
    /\ tab = "waiting" /\ ~joined /\ reads < MaxReads
    /\ joined' = TRUE
    /\ UNCHANGED <<request, tab, elapsed, told, reads, answers, outcome>>

onModalSubscribed ==
    /\ tab = "waiting" /\ ~joined /\ reads < MaxReads
    /\ joined' = TRUE /\ reads' = reads + 1
    /\ UNCHANGED <<request, tab, elapsed, told, answers, outcome>>

(* What was announced and not heard is gone. *)
LoseModalChannel ==
    /\ joined /\ joined' = FALSE /\ told' = {}
    /\ UNCHANGED <<request, tab, elapsed, reads, answers, outcome>>

RingEnds ==
    /\ tab = "waiting" /\ ~elapsed /\ elapsed' = TRUE
    /\ reads < MaxReads /\ reads' = reads + 1
    /\ UNCHANGED <<request, tab, joined, told, answers, outcome>>

(* The outcome, and for an accepted request the way to its room. *)
Show(final) ==
    /\ outcome' = final
    /\ tab' = IF final = "accepted" THEN "room" ELSE tab
    /\ joined' = (joined /\ tab' = "waiting")

onUpdate(final) ==
    /\ tab = "waiting" /\ final \in told /\ told' = told \ {final}
    /\ Show(final)
    /\ UNCHANGED <<request, elapsed, reads, answers>>

(* A final outcome shown is never overwritten by a read. One that comes     *)
(* after the modal was closed still leads to the room, if the page is there. *)
readBack(final) ==
    /\ tab \in {"waiting", "closed"} /\ final \in answers /\ answers' = answers \ {final}
    /\ Show(IF outcome = "none" THEN final ELSE outcome)
    /\ UNCHANGED <<request, elapsed, told, reads>>

(* Closed, reloaded or left; nothing brings the modal back. *)
closeWaiting ==
    /\ tab \in {"sent", "waiting"} /\ tab' = "closed" /\ joined' = FALSE /\ told' = {}
    /\ UNCHANGED <<request, elapsed, reads, answers, outcome>>

Hearing == \E final \in Finals : onUpdate(final) \/ readBack(final)

ModalNext ==
    \/ onRequest \/ onRequested \/ onModalSubscribed \/ LoseModalChannel \/ RingEnds
    \/ getOutgoingRequest \/ Hearing \/ closeWaiting
    \/ \E final \in Finals : SettleRequest(final)

ModalSpec == ModalInit /\ [][ModalNext]_modalVars

(***************************************************************************)
(* Properties                                                              *)
(***************************************************************************)
ModalTypeOK ==
    /\ request \in {"none", "pending"} \cup Finals
    /\ tab \in {"widget", "sent", "waiting", "closed", "room"}
    /\ elapsed \in BOOLEAN /\ joined \in BOOLEAN
    /\ told \subseteq Finals /\ answers \subseteq Finals /\ reads \in 0..MaxReads
    /\ outcome \in {"none"} \cup Finals

(* use-session-requests.ts: while the modal of a charged student waits, or *)
(* says "No answer", the news is on its way to it: announced, being read,  *)
(* or read when the channel is back.                                       *)
AcceptIsOnItsWay ==
    request = "accepted" /\ tab = "waiting" =>
        ~joined \/ "accepted" \in told \cup answers \/ reads > 0

(* "A missed UPDATE can no longer leave a charged student on No answer      *)
(* while the tutor waits alone": a tab that was not closed gets to the room. *)
AcceptedIsJoined == request = "accepted" ~> tab \in {"room", "closed"}
=============================================================================
