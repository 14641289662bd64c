-------------------------- MODULE IncomingRequests --------------------------
(***************************************************************************)
(* The tutor's tab: a queue of incoming requests, fed by Realtime INSERTs   *)
(* that are read back one by one, and by a read of all that is pending on  *)
(* mount and after every subscribe; drained by UPDATEs, the ring and the   *)
(* tutor's answers. Students and jobs settle requests whenever they like.  *)
(***************************************************************************)
EXTENDS Naturals, SequencesExt

CONSTANTS
    Asks,         \* the requests sent to this tutor
    NoAsk,
    MaxLists      \* bound: listPendingIncomingRequests calls in flight

ASSUME AsksAssumption == NoAsk \notin Asks /\ MaxLists \in Nat \ {0}

VARIABLES
    ask,          \* ask[r]: session_requests.status; "overdue" is pending past expires_at,
                  \* "over" any end but accepted
    listening,    \* the tutor's channel is subscribed
    inserts,      \* INSERT events on their way
    updates,      \* UPDATE events on their way
    lists,        \* listPendingIncomingRequests calls not yet handled
    found,        \* requests read as pending, the answers on their way
    queue,        \* the modal shows the first
    aside,        \* requests that left the modal by the ring or the tutor's hand
    answering,    \* the answer that is awaited: of which request, which, and what came of it
    room          \* the room the tutor went to

asksVars == <<ask, listening, inserts, updates, lists, found, queue, aside, answering, room>>
readVars == <<listening, inserts, lists, found>>

AtDesk == room = NoAsk
NotAnswering == [on |-> NoAsk, as |-> "none", came |-> "none"]
Waiting == {r \in Asks : ask[r] \in {"pending", "overdue"}}

(* drop: the filter, as a function of how far it has come. *)
Without(r) ==
    LET kept[n \in 0..Len(queue)] ==
            IF n = 0 THEN <<>>
            ELSE IF queue[n] = r THEN kept[n - 1] ELSE Append(kept[n - 1], queue[n])
    IN  kept[Len(queue)]
Merged(r) == IF r \in ToSet(queue) THEN queue ELSE Append(queue, r)

(* The mount-time read is under way, the channel not yet up. *)
AsksInit ==
    /\ ask = [r \in Asks |-> "none"]
    /\ listening = FALSE /\ inserts = {} /\ updates = {} /\ lists = 1 /\ found = {}
    /\ queue = <<>> /\ aside = {} /\ answering = NotAnswering /\ room = NoAsk

(***************************************************************************)
(* The server                                                              *)
(***************************************************************************)
Announce(R) == updates' = IF listening THEN updates \cup R ELSE updates

insertAsk(r) ==
    /\ ask[r] = "none" /\ ask' = [ask EXCEPT ![r] = "pending"]
    /\ inserts' = IF listening THEN inserts \cup {r} ELSE inserts
    /\ UNCHANGED <<listening, updates, lists, found, queue, aside, answering, room>>

RunsOut(r) ==
    /\ ask[r] = "pending" /\ ask' = [ask EXCEPT ![r] = "overdue"]
    /\ UNCHANGED <<readVars, updates, queue, aside, answering, room>>

(* The expiry job, a broadcast start or the presence sweep. *)
SettleAsk(r) ==
    /\ r \in Waiting /\ ask' = [ask EXCEPT ![r] = "over"] /\ Announce({r})
    /\ UNCHANGED <<readVars, queue, aside, answering, room>>

(* Accepting one declines the others. An overdue request, or one the       *)
(* student cannot pay, is over; one that is over is refused, and so is any *)
(* while the tutor is on stage, in a session or about to be.               *)
AcceptAsk ==
    /\ answering.as = "accept" /\ answering.came = "none"
    /\ LET r == answering.on IN
       \/ /\ ask[r] = "pending"
          /\ ask' = [q \in Asks |-> IF q = r THEN "accepted" ELSE IF q \in Waiting THEN "over" ELSE ask[q]]
          /\ Announce(Waiting)
          /\ answering' = [answering EXCEPT !.came = "done"]
       \/ /\ r \in Waiting /\ ask' = [ask EXCEPT ![r] = "over"] /\ Announce({r})
          /\ answering' = [answering EXCEPT !.came = "refused"]
       \/ /\ ask[r] # "overdue"
          /\ answering' = [answering EXCEPT !.came = "refused"]
          /\ UNCHANGED <<ask, updates>>
    /\ UNCHANGED <<readVars, queue, aside, room>>

DeclineAsk ==
    /\ answering.as = "decline" /\ answering.came = "none"
    /\ IF answering.on \in Waiting
       THEN ask' = [ask EXCEPT ![answering.on] = "over"] /\ Announce({answering.on})
       ELSE UNCHANGED <<ask, updates>>
    /\ answering' = [answering EXCEPT !.came = "done"]
    /\ UNCHANGED <<readVars, queue, aside, room>>

listPendingIncomingRequests ==
    /\ lists > 0 /\ lists' = lists - 1
    /\ found' = found \cup {r \in Asks : ask[r] = "pending"}
    /\ UNCHANGED <<ask, listening, inserts, updates, queue, aside, answering, room>>

(***************************************************************************)
(* The tab                                                                 *)
(***************************************************************************)
(* Mutant of onAsksSubscribed: only the mount-time read. *)
onAsksSubscribedQuietly ==
    /\ ~listening /\ lists < MaxLists
    /\ listening' = TRUE
    /\ UNCHANGED <<ask, inserts, updates, lists, found, queue, aside, answering, room>>

onAsksSubscribed ==
    /\ ~listening /\ lists < MaxLists
    /\ listening' = TRUE /\ lists' = lists + 1
    /\ UNCHANGED <<ask, inserts, updates, found, queue, aside, answering, room>>

LoseAsksChannel ==
    /\ listening /\ listening' = FALSE /\ inserts' = {} /\ updates' = {}
    /\ UNCHANGED <<ask, lists, found, queue, aside, answering, room>>

(* The event and getIncomingRequest behind it, whose answer is on its way  *)
(* when the request still waits for one.                                   *)
onIncoming(r) ==
    /\ r \in inserts /\ inserts' = inserts \ {r}
    /\ found' = IF r \in Waiting THEN found \cup {r} ELSE found
    /\ UNCHANGED <<ask, listening, updates, lists, queue, aside, answering, room>>

(* An answer may come after the UPDATE that settled its request. *)
mergeIntoQueue(r) ==
    /\ r \in found /\ found' = found \ {r} /\ queue' = Merged(r)
    /\ UNCHANGED <<ask, listening, inserts, updates, lists, aside, answering, room>>

onSettled(r) ==
    /\ r \in updates /\ updates' = updates \ {r} /\ queue' = Without(r)
    /\ UNCHANGED <<ask, readVars, aside, answering, room>>

(* The ring of the first ran out by this browser's clock, or the modal was *)
(* closed; also while the answer to it is awaited.                         *)
dropFirst ==
    /\ queue # <<>> /\ queue' = Tail(queue) /\ aside' = aside \cup {Head(queue)}
    /\ UNCHANGED <<ask, readVars, updates, answering, room>>

onPress(button) ==
    /\ queue # <<>> /\ answering = NotAnswering
    /\ answering' = [on |-> Head(queue), as |-> button, came |-> "none"]
    /\ UNCHANGED <<ask, readVars, updates, queue, aside, room>>

onAnswered ==
    /\ answering.came # "none" /\ answering' = NotAnswering
    /\ queue' = Without(answering.on) /\ aside' = aside \cup {answering.on}
    /\ room' = IF answering.as = "accept" /\ answering.came = "done" THEN answering.on ELSE room
    /\ UNCHANGED <<ask, readVars, updates>>

AskHeard == \E r \in Asks : onIncoming(r)
AskAnswer == AcceptAsk \/ DeclineAsk \/ onAnswered

(* Followed while the tab is open. *)
AsksNext ==
    /\ AtDesk
    /\ \/ \E r \in Asks : insertAsk(r) \/ RunsOut(r) \/ SettleAsk(r) \/ onSettled(r) \/ mergeIntoQueue(r)
       \/ AskHeard \/ listPendingIncomingRequests \/ AskAnswer
       \/ onAsksSubscribed \/ LoseAsksChannel \/ dropFirst
       \/ \E button \in {"accept", "decline"} : onPress(button)

AsksSpec == AsksInit /\ [][AsksNext]_asksVars

(***************************************************************************)
(* Properties                                                              *)
(***************************************************************************)
AsksTypeOK ==
    /\ ask \in [Asks -> {"none", "pending", "overdue", "accepted", "over"}]
    /\ listening \in BOOLEAN
    /\ inserts \subseteq Asks /\ updates \subseteq Asks
    /\ found \subseteq Asks /\ aside \subseteq Asks /\ lists \in 0..MaxLists
    /\ queue \in Seq(Asks)
    /\ answering \in [on : Asks \cup {NoAsk}, as : {"none", "accept", "decline"},
                      came : {"none", "done", "refused"}]
    /\ room \in Asks \cup {NoAsk}

(* mergeIntoQueue: two producers that overlap make no second modal. *)
QueuedOnce == IsInjective(queue)

(* The awaited answer is to a request of this tutor. *)
AnswersAnAsk == answering.as # "none" \/ answering.came # "none" => answering.on \in Asks

(* incoming-requests.tsx: a request that arrives while the tab is loading,  *)
(* connecting or retrying is shown, unless it is settled or runs out first. *)
PendingIsShown == \A r \in Asks :
    ask[r] = "pending" ~> r \in ToSet(queue) \cup aside \/ ask[r] # "pending" \/ ~AtDesk
=============================================================================
