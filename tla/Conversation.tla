---------------------------- MODULE Conversation ----------------------------
(***************************************************************************)
(* Sends to conversations as the database sees them: one transaction each, *)
(* under the lock of the conversation's row, with the clock of its start.  *)
(***************************************************************************)
EXTENDS Naturals, FiniteSets

CONSTANTS
    Sends,         \* calls of sendMessage
    Writer, Thread, ClientKey, \* Writer[x], Thread[x], ClientKey[x]
    RateCount, RateWindow,     \* RATE_LIMIT
    LastSecond     \* bound: the clock stops here

ASSUME ConversationAssumption ==
    RateCount \in Nat \ {0} /\ RateWindow \in Nat \ {0} /\ LastSecond \in Nat \ {0}

VARIABLES
    dbClock,
    sendAt,        \* sendAt[x]: how far the call has come
    beganAt,       \* beganAt[x]: now() in its transaction
    written,       \* the messages that are committed: their send and created_at
    lastMessageAt  \* of each conversation's row, 0 is null

sendVars == <<dbClock, sendAt, beganAt, written, lastMessageAt>>

Conversations == {Thread[x] : x \in Sends}

SendsInit ==
    /\ dbClock = 1
    /\ sendAt = [x \in Sends |-> "new"]
    /\ beganAt = [x \in Sends |-> 0]
    /\ written = {}
    /\ lastMessageAt = [t \in Conversations |-> 0]

DbTick ==
    /\ dbClock < LastSecond /\ dbClock' = dbClock + 1
    /\ UNCHANGED <<sendAt, beganAt, written, lastMessageAt>>

Comes(x, from, to) == sendAt[x] = from /\ sendAt' = [sendAt EXCEPT ![x] = to]

BeginSend(x) ==
    /\ Comes(x, "new", "begun")
    /\ beganAt' = [beganAt EXCEPT ![x] = dbClock]
    /\ UNCHANGED <<dbClock, written, lastMessageAt>>

Holding(t) == {x \in Sends : Thread[x] = t /\ sendAt[x] \in {"locked", "counted"}}

(* Mutant of lockConversation: the row is read and not locked. *)
readConversation(x) ==
    /\ Comes(x, "begun", "locked")
    /\ UNCHANGED <<dbClock, beganAt, written, lastMessageAt>>

lockConversation(x) ==
    /\ Holding(Thread[x]) = {}
    /\ Comes(x, "begun", "locked")
    /\ UNCHANGED <<dbClock, beganAt, written, lastMessageAt>>

Landing(x) == {m \in written : Thread[m.send] = Thread[x] /\ ClientKey[m.send] = ClientKey[x]}

(* A retry of a send that landed is answered with its message. *)
AnswerRepeat(x) ==
    /\ Landing(x) # {}
    /\ Comes(x, "locked", "sent")
    /\ UNCHANGED <<dbClock, beganAt, written, lastMessageAt>>

(* What the writer committed in the window that ends with this             *)
(* transaction's clock, or later, in any conversation.                     *)
Recent(x) == {m \in written : Writer[m.send] = Writer[x] /\ m.at + RateWindow > beganAt[x]}

countRecentBySender(x) ==
    /\ Landing(x) = {}
    /\ Comes(x, "locked", IF Cardinality(Recent(x)) >= RateCount THEN "refused" ELSE "counted")
    /\ UNCHANGED <<dbClock, beganAt, written, lastMessageAt>>

(* insertMessage, touchConversation and the commit. *)
storeMessage(x) ==
    /\ Comes(x, "counted", "sent")
    /\ written' = written \cup {[send |-> x, at |-> beganAt[x]]}
    /\ lastMessageAt' = [lastMessageAt EXCEPT ![Thread[x]] = beganAt[x]]
    /\ UNCHANGED <<dbClock, beganAt>>

SendDies(x) ==
    /\ \E from \in {"begun", "locked", "counted"} : Comes(x, from, "died")
    /\ UNCHANGED <<dbClock, beganAt, written, lastMessageAt>>

SendsNext ==
    \/ DbTick
    \/ \E x \in Sends : \/ BeginSend(x) \/ lockConversation(x) \/ AnswerRepeat(x)
                        \/ countRecentBySender(x) \/ storeMessage(x) \/ SendDies(x)

SendsSpec == SendsInit /\ [][SendsNext]_sendVars

(***************************************************************************)
(* Properties                                                              *)
(***************************************************************************)
SendsTypeOK ==
    /\ dbClock \in 1..LastSecond
    /\ sendAt \in [Sends -> {"new", "begun", "locked", "counted", "sent", "refused", "died"}]
    /\ beganAt \in [Sends -> 0..LastSecond]
    /\ written \subseteq [send : Sends, at : 1..LastSecond]
    /\ lastMessageAt \in [Conversations -> 0..LastSecond]

Together(m) == {n \in written : /\ Writer[n.send] = Writer[m.send] /\ Thread[n.send] = Thread[m.send]
                                /\ n.at \in m.at..(m.at + RateWindow - 1)}

(* service.ts, lockConversation: two sends in one conversation are counted *)
(* one after the other, although each with the clock of its own start. No  *)
(* window of time holds more messages of a writer there than the limit.    *)
ThreadWithinRate == \A m \in written : Cardinality(Together(m)) <= RateCount

(* service.ts: a double-submitted send lands once, also when both calls    *)
(* run at the same time or the first dies after the other looked.          *)
KeyLandsOnce == \A m, n \in written :
    Thread[m.send] = Thread[n.send] /\ ClientKey[m.send] = ClientKey[n.send] => m = n
=============================================================================
