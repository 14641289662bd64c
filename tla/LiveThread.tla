----------------------------- MODULE LiveThread -----------------------------
(***************************************************************************)
(* An open conversation in one tab: the Realtime channel that announces    *)
(* messages, the reads that fetch them, the composer whose send may be     *)
(* answered late or never, and the read mark. Messages are the numbers     *)
(* 1, 2, ... in the order they landed.                                     *)
(***************************************************************************)
EXTENDS Naturals, Sequences, FiniteSets

CONSTANTS
    PageSize,      \* THREAD_PAGE_SIZE
    MaxMessages,   \* bound: what the other person writes
    MaxDrafts      \* bound: texts typed in the composer

ASSUME ThreadAssumption ==
    PageSize \in Nat \ {0} /\ MaxMessages \in Nat /\ MaxDrafts \in Nat

VARIABLES
    messages,      \* the rows: who wrote it, the text and its client key
    subscribed,    \* the channel is joined
    events,        \* INSERT events on their way
    readbacks,     \* getMessage calls in flight
    rereading,     \* a getThreadPage after a subscribe is in flight
    shown,
    unread,        \* the other person's rows with read_at null
    visible,       \* document.visibilityState
    marking,       \* a markConversationRead is in flight
    draft,         \* the text in the box: its number, 0 when empty
    typed,         \* texts typed so far
    key,           \* keyRef, 0 is null
    keys,          \* client keys made so far
    sending,       \* the send that is awaited, or Nothing
    requests       \* sends the server may still handle

threadVars == <<messages, subscribed, events, readbacks, rereading, shown, unread, visible, marking,
                draft, typed, key, keys, sending, requests>>
feedVars == <<subscribed, readbacks, rereading, shown, visible, marking>>
composerVars == <<draft, typed, key, keys, sending, requests>>

Nothing == [key |-> 0, draft |-> 0]
Landed == 1..Len(messages)
FromOther(i) == messages[i].key = 0
Newest(ids) == {i \in ids : Cardinality({j \in ids : j > i}) < PageSize}

ThreadInit ==
    /\ messages = <<>> /\ subscribed = FALSE /\ events = {} /\ readbacks = {}
    /\ rereading = FALSE /\ shown = {} /\ unread = {} /\ visible = TRUE /\ marking = TRUE
    /\ draft = 0 /\ typed = 0 /\ key = 0 /\ keys = 0 /\ sending = Nothing /\ requests = {}

(* A row and its event; a channel that is down hears nothing of it. *)
insertMessage(row) ==
    /\ messages' = Append(messages, row)
    /\ events' = IF subscribed THEN events \cup {Len(messages) + 1} ELSE events

(***************************************************************************)
(* The channel and the reads                                               *)
(***************************************************************************)
OtherWrites ==
    /\ Cardinality({i \in Landed : FromOther(i)}) < MaxMessages
    /\ insertMessage(Nothing)
    /\ unread' = unread \cup {Len(messages) + 1}
    /\ UNCHANGED <<feedVars, composerVars>>

LoseChannel ==
    /\ subscribed /\ subscribed' = FALSE /\ events' = {}
    /\ UNCHANGED <<messages, readbacks, rereading, shown, unread, visible, marking, composerVars>>

(* Mutant of onSubscribed: what was missed is not asked for. *)
onSubscribedQuietly ==
    /\ ~subscribed /\ subscribed' = TRUE
    /\ UNCHANGED <<messages, events, readbacks, rereading, shown, unread, visible, marking, composerVars>>

onSubscribed ==
    /\ ~subscribed /\ subscribed' = TRUE /\ rereading' = TRUE
    /\ UNCHANGED <<messages, events, readbacks, shown, unread, visible, marking, composerVars>>

(* The newest page; it marks the conversation read when it holds something *)
(* unread, whether or not anyone is looking.                               *)
getThreadPage ==
    /\ rereading /\ rereading' = FALSE
    /\ shown' = shown \cup Newest(Landed)
    /\ marking' = (marking \/ unread \cap Newest(Landed) # {})
    /\ UNCHANGED <<messages, subscribed, events, readbacks, unread, visible, composerVars>>

onInsert(i) ==
    /\ i \in events /\ events' = events \ {i} /\ readbacks' = readbacks \cup {i}
    /\ UNCHANGED <<messages, subscribed, rereading, shown, unread, visible, marking, composerVars>>

getMessage(i) ==
    /\ i \in readbacks /\ readbacks' = readbacks \ {i}
    /\ shown' = shown \cup {i}
    /\ marking' = (marking \/ (FromOther(i) /\ visible))
    /\ UNCHANGED <<messages, subscribed, events, rereading, unread, visible, composerVars>>

loadOlder ==
    /\ \E first \in shown :
          /\ \A i \in shown : i >= first
          /\ first > 1
          /\ shown' = shown \cup Newest(1..(first - 1))
    /\ UNCHANGED <<messages, subscribed, events, readbacks, rereading, unread, visible, marking, composerVars>>

Look ==
    /\ visible' = ~visible
    /\ marking' = (marking \/ visible')
    /\ UNCHANGED <<messages, subscribed, events, readbacks, rereading, shown, unread, composerVars>>

markConversationRead ==
    /\ marking /\ marking' = FALSE /\ unread' = {}
    /\ UNCHANGED <<messages, subscribed, events, readbacks, rereading, shown, visible, composerVars>>

(***************************************************************************)
(* The composer                                                            *)
(***************************************************************************)
(* Editing the text makes it a different message, also while one is sent. *)
Edit ==
    /\ typed < MaxDrafts
    /\ typed' = typed + 1 /\ draft' = typed' /\ key' = 0
    /\ UNCHANGED <<messages, events, unread, feedVars, keys, sending, requests>>

(* Mutant of send: every press makes a key of its own. *)
sendWithNewKey ==
    /\ sending = Nothing /\ draft # 0 /\ keys < 2 * MaxDrafts
    /\ key' = keys + 1 /\ keys' = keys + 1
    /\ sending' = [key |-> key', draft |-> draft]
    /\ requests' = requests \cup {sending'}
    /\ UNCHANGED <<messages, events, unread, feedVars, draft, typed>>

send ==
    /\ sending = Nothing /\ draft # 0
    /\ IF key = 0 THEN key' = keys + 1 /\ keys' = keys + 1 ELSE UNCHANGED <<key, keys>>
    /\ sending' = [key |-> key', draft |-> draft]
    /\ requests' = requests \cup {sending'}
    /\ UNCHANGED <<messages, events, unread, feedVars, draft, typed>>

findByClientKey(k) == {i \in Landed : messages[i].key = k}

(* One copy of the request is handled under the conversation's lock. It    *)
(* finds the message its key already made, or makes it; or it is refused.  *)
sendMessage(r) ==
    /\ r \in requests /\ requests' \in {requests, requests \ {r}}
    /\ IF findByClientKey(r.key) = {} THEN insertMessage(r) ELSE UNCHANGED <<messages, events>>
    /\ UNCHANGED <<unread, feedVars, draft, typed, key, keys, sending>>

SendRefused ==
    /\ sending # Nothing /\ sending' = Nothing /\ requests' = requests \ {sending}
    /\ UNCHANGED <<messages, events, unread, feedVars, draft, typed, key, keys>>

(* The awaited answer: the row is shown and the box emptied. *)
onSent ==
    /\ sending # Nothing /\ findByClientKey(sending.key) # {}
    /\ shown' = shown \cup findByClientKey(sending.key)
    /\ sending' = Nothing /\ draft' = 0 /\ key' = 0
    /\ UNCHANGED <<messages, events, unread, subscribed, readbacks, rereading, visible, marking,
                   typed, keys, requests>>

(* No answer: the server may have handled the request, or may yet. *)
SendFails ==
    /\ sending # Nothing /\ sending' = Nothing
    /\ UNCHANGED <<messages, events, unread, feedVars, draft, typed, key, keys, requests>>

Reading == getThreadPage \/ \E i \in Landed : onInsert(i) \/ getMessage(i)
Composing == Edit \/ send \/ SendRefused \/ onSent \/ SendFails \/ \E r \in requests : sendMessage(r)

ThreadNext ==
    \/ OtherWrites \/ LoseChannel \/ onSubscribed \/ Reading \/ loadOlder
    \/ Look \/ markConversationRead \/ Composing

ThreadSpec == ThreadInit /\ [][ThreadNext]_threadVars

(***************************************************************************)
(* Properties                                                              *)
(***************************************************************************)
ThreadTypeOK ==
    /\ messages \in Seq([key : Nat, draft : Nat])
    /\ events \subseteq Landed /\ readbacks \subseteq Landed /\ shown \subseteq Landed
    /\ unread \subseteq Landed
    /\ subscribed \in BOOLEAN /\ rereading \in BOOLEAN /\ visible \in BOOLEAN /\ marking \in BOOLEAN
    /\ draft \in Nat /\ typed \in Nat /\ key \in Nat /\ keys \in Nat
    /\ sending \in [key : Nat, draft : Nat] /\ requests \subseteq [key : Nat, draft : Nat]

(* thread.tsx: "anything that landed while the channel was connecting or    *)
(* retrying", and the read mark: a message is shown at last, and read if    *)
(* the tab is in view, unless a whole page of later ones landed before it   *)
(* could be read.                                                           *)
PicksUpEverything == \A i \in 1..(MaxMessages + MaxDrafts) :
    i \in Landed ~> \/ i \in shown /\ (i \in unread => ~visible)
                    \/ Len(messages) >= i + PageSize

(* service.ts: "a retry of a send that already landed is a success, not a   *)
(* second message": a text is stored at most once, however often it is sent *)
(* and whatever becomes of the answers.                                     *)
SentOnce == \A i, j \in Landed :
    messages[i].draft # 0 /\ messages[i].draft = messages[j].draft => i = j

(* The sends and rows a client key was made for, and the text in the box.  *)
Texts == requests \cup {messages[i] : i \in Landed} \cup {sending, [key |-> key, draft |-> draft]}

(* A client key is of one text, a text has one, and the text in the box has *)
(* none of its own when nothing was sent of it.                            *)
KeyPerText ==
    /\ draft <= typed
    /\ \A x \in Texts : x.key # 0 => x.key <= keys /\ x.draft \in 1..typed
    /\ \A x, y \in Texts : x.key # 0 /\ y.key # 0 => (x.key = y.key <=> x.draft = y.draft)
    /\ key = 0 /\ draft # 0 => \A x \in Texts : x.key # 0 => x.draft # draft

(* A client key has one row. *)
RowPerKey ==
    /\ \A r \in requests : r.key # 0
    /\ \A i \in Landed : messages[i].key = 0 => messages[i].draft = 0
    /\ \A i, j \in Landed : messages[i].key # 0 /\ messages[i].key = messages[j].key => i = j
=============================================================================
