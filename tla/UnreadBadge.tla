---------------------------- MODULE UnreadBadge ----------------------------
(***************************************************************************)
(* The unread-messages badge in the topbar: a count that is always re-read *)
(* and never pushed, asked for after a mount, a subscribe, an UPDATE of a  *)
(* conversation and a mark made in this tab. Answers arrive in any order,  *)
(* or not at all: a read or a mark whose call fails is logged and dropped, *)
(* and the badge stays as it is until the next signal.                     *)
(***************************************************************************)
EXTENDS Naturals

CONSTANT MaxArrivals     \* bound: messages that arrive

ASSUME BadgeAssumption == MaxArrivals \in Nat

VARIABLES
    arrived,     \* messages so far, for the bound
    unreadRows,  \* messages whose read_at is null
    hearing,     \* the conversations channel is joined
    nudges,      \* conversation UPDATEs on their way
    marked,      \* a mark was committed and its answer is on the way
    counts,      \* getUnreadCount calls in flight, and which is the latest
    badge,
    dropped      \* the latest read, or the answer of a mark since, was lost

badgeVars == <<arrived, unreadRows, hearing, nudges, marked, counts, badge, dropped>>

NotRead == MaxArrivals + 1
Counts == [isLatest : BOOLEAN, n : 0..NotRead]

Refreshed(in) == {[c EXCEPT !.isLatest = FALSE] : c \in in} \cup {[isLatest |-> TRUE, n |-> NotRead]}
refresh == counts' = Refreshed(counts) /\ dropped' = FALSE

BadgeInit ==
    /\ arrived = 0 /\ unreadRows = 0 /\ hearing = FALSE /\ nudges = FALSE /\ marked = FALSE
    /\ counts = Refreshed({}) /\ badge = 0 /\ dropped = FALSE

Arrives ==
    /\ arrived < MaxArrivals
    /\ arrived' = arrived + 1 /\ unreadRows' = unreadRows + 1
    /\ nudges' = (nudges \/ hearing)
    /\ UNCHANGED <<hearing, marked, counts, badge, dropped>>

(* Several UPDATEs are delivered one by one: one may leave others behind. *)
OnUpdate ==
    /\ nudges /\ nudges' \in BOOLEAN /\ refresh
    /\ UNCHANGED <<arrived, unreadRows, hearing, marked, badge>>

BadgeSubscribed ==
    /\ ~hearing /\ hearing' = TRUE /\ refresh
    /\ UNCHANGED <<arrived, unreadRows, nudges, marked, badge>>

BadgeLost ==
    /\ hearing /\ hearing' = FALSE /\ nudges' = FALSE
    /\ UNCHANGED <<arrived, unreadRows, marked, counts, badge, dropped>>

(* markConversationRead answers how many it marked; none dispatches nothing. *)
markRead ==
    /\ marked' = (marked \/ unreadRows > 0) /\ unreadRows' = 0
    /\ UNCHANGED <<arrived, hearing, nudges, counts, badge, dropped>>

OnMessagesRead ==
    /\ marked /\ marked' \in BOOLEAN /\ refresh
    /\ UNCHANGED <<arrived, unreadRows, hearing, nudges, badge>>

(* The mark was committed and its call failed: nobody is told of it. *)
MarkFails ==
    /\ marked /\ marked' \in BOOLEAN /\ dropped' = TRUE
    /\ UNCHANGED <<arrived, unreadRows, hearing, nudges, counts, badge>>

getUnreadCount(c) ==
    /\ c \in counts /\ c.n = NotRead
    /\ counts' = (counts \ {c}) \cup {[c EXCEPT !.n = unreadRows]}
    /\ UNCHANGED <<arrived, unreadRows, hearing, nudges, marked, badge, dropped>>

(* Mutant of setCount: whichever answer comes last. *)
setAnyCount(c) ==
    /\ c \in counts /\ c.n # NotRead
    /\ counts' = counts \ {c} /\ badge' = c.n
    /\ UNCHANGED <<arrived, unreadRows, hearing, nudges, marked, dropped>>

(* An older read finishing after a newer one does not win. *)
setCount(c) ==
    /\ c \in counts /\ c.n # NotRead
    /\ counts' = counts \ {c}
    /\ badge' = IF c.isLatest THEN c.n ELSE badge
    /\ UNCHANGED <<arrived, unreadRows, hearing, nudges, marked, dropped>>

(* The call fails before or after it read: its answer is dropped. *)
CountFails(c) ==
    /\ c \in counts /\ counts' = counts \ {c}
    /\ dropped' = (dropped \/ c.isLatest)
    /\ UNCHANGED <<arrived, unreadRows, hearing, nudges, marked, badge>>

BadgeNext ==
    \/ Arrives \/ OnUpdate \/ BadgeSubscribed \/ BadgeLost \/ markRead \/ OnMessagesRead
    \/ MarkFails \/ \E c \in counts : getUnreadCount(c) \/ setCount(c) \/ CountFails(c)

BadgeSpec == BadgeInit /\ [][BadgeNext]_badgeVars

(***************************************************************************)
(* Properties                                                              *)
(***************************************************************************)
BadgeTypeOK ==
    /\ arrived \in 0..MaxArrivals /\ unreadRows \in 0..arrived /\ badge \in 0..MaxArrivals
    /\ hearing \in BOOLEAN /\ nudges \in BOOLEAN /\ marked \in BOOLEAN /\ counts \subseteq Counts
    /\ dropped \in BOOLEAN

(* use-unread-count.ts: once the channel is up and nothing is on its way,   *)
(* the badge is the number of unread messages, whatever overtook whatever.  *)
(* Only the latest read's failure, or a mark's since it was made, can leave  *)
(* it wrong, and then only until the next signal's read.                     *)
BadgeSettles ==
    hearing /\ ~nudges /\ ~marked /\ counts = {} /\ ~dropped => badge = unreadRows

(* While nothing is announced, and no failure was since the latest read,   *)
(* that read answers, or will answer, what the rows say, or has done so.    *)
LatestIsTrue ==
    /\ \A c, d \in counts : c.isLatest /\ d.isLatest => c = d
    /\ hearing /\ ~nudges /\ ~marked /\ ~dropped =>
           /\ \A c \in counts : c.isLatest => c.n \in {NotRead, unreadRows}
           /\ (\E c \in counts : c.isLatest) \/ badge = unreadRows
=============================================================================
