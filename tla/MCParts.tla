------------------------------ MODULE MCParts ------------------------------
(***************************************************************************)
(* The parts of the system that share no state with each other: a behaviour *)
(* is one of one part, chosen at the start.                                *)
(***************************************************************************)
EXTENDS AdminLocks, SessionRoom, CallPage, RetryingChannel, LiveThread, UnreadBadge,
        AvailabilityBonus, Reminders, SlotGrid, WaitingModal, IncomingRequests,
        LiveStage, Conversation, TutorReview

CONSTANTS first, second, canceller, otherCanceller, completer, releaser, payer, booker,
          sent, sentAgain, later, elsewhere

(* The transactions that follow the order admin-bookings.ts states, on two *)
(* bookings of one student and tutor.                                      *)
MCActors == {canceller, otherCanceller, completer, releaser, payer, booker}
MCRuns == [a \in MCActors |-> CASE a \in {canceller, otherCanceller} -> "forceCancel"
                                [] a = completer -> "forceComplete"
                                [] a = releaser -> "releaseEarning"
                                [] a = payer -> "markWithdrawalPaid"
                                [] a = booker -> "createScheduledBooking"]
MCBookings == {first, second}
MCOn == [a \in MCActors |-> IF a \in {canceller, payer} THEN first ELSE second]

(* One writer's messages: one in one call that is repeated, one more there, *)
(* and one in another conversation.                                        *)
MCSends == {sent, sentAgain, later, elsewhere}
MCWriter == [x \in MCSends |-> first]
MCThread == [x \in MCSends |-> IF x = elsewhere THEN second ELSE first]
MCClientKey == [x \in MCSends |-> IF x = sentAgain THEN sent ELSE x]

MCReminderKinds == {"24h", "1h"}
MCStartsAfter == [k \in MCReminderKinds |-> IF k = "24h" THEN 4 ELSE 1]
MCStartsWithin == [k \in MCReminderKinds |-> IF k = "24h" THEN 8 ELSE 5]
MCBookedAgo == [k \in MCReminderKinds |-> IF k = "24h" THEN 1 ELSE 2]

(* West and east of Greenwich, the clock put forward, back or left alone. *)
Zones == {UTC} \cup [before : {-2, -1}, after : {-2, -1}, at : {7, 8}]
               \cup [before : {1, 2}, after : {1, 2}, at : {5, 8}]
RuleSets == {{[weekday |-> 0, start |-> from, end |-> to], [weekday |-> 1, start |-> 0, end |-> 6]} :
                from \in {0, 1, 2}, to \in {4, 5, 6}}
Blocked == [date |-> 1, isAvailable |-> FALSE, start |-> 0, end |-> 0]
Shorter == [date |-> 1, isAvailable |-> TRUE, start |-> 1, end |-> 3]
Untimed == [date |-> 2, isAvailable |-> TRUE, start |-> 0, end |-> 0]
TakenSets == {{[start |-> 8, end |-> 9, status |-> s, createdAt |-> 1]} : s \in {"pending_payment", "confirmed"}}
Calendars == [zone : Zones, rules : RuleSets, exceptions : {{}, {Blocked}, {Shorter, Untimed}},
              bookings : TakenSets, now : {2, 4}, notice : {2}, horizon : {10}, duration : {1, 2}]
NoCalendar == [now |-> 0]
Viewers == {UTC, [before |-> 1, after |-> 2, at |-> 7], [before |-> -2, after |-> -2, at |-> 0]}
ViewedDays == [from |-> 1, to |-> 2]

VARIABLES part, calendar

Parts == {"locks", "room", "call", "channel", "thread", "badge", "bonus", "reminders", "slots", "modal",
          "asks", "stage", "sends", "review"}

Init ==
    /\ part \in Parts /\ calendar = NoCalendar
    /\ LocksInit /\ RoomInit /\ CallInit /\ ChannelInit /\ ThreadInit /\ BadgeInit /\ BonusInit
    /\ RemindersInit /\ ModalInit /\ AsksInit /\ StageInit /\ SendsInit /\ ReviewInit
    /\ part # "review" => photo

Next ==
    \/ /\ part = "locks" /\ LocksNext
       /\ UNCHANGED <<part, roomVars, callVars, channelVars, threadVars, badgeVars, bonusVars,
                      reminderVars, modalVars, asksVars, stageVars, sendVars, reviewVars, calendar>>
    \/ /\ part = "room" /\ RoomNext
       /\ UNCHANGED <<part, lockVars, callVars, channelVars, threadVars, badgeVars, bonusVars,
                      reminderVars, modalVars, asksVars, stageVars, sendVars, reviewVars, calendar>>
    \/ /\ part = "call" /\ CallNext
       /\ UNCHANGED <<part, lockVars, roomVars, channelVars, threadVars, badgeVars, bonusVars,
                      reminderVars, modalVars, asksVars, stageVars, sendVars, reviewVars, calendar>>
    \/ /\ part = "channel" /\ ChannelNext
       /\ UNCHANGED <<part, lockVars, roomVars, callVars, threadVars, badgeVars, bonusVars,
                      reminderVars, modalVars, asksVars, stageVars, sendVars, reviewVars, calendar>>
    \/ /\ part = "thread" /\ ThreadNext
       /\ UNCHANGED <<part, lockVars, roomVars, callVars, channelVars, badgeVars, bonusVars,
                      reminderVars, modalVars, asksVars, stageVars, sendVars, reviewVars, calendar>>
    \/ /\ part = "badge" /\ BadgeNext
       /\ UNCHANGED <<part, lockVars, roomVars, callVars, channelVars, threadVars, bonusVars,
                      reminderVars, modalVars, asksVars, stageVars, sendVars, reviewVars, calendar>>
    \/ /\ part = "bonus" /\ BonusNext
       /\ UNCHANGED <<part, lockVars, roomVars, callVars, channelVars, threadVars, badgeVars,
                      reminderVars, modalVars, asksVars, stageVars, sendVars, reviewVars, calendar>>
    \/ /\ part = "reminders" /\ RemindersNext
       /\ UNCHANGED <<part, lockVars, roomVars, callVars, channelVars, threadVars, badgeVars,
                      bonusVars, modalVars, asksVars, stageVars, sendVars, reviewVars, calendar>>
    \/ /\ part = "modal" /\ ModalNext
       /\ UNCHANGED <<part, lockVars, roomVars, callVars, channelVars, threadVars, badgeVars,
                      bonusVars, reminderVars, asksVars, stageVars, sendVars, reviewVars, calendar>>
    \/ /\ part = "asks" /\ AsksNext
       /\ UNCHANGED <<part, lockVars, roomVars, callVars, channelVars, threadVars, badgeVars,
                      bonusVars, reminderVars, modalVars, stageVars, sendVars, reviewVars, calendar>>
    \/ /\ part = "stage" /\ StageNext
       /\ UNCHANGED <<part, lockVars, roomVars, callVars, channelVars, threadVars, badgeVars,
                      bonusVars, reminderVars, modalVars, asksVars, sendVars, reviewVars, calendar>>
    \/ /\ part = "sends" /\ SendsNext
       /\ UNCHANGED <<part, lockVars, roomVars, callVars, channelVars, threadVars, badgeVars,
                      bonusVars, reminderVars, modalVars, asksVars, stageVars, reviewVars, calendar>>
    \/ /\ part = "review" /\ ReviewNext
       /\ UNCHANGED <<part, lockVars, roomVars, callVars, channelVars, threadVars, badgeVars,
                      bonusVars, reminderVars, modalVars, asksVars, stageVars, sendVars, calendar>>
    \/ /\ part = "slots" /\ calendar = NoCalendar /\ calendar' \in Calendars
       /\ UNCHANGED <<part, lockVars, roomVars, callVars, channelVars, threadVars, badgeVars,
                      bonusVars, reminderVars, modalVars, asksVars, stageVars, sendVars, reviewVars>>

vars == <<part, calendar, lockVars, roomVars, callVars, channelVars, threadVars, badgeVars,
          bonusVars, reminderVars, modalVars, asksVars, stageVars, sendVars, reviewVars>>

(* Time passes, a route answers and the job is called every fifteen        *)
(* minutes; prompts are answered, requests and the SDK's promises settle;  *)
(* a channel that is down is tried again and reads are answered. Each in   *)
(* the behaviours that are of its part.                                    *)
Fairness ==
    /\ WF_roomVars(part = "room" /\ RoomTick)
    /\ WF_roomVars(part = "room" /\ completeSessions)
    /\ \A p \in People : WF_roomVars(part = "room" /\ route[p] # Idle /\ Join(p))
    /\ \A n \in 1..MaxClients : WF_callVars(part = "call" /\ n <= Len(clients) /\ Settle(n))
    /\ WF_threadVars(part = "thread" /\ onSubscribed)
    /\ WF_threadVars(part = "thread" /\ Reading)
    /\ WF_threadVars(part = "thread" /\ markConversationRead)
    /\ WF_modalVars(part = "modal" /\ onRequested)
    /\ WF_modalVars(part = "modal" /\ onModalSubscribed)
    /\ WF_modalVars(part = "modal" /\ getOutgoingRequest)
    /\ WF_modalVars(part = "modal" /\ Hearing)
    /\ WF_asksVars(part = "asks" /\ onAsksSubscribed)
    /\ WF_asksVars(part = "asks" /\ listPendingIncomingRequests)
    /\ WF_asksVars(part = "asks" /\ AskHeard)
    /\ \A r \in Asks : WF_asksVars(part = "asks" /\ mergeIntoQueue(r))
    /\ WF_stageVars(part = "stage" /\ broadcastToken)
    /\ WF_stageVars(part = "stage" /\ JoinReturns)
    /\ WF_stageVars(part = "stage" /\ RenewalFires)
    /\ WF_stageVars(part = "stage" /\ renewToken)
    /\ WF_stageVars(part = "stage" /\ getBroadcastWatchable)
    /\ WF_stageVars(part = "stage" /\ onAir = "ended" /\ HostLeaves)

Spec == Init /\ [][Next]_vars /\ Fairness

(***************************************************************************)
(* Properties                                                              *)
(***************************************************************************)
(* What every state of a part is: its types, the safety properties no other *)
(* line of the run names, and what the inductive proofs of all rest on.    *)
PartsIInv ==
    /\ RoomTypeOK /\ CallTypeOK /\ ChannelTypeOK /\ ThreadTypeOK /\ BadgeTypeOK /\ BonusTypeOK
    /\ RemindersTypeOK /\ ModalTypeOK /\ AsksTypeOK /\ StageTypeOK /\ SendsTypeOK
    /\ ReviewTypeOK
    /\ StartedWhenBothCame /\ EndedInTime /\ AcceptIsOnItsWay /\ QueuedOnce
    /\ BadgeSettles /\ EndedIsLeft /\ ThreadWithinRate /\ KeyLandsOnce
    /\ SavesAreSeenAgain /\ ViewIsAhead /\ RunsAtPastWeeks
    /\ SendersStamped /\ CalledIsClaimed /\ UnclaimedWasMissed /\ KeyPerText /\ RowPerKey
    /\ LatestIsTrue /\ GoneIsReleased /\ HeldHasClient /\ AnswersAnAsk
    /\ AskingIsStamped /\ HoldIsStamped /\ DecidedByClock

(* compute-slots.ts: the slots of any calendar, for viewers in any zone, are *)
(* the ones its definition gives, and the server takes every one of them.    *)
SlotsOfCalendarAreExact == calendar # NoCalendar =>
    \A viewer \in Viewers : SlotsAreExact(calendar, ViewedDays, viewer)
=============================================================================
