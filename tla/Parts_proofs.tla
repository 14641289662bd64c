---------------------------- MODULE Parts_proofs ----------------------------
(***************************************************************************)
(* The server's parts that stand alone: the order of the admin's locks, a  *)
(* conversation's sends, the bonus, the reminders, the tutor review and    *)
(* the calendar; and, of the specification that has every part in it, that *)
(* none of them disturbs another.                                          *)
(***************************************************************************)
EXTENDS MCParts, SessionRoom_proofs, Tabs_proofs, SumLemmas

(***************************************************************************)
(* The order of the admin's locks: the order stated in admin-bookings.ts   *)
(* does what it is there for.                                              *)
(***************************************************************************)
(* The transactions that follow it. *)
Ordered == {"forceCancel", "forceComplete", "releaseEarning", "markWithdrawalPaid",
            "createScheduledBooking"}

KindRank == [k \in Kinds |-> CASE k = "payment" -> 1 [] k = "request" -> 2 [] k = "booking" -> 3
                               [] k = "studentWallet" -> 4 [] k = "earning" -> 5
                               [] k = "tutorWallet" -> 6]

Rank(r) == KindRank[r[1]]

(* A lock is held by the actor whose script has it behind the next row to take. *)
HeldBehind ==
    /\ taken \in [Actors -> Nat]
    /\ holder \in [Rows -> Actors \cup {Nobody}]
    /\ \A r \in Rows, a \in Actors : holder[r] = a =>
           \E i \in 1 .. taken[a] : i <= Len(Script(a)) /\ Row(a, Script(a)[i]) = r

LEMMA OrderedScripts ==
    ASSUME NEW t \in Ordered
    PROVE  /\ Len(Transactions[t]) \in Nat
           /\ \A i \in 1 .. Len(Transactions[t]) : Transactions[t][i] \in Kinds
           /\ \A i, j \in 1 .. Len(Transactions[t]) :
                  i < j => KindRank[Transactions[t][i]] < KindRank[Transactions[t][j]]
<1>1. CASE t = "forceCancel"
  <2>1. Transactions[t] = forceCancel
    BY <1>1 DEF Transactions
  <2> QED BY <2>1 DEF forceCancel, Kinds, KindRank
<1>2. CASE t = "forceComplete"
  <2>1. Transactions[t] = forceComplete
    BY <1>2 DEF Transactions
  <2> QED BY <2>1 DEF forceComplete, Kinds, KindRank
<1>3. CASE t = "releaseEarning"
  <2>1. Transactions[t] = releaseEarning
    BY <1>3 DEF Transactions
  <2> QED BY <2>1 DEF releaseEarning, Kinds, KindRank
<1>4. CASE t = "markWithdrawalPaid"
  <2>1. Transactions[t] = markWithdrawalPaid
    BY <1>4 DEF Transactions
  <2> QED BY <2>1 DEF markWithdrawalPaid, Kinds, KindRank
<1>5. CASE t = "createScheduledBooking"
  <2>1. Transactions[t] = createScheduledBooking
    BY <1>5 DEF Transactions
  <2> QED BY <2>1 DEF createScheduledBooking, Kinds, KindRank
<1> QED BY <1>1, <1>2, <1>3, <1>4, <1>5 DEF Ordered

LEMMA RankRange == \A r \in Rows : Rank(r) \in 1 .. 6
BY DEF Rank, KindRank, Kinds, Rows

(* Ranks are few, so some member of a group wants a row no other member outranks. *)
LEMMA Greatest ==
    ASSUME NEW S \in SUBSET (1 .. 6), S # {}
    PROVE  \E m \in S : \A x \in S : x <= m
<1>1. CASE 6 \in S
  BY <1>1
<1>2. CASE 6 \notin S /\ 5 \in S
  BY <1>2
<1>3. CASE 6 \notin S /\ 5 \notin S /\ 4 \in S
  BY <1>3
<1>4. CASE 6 \notin S /\ 5 \notin S /\ 4 \notin S /\ 3 \in S
  BY <1>4
<1>5. CASE S \cap 3 .. 6 = {} /\ 2 \in S
  BY <1>5
<1>6. CASE S \cap 2 .. 6 = {}
  <2>1. \A x \in S : x = 1
    BY <1>6
  <2>2. PICK m \in S : m = 1
    BY <2>1
  <2> QED BY <2>1, <2>2
<1> QED BY <1>1, <1>2, <1>3, <1>4, <1>5, <1>6

-----------------------------------------------------------------------------
LEMMA HeldBehindStarts == LocksInit => HeldBehind
BY LocksAssumption DEF LocksInit, HeldBehind

LEMMA HeldBehindStep ==
    ASSUME \A a \in Actors : Runs[a] \in Ordered
    PROVE  HeldBehind /\ [LocksNext]_lockVars => HeldBehind'
<1>a. \A a \in Actors : Len(Script(a)) \in Nat
  BY OrderedScripts DEF Script
<1> SUFFICES ASSUME HeldBehind, [LocksNext]_lockVars PROVE HeldBehind'
  OBVIOUS
<1>1. CASE \E a \in Actors : Lock(a)
  <2> PICK a \in Actors : Lock(a)
    BY <1>1
  <2> PICK r \in Rows : /\ Wants(a, r)
                        /\ holder' = [holder EXCEPT ![r] = a]
                        /\ taken' = [taken EXCEPT ![a] = @ + 1]
    BY DEF Lock
  <2>1. taken' \in [Actors -> Nat] /\ holder' \in [Rows -> Actors \cup {Nobody}]
    BY DEF HeldBehind
  <2>2. ASSUME NEW q \in Rows, NEW b \in Actors, holder'[q] = b
        PROVE  \E i \in 1 .. taken'[b] : i <= Len(Script(b)) /\ Row(b, Script(b)[i]) = q
    <3>1. CASE q = r
      <4>1. b = a
        BY <2>2, <3>1 DEF HeldBehind
      <4>2. taken[a] + 1 \in 1 .. taken'[a] /\ taken[a] + 1 <= Len(Script(a))
            /\ Row(a, Script(a)[taken[a] + 1]) = r
        BY <1>a DEF Wants, HeldBehind
      <4> QED BY <3>1, <4>1, <4>2
    <3>2. CASE q # r
      <4>1. holder[q] = b
        BY <2>2, <3>2 DEF HeldBehind
      <4>2. PICK i \in 1 .. taken[b] : i <= Len(Script(b)) /\ Row(b, Script(b)[i]) = q
        BY <4>1 DEF HeldBehind
      <4>3. i \in 1 .. taken'[b]
        BY <2>1 DEF HeldBehind
      <4> QED BY <4>2, <4>3
    <3> QED BY <3>1, <3>2
  <2>3. \A q \in Rows, b \in Actors : holder'[q] = b =>
            \E i \in 1 .. taken'[b] : i <= Len(Script(b)) /\ Row(b, Script(b)[i]) = q
    BY <2>2
  <2> QED BY <2>1, <2>3 DEF HeldBehind, Script, Row
<1>2. CASE \E a \in Actors : Commit(a)
  <2> PICK a \in Actors : Commit(a)
    BY <1>2
  <2>1. taken' \in [Actors -> Nat] /\ holder' \in [Rows -> Actors \cup {Nobody}]
    BY DEF Commit, HeldBehind
  <2>2. \A b \in Actors : b # a => taken'[b] = taken[b]
    BY DEF Commit, HeldBehind
  <2>3. \A q \in Rows, b \in Actors : holder'[q] = b => b # a /\ holder[q] = b
    BY LocksAssumption DEF Commit, HeldBehind
  <2>4. \A q \in Rows, b \in Actors : holder'[q] = b =>
            \E i \in 1 .. taken'[b] : i <= Len(Script(b)) /\ Row(b, Script(b)[i]) = q
    BY <2>2, <2>3 DEF HeldBehind
  <2> QED BY <2>1, <2>4 DEF HeldBehind, Script, Row
<1>3. CASE UNCHANGED lockVars
  BY <1>3 DEF lockVars, HeldBehind, Script, Row
<1> QED BY <1>1, <1>2, <1>3 DEF LocksNext

(* In a group, the one that wants the row of the greatest rank waits for   *)
(* nobody in it: its holder would want a row of a greater rank still.      *)
LEMMA OrderHasNoCycle ==
    ASSUME \A a \in Actors : Runs[a] \in Ordered
    PROVE  HeldBehind => NoWaitCycle
<1> SUFFICES ASSUME HeldBehind, NEW group \in (SUBSET Actors) \ {{}},
                    \A a \in group : \E b \in group : WaitsFor(a, b)
             PROVE  FALSE
  BY DEF NoWaitCycle
<1> DEFINE ranks == {Rank(r) : r \in {q \in Rows : \E a \in group : Wants(a, q)}}
<1>1. ranks \in SUBSET (1 .. 6)
  BY RankRange
<1>2. ranks # {}
  <2>1. PICK a \in group : a \in group
    <3>1. group # {}
      OBVIOUS
    <3> QED BY <3>1
  <2>2. PICK r \in Rows : Wants(a, r)
    BY DEF WaitsFor
  <2> QED BY <2>2
<1>3. PICK m \in ranks : \A x \in ranks : x <= m
  <2> HIDE DEF ranks
  <2> QED BY <1>1, <1>2, Greatest
<1>4. PICK r \in Rows, a \in group : Wants(a, r) /\ Rank(r) = m
  BY <1>3
<1>5. PICK b \in group : holder[r] = b
  BY <1>4 DEF WaitsFor, Wants
<1>6. PICK i \in 1 .. taken[b] : i <= Len(Script(b)) /\ Row(b, Script(b)[i]) = r
  BY <1>5 DEF HeldBehind
<1>7. PICK q \in Rows : Wants(b, q)
  BY DEF WaitsFor
<1>8. Rank(r) < Rank(q)
  <2>1. Runs[b] \in Ordered /\ taken[b] \in Nat
    BY DEF HeldBehind
  <2>2. /\ i \in 1 .. Len(Script(b)) /\ taken[b] + 1 \in 1 .. Len(Script(b))
        /\ i < taken[b] + 1 /\ Row(b, Script(b)[taken[b] + 1]) = q
    BY <1>6, <1>7, <2>1, OrderedScripts DEF Wants, Script
  <2>3. KindRank[Script(b)[i]] < KindRank[Script(b)[taken[b] + 1]]
    BY <2>1, <2>2, OrderedScripts DEF Script
  <2> QED BY <1>6, <2>2, <2>3 DEF Row, Rank
<1>9. Rank(q) \in ranks
  BY <1>7
<1>10. Rank(q) \in 1 .. 6 /\ Rank(r) \in 1 .. 6
  BY RankRange
<1> QED BY <1>3, <1>4, <1>8, <1>9, <1>10

(* Actors that all follow the order never deadlock on one another.         *)
THEOREM DocumentedOrderSuffices ==
    ASSUME \A a \in Actors : Runs[a] \in Ordered
    PROVE  LocksSpec => []NoWaitCycle
BY HeldBehindStarts, HeldBehindStep, OrderHasNoCycle, PTL DEF LocksSpec

(***************************************************************************)
(* A conversation's sends                                                  *)
(***************************************************************************)
InThread(x) == {m \in Recent(x) : Thread[m.send] = Thread[x]}

(* The row lock: one send of a thread is between its lock and its commit.  *)
OneHolder == \A x, y \in Sends :
    Thread[x] = Thread[y] /\ {sendAt[x], sendAt[y]} \subseteq {"locked", "counted"} => x = y

(* What a counted send saw of its own thread still stands.                 *)
CountStands == \A x \in Sends : sendAt[x] = "counted" =>
    Landing(x) = {} /\ Cardinality(InThread(x)) < RateCount

HasBegun == \A x \in Sends : sendAt[x] # "new" => beganAt[x] \in 1..LastSecond

SendsIInv ==
    /\ SendsTypeOK /\ IsFiniteSet(written) /\ HasBegun
    /\ OneHolder /\ CountStands /\ ThreadWithinRate /\ KeyLandsOnce

LEMMA SendsStart == SendsInit => SendsIInv
<1> SUFFICES ASSUME SendsInit PROVE SendsIInv
  OBVIOUS
<1>1. SendsTypeOK
  BY ConversationAssumption DEF SendsInit, SendsTypeOK
<1>2. IsFiniteSet(written)
  BY FS_EmptySet DEF SendsInit
<1>3. HasBegun /\ OneHolder /\ CountStands
  BY DEF SendsInit, HasBegun, OneHolder, CountStands
<1>4. ThreadWithinRate /\ KeyLandsOnce
  BY DEF SendsInit, ThreadWithinRate, KeyLandsOnce
<1>5. QED BY <1>1, <1>2, <1>3, <1>4 DEF SendsIInv

(* Steps that commit nothing leave what is counted alone.                  *)
LEMMA NothingCommitted ==
  ASSUME SendsIInv, UNCHANGED <<written, beganAt>>, SendsTypeOK', OneHolder', HasBegun',
         \A x \in Sends : sendAt'[x] = "counted" =>
            sendAt[x] = "counted" \/ (Landing(x) = {} /\ Cardinality(InThread(x)) < RateCount)
  PROVE  SendsIInv'
<1>1. CountStands'
  BY DEF SendsIInv, CountStands, Landing, InThread, Recent
<1>2. ThreadWithinRate' /\ KeyLandsOnce'
  BY DEF SendsIInv, ThreadWithinRate, KeyLandsOnce, Together
<1>3. QED BY <1>1, <1>2 DEF SendsIInv

LEMMA RecentIsFinite ==
  ASSUME SendsIInv, NEW x \in Sends
  PROVE  /\ IsFiniteSet(InThread(x)) /\ IsFiniteSet(Recent(x))
         /\ Cardinality(InThread(x)) \in Nat /\ Cardinality(Recent(x)) \in Nat
         /\ Cardinality(InThread(x)) <= Cardinality(Recent(x))
<1>1. Recent(x) \in SUBSET written /\ InThread(x) \in SUBSET Recent(x)
  BY DEF Recent, InThread
<1>2. IsFiniteSet(written)
  BY DEF SendsIInv
<1>3. IsFiniteSet(Recent(x))
  BY <1>1, <1>2, FS_Subset
<1>4. IsFiniteSet(InThread(x)) /\ Cardinality(InThread(x)) <= Cardinality(Recent(x))
  BY <1>1, <1>3, FS_Subset
<1>5. QED BY <1>3, <1>4, FS_CardinalityType

LEMMA LockKeeps == ASSUME SendsIInv, NEW x \in Sends, lockConversation(x) PROVE SendsIInv'
<1>1. SendsTypeOK' /\ HasBegun'
  BY DEF SendsIInv, SendsTypeOK, HasBegun, lockConversation, Comes
<1>2. OneHolder'
  <2> SUFFICES ASSUME NEW y \in Sends, NEW z \in Sends, Thread[y] = Thread[z],
                      sendAt'[y] \in {"locked", "counted"}, sendAt'[z] \in {"locked", "counted"}
               PROVE  y = z
    BY DEF OneHolder
  <2>1. \A h \in Sends : Thread[h] = Thread[x] => sendAt[h] \notin {"locked", "counted"}
    BY DEF lockConversation, Holding
  <2>2. \A h \in Sends : h # x => sendAt'[h] = sendAt[h]
    BY DEF lockConversation, Comes, SendsIInv, SendsTypeOK
  <2>3. CASE y # x /\ z # x
    BY <2>2, <2>3 DEF SendsIInv, OneHolder
  <2>4. CASE y = x \/ z = x
    BY <2>1, <2>2, <2>4
  <2>5. QED BY <2>3, <2>4
<1>3. \A y \in Sends : sendAt'[y] = "counted" => sendAt[y] = "counted"
  BY DEF lockConversation, Comes, SendsIInv, SendsTypeOK
<1>4. QED BY <1>1, <1>2, <1>3, NothingCommitted DEF lockConversation

LEMMA CountKeeps == ASSUME SendsIInv, NEW x \in Sends, countRecentBySender(x) PROVE SendsIInv'
<1>1. SendsTypeOK' /\ HasBegun' /\ OneHolder'
  BY DEF SendsIInv, SendsTypeOK, HasBegun, OneHolder, countRecentBySender, Comes
<1>2. ASSUME NEW y \in Sends, sendAt'[y] = "counted"
      PROVE  sendAt[y] = "counted" \/ (Landing(y) = {} /\ Cardinality(InThread(y)) < RateCount)
  <2>1. CASE y # x
    BY <1>2, <2>1 DEF countRecentBySender, Comes, SendsIInv, SendsTypeOK
  <2>2. CASE y = x
    <3>1. Landing(x) = {} /\ ~(Cardinality(Recent(x)) >= RateCount)
      BY <1>2, <2>2 DEF countRecentBySender, Comes, SendsIInv, SendsTypeOK
    <3>2. Cardinality(InThread(x)) < RateCount
      BY <3>1, RecentIsFinite, ConversationAssumption
    <3>3. QED BY <2>2, <3>1, <3>2
  <2>3. QED BY <2>1, <2>2
<1>3. QED BY <1>1, <1>2, NothingCommitted DEF countRecentBySender

(* A send that begins, is answered, or dies. *)
LEMMA OtherSendsKeep ==
  ASSUME SendsIInv, NEW x \in Sends, BeginSend(x) \/ AnswerRepeat(x) \/ SendDies(x)
  PROVE  SendsIInv'
<1>1. CASE BeginSend(x)
  <2>1. SendsTypeOK' /\ HasBegun' /\ OneHolder'
    BY <1>1 DEF SendsIInv, SendsTypeOK, HasBegun, OneHolder, BeginSend, Comes
  <2>2. CountStands'
    <3> SUFFICES ASSUME NEW y \in Sends, sendAt'[y] = "counted"
                 PROVE  (Landing(y) = {} /\ Cardinality(InThread(y)) < RateCount)'
      BY DEF CountStands
    <3>1. y # x /\ sendAt[y] = "counted" /\ beganAt'[y] = beganAt[y] /\ written' = written
      BY <1>1 DEF BeginSend, Comes, SendsIInv, SendsTypeOK
    <3>2. Landing(y)' = Landing(y) /\ InThread(y)' = InThread(y)
      BY <3>1 DEF Landing, InThread, Recent
    <3>3. QED BY <3>1, <3>2 DEF SendsIInv, CountStands
  <2>3. ThreadWithinRate' /\ KeyLandsOnce' /\ IsFiniteSet(written)'
    BY <1>1 DEF BeginSend, SendsIInv, ThreadWithinRate, KeyLandsOnce, Together
  <2>4. QED BY <2>1, <2>2, <2>3 DEF SendsIInv
<1>2. CASE AnswerRepeat(x) \/ SendDies(x)
  <2>1. SendsTypeOK' /\ HasBegun' /\ OneHolder'
    BY <1>2 DEF SendsIInv, SendsTypeOK, HasBegun, OneHolder, AnswerRepeat, SendDies, Comes
  <2>2. \A y \in Sends : sendAt'[y] = "counted" => sendAt[y] = "counted"
    BY <1>2 DEF AnswerRepeat, SendDies, Comes, SendsIInv, SendsTypeOK
  <2>3. UNCHANGED <<written, beganAt>>
    BY <1>2 DEF AnswerRepeat, SendDies
  <2>4. QED BY <2>1, <2>2, <2>3, NothingCommitted
<1>3. QED BY <1>1, <1>2

Message(x) == [send |-> x, at |-> beganAt[x]]

(* A window of the thread that the new message falls in has nothing in it  *)
(* that the count did not see: the count has no upper end, so it holds     *)
(* the messages of later clocks that got the lock first.                   *)
LEMMA WindowWasCounted ==
  ASSUME SendsIInv, NEW x \in Sends, storeMessage(x), NEW m \in written',
         Writer[m.send] = Writer[x], Thread[m.send] = Thread[x],
         Message(x) \in Together(m)'
  PROVE  Cardinality(Together(m)') <= RateCount
<1> DEFINE seen == InThread(x)
<1>1. IsFiniteSet(seen) /\ Cardinality(seen) \in Nat /\ Cardinality(seen) < RateCount
  BY RecentIsFinite DEF SendsIInv, CountStands, storeMessage, Comes
<1>2. IsFiniteSet(seen \cup {Message(x)}) /\ Cardinality(seen \cup {Message(x)}) <= RateCount
  <2>1. IsFiniteSet(seen \cup {Message(x)})
    BY <1>1, FS_AddElement
  <2>2. Cardinality(seen \cup {Message(x)}) = IF Message(x) \in seen THEN Cardinality(seen) ELSE Cardinality(seen) + 1
    BY <1>1, FS_AddElement
  <2>3. QED BY <1>1, <2>1, <2>2, ConversationAssumption
<1>3. Together(m)' \in SUBSET (seen \cup {Message(x)})
  <2> SUFFICES ASSUME NEW n \in Together(m)', n # Message(x) PROVE n \in seen
    OBVIOUS
  <2>1. written' = written \cup {Message(x)} /\ beganAt[x] \in 1..LastSecond
    BY DEF storeMessage, Message, Comes, SendsIInv, HasBegun
  <2>2. n \in written /\ Writer[n.send] = Writer[x] /\ Thread[n.send] = Thread[x] /\ n.at >= m.at
    BY <2>1 DEF Together
  <2>3. m.at \in Nat /\ n.at \in Nat /\ beganAt[x] \in Nat /\ RateWindow \in Nat \ {0}
    BY <2>1, <2>2, ConversationAssumption DEF SendsIInv, SendsTypeOK, Message
  <2>4. beganAt[x] <= m.at + RateWindow - 1
    BY <2>3 DEF Together, Message
  <2>5. n.at + RateWindow > beganAt[x]
    BY <2>2, <2>3, <2>4
  <2>6. QED BY <2>2, <2>5 DEF InThread, Recent
<1>4. QED
  <2>1. IsFiniteSet(Together(m)') /\ Cardinality(Together(m)') <= Cardinality(seen \cup {Message(x)})
    BY <1>2, <1>3, FS_Subset
  <2>2. Cardinality(Together(m)') \in Nat /\ Cardinality(seen \cup {Message(x)}) \in Nat
    BY <1>2, <2>1, FS_CardinalityType
  <2>3. QED BY <1>2, <2>1, <2>2, ConversationAssumption

LEMMA StoreKeeps == ASSUME SendsIInv, NEW x \in Sends, storeMessage(x) PROVE SendsIInv'
<1>1. /\ written' = written \cup {Message(x)} /\ beganAt' = beganAt /\ sendAt[x] = "counted"
      /\ beganAt[x] \in 1..LastSecond /\ Landing(x) = {}
  BY DEF storeMessage, Message, Comes, SendsIInv, HasBegun, CountStands
<1>2. SendsTypeOK'
  BY <1>1 DEF SendsIInv, SendsTypeOK, storeMessage, Comes, Message, Conversations
<1>3. IsFiniteSet(written)'
  BY <1>1, FS_AddElement DEF SendsIInv
<1>4. HasBegun' /\ OneHolder'
  BY DEF SendsIInv, SendsTypeOK, HasBegun, OneHolder, storeMessage, Comes
<1>5. CountStands'
  <2> SUFFICES ASSUME NEW y \in Sends, sendAt'[y] = "counted"
               PROVE  (Landing(y) = {} /\ Cardinality(InThread(y)) < RateCount)'
    BY DEF CountStands
  <2>1. y # x /\ sendAt[y] = "counted"
    BY DEF storeMessage, Comes, SendsIInv, SendsTypeOK
  <2>2. Thread[y] # Thread[x]
    BY <1>1, <2>1 DEF SendsIInv, OneHolder
  <2>3. Landing(y)' = Landing(y) /\ InThread(y)' = InThread(y)
    BY <1>1, <2>2 DEF Landing, InThread, Recent, Message
  <2>4. QED BY <2>1, <2>3 DEF SendsIInv, CountStands
<1>6. KeyLandsOnce'
  BY <1>1 DEF SendsIInv, KeyLandsOnce, Landing, Message
<1>7. ThreadWithinRate'
  <2> SUFFICES ASSUME NEW m \in written' PROVE Cardinality(Together(m)') <= RateCount
    BY DEF ThreadWithinRate
  <2>1. CASE Message(x) \in Together(m)'
    BY <2>1, WindowWasCounted DEF Together, Message
  <2>2. CASE Message(x) \notin Together(m)'
    <3>1. m \in written
      <4>1. Message(x).at \in Message(x).at..(Message(x).at + RateWindow - 1)
        BY <1>1, ConversationAssumption DEF Message
      <4>2. QED BY <1>1, <2>2, <4>1 DEF Together
    <3>2. Together(m)' = Together(m)
      BY <1>1, <2>2 DEF Together
    <3>3. QED BY <3>1, <3>2 DEF SendsIInv, ThreadWithinRate
  <2>3. QED BY <2>1, <2>2
<1>8. QED BY <1>2, <1>3, <1>4, <1>5, <1>6, <1>7 DEF SendsIInv

LEMMA SendsStep == SendsIInv /\ [SendsNext]_sendVars => SendsIInv'
<1> SUFFICES ASSUME SendsIInv, [SendsNext]_sendVars PROVE SendsIInv'
  OBVIOUS
<1>1. CASE DbTick \/ UNCHANGED sendVars
  <2>1. UNCHANGED <<written, beganAt, sendAt>>
    BY <1>1 DEF DbTick, sendVars
  <2>2. dbClock' \in 1..LastSecond /\ lastMessageAt' = lastMessageAt
    BY <1>1, ConversationAssumption DEF SendsIInv, SendsTypeOK, DbTick, sendVars
  <2>3. SendsTypeOK' /\ HasBegun' /\ OneHolder'
    BY <2>1, <2>2 DEF SendsIInv, SendsTypeOK, HasBegun, OneHolder
  <2>4. QED BY <2>1, <2>3, NothingCommitted
<1>2. ASSUME NEW x \in Sends, lockConversation(x) PROVE SendsIInv'
  BY <1>2, LockKeeps
<1>3. ASSUME NEW x \in Sends, countRecentBySender(x) PROVE SendsIInv'
  BY <1>3, CountKeeps
<1>4. ASSUME NEW x \in Sends, storeMessage(x) PROVE SendsIInv'
  BY <1>4, StoreKeeps
<1>5. ASSUME NEW x \in Sends, BeginSend(x) \/ AnswerRepeat(x) \/ SendDies(x) PROVE SendsIInv'
  BY <1>5, OtherSendsKeep
<1>6. QED BY <1>1, <1>2, <1>3, <1>4, <1>5 DEF SendsNext

(* However long calls wait for the lock with their clocks stopped, no      *)
(* window of time holds more of a writer's messages in a thread than the   *)
(* limit, for any limit and window.                                        *)
THEOREM ThreadIsWithinRate == SendsSpec => []ThreadWithinRate
<1>1. SendsIInv => ThreadWithinRate
  BY DEF SendsIInv
<1>2. QED BY <1>1, SendsStart, SendsStep, PTL DEF SendsSpec

(* For any number of calls of one send, together or after one another and  *)
(* with any of them dying, one message lands.                              *)
THEOREM KeyLandsOneMessage == SendsSpec => []KeyLandsOnce
<1>1. SendsIInv => KeyLandsOnce
  BY DEF SendsIInv
<1>2. QED BY <1>1, SendsStart, SendsStep, PTL DEF SendsSpec

(***************************************************************************)
(* The availability bonus                                                  *)
(***************************************************************************)
BonusIInv == BonusTypeOK /\ ViewIsAhead /\ BonusPaidOnce /\ RunsAtPastWeeks

(* Weeks follow one another as time does. *)
LEMMA WeeksPass ==
    /\ \A t \in Nat : WeekOf(t) \in Nat
    /\ \A s, t \in Nat : s <= t => WeekOf(s) <= WeekOf(t)
<1>1. WeekLength \in Nat \ {0}
  BY BonusAssumption
<1>2. ASSUME NEW t \in Nat
      PROVE  WeekOf(t) \in Nat /\ t % WeekLength \in 0..(WeekLength - 1)
             /\ t = (WeekLength * WeekOf(t)) + (t % WeekLength)
  BY <1>1 DEF WeekOf
<1>3. ASSUME NEW s \in Nat, NEW t \in Nat, s <= t PROVE WeekOf(s) <= WeekOf(t)
  <2> DEFINE a == WeekOf(s)
             b == WeekOf(t)
  <2>1. /\ a \in Nat /\ b \in Nat
        /\ \E p \in 0..(WeekLength - 1) : s = WeekLength * a + p
        /\ \E p \in 0..(WeekLength - 1) : t = WeekLength * b + p
    BY <1>2
  <2> HIDE DEF a, b
  <2>2. ASSUME b + 1 <= a PROVE WeekLength * b + WeekLength <= WeekLength * a
    BY <1>1, <2>1, <2>2
  <2>3. a <= b
    BY <1>1, <1>3, <2>1, <2>2
  <2> QED BY <2>3 DEF a, b
<1> QED BY <1>2, <1>3

LEMMA NowIsAWeek == BonusTypeOK => now \in Nat /\ WeekOf(now) \in Weeks
<1> SUFFICES ASSUME BonusTypeOK PROVE now \in Nat /\ WeekOf(now) \in Weeks
  OBVIOUS
<1>1. now \in Nat /\ LastTick \in Nat /\ now <= LastTick
  BY BonusAssumption DEF BonusTypeOK
<1> QED BY <1>1, WeeksPass DEF Weeks

(* Seconds added to a week count in the sums up to it and after it. *)
LEMMA UpToAdds ==
    ASSUME NEW tally \in [Weeks -> Nat], NEW v \in Weeks, NEW d \in Nat, NEW w \in Weeks
    PROVE  /\ UpTo(w, tally) \in Int
           /\ UpTo(w, [tally EXCEPT ![v] = @ + d]) = UpTo(w, tally) + IF v <= w THEN d ELSE 0
<1> DEFINE more == [tally EXCEPT ![v] = @ + d]
<1>1. WeekOf(LastTick) \in Nat
  BY BonusAssumption, WeeksPass
<1>2. w \in Nat /\ v \in Nat /\ 0..w \subseteq Weeks
  BY <1>1 DEF Weeks
<1>3. IsFiniteSet(0..w) /\ IntOn(tally, 0..w)
  BY <1>2, FS_Interval DEF IntOn
<1>4. UpTo(w, tally) \in Int
  BY <1>3, SumRemove DEF UpTo
<1>5. CASE v <= w
  <2>1. v \in 0..w /\ more[v] = tally[v] + d /\ tally[v] \in Int /\ more[v] \in Int
    BY <1>2, <1>5
  <2>2. SameOn(more, tally, (0..w) \ {v})
    BY <1>2 DEF SameOn
  <2> HIDE DEF more
  <2>3. UpTo(w, more) = UpTo(w, tally) + (more[v] - tally[v])
    BY <1>3, <2>1, <2>2, SumChange DEF UpTo
  <2>4. UpTo(w, more) = UpTo(w, tally) + d
    BY <1>4, <2>1, <2>3
  <2> QED BY <1>4, <1>5, <2>4 DEF more
<1>6. CASE ~(v <= w)
  <2>1. SameOn(more, tally, 0..w)
    BY <1>2, <1>6 DEF SameOn
  <2> HIDE DEF more
  <2>2. UpTo(w, more) = UpTo(w, tally)
    BY <1>3, <2>1, SumSame DEF UpTo
  <2> QED BY <1>4, <1>6, <2>2 DEF more
<1> QED BY <1>4, <1>5, <1>6

LEMMA BonusStarts == BonusInit => BonusIInv
<1> SUFFICES ASSUME BonusInit PROVE BonusIInv
  OBVIOUS
<1>1. WeekOf(LastTick) \in Nat
  BY BonusAssumption, WeeksPass
<1>2. BonusTypeOK
  <2>1. 0 \in Weeks
    BY <1>1 DEF Weeks
  <2>2. job \in [BonusRuns -> [week : Weeks, listed : BOOLEAN, busy : BOOLEAN]]
    BY <2>1 DEF BonusInit, OffDuty
  <2>3. now \in 1..LastTick /\ lastSeenAt \in 0..LastTick
    BY BonusAssumption DEF BonusInit
  <2>4. seconds \in [Weeks -> Nat] /\ inView \in [Weeks -> Nat] /\ paid \in [Weeks -> Nat]
    BY DEF BonusInit
  <2> QED BY <2>2, <2>3, <2>4 DEF BonusInit, BonusTypeOK
<1>3. BonusPaidOnce /\ RunsAtPastWeeks
  BY DEF BonusInit, BonusPaidOnce, RunsAtPastWeeks, OffDuty
<1>4. \A w \in Weeks : UpTo(w, seconds) = 0 /\ UpTo(w, inView) = 0
  <2> SUFFICES ASSUME NEW w \in Weeks PROVE UpTo(w, seconds) = 0 /\ UpTo(w, inView) = 0
    OBVIOUS
  <2>1. IsFiniteSet(0..w) /\ 0..w \subseteq Weeks
    BY <1>1, FS_Interval DEF Weeks
  <2>2. \A v \in 0..w : seconds[v] = 0 /\ inView[v] = 0
    BY <2>1 DEF BonusInit
  <2> QED BY <2>1, <2>2, SumZero DEF UpTo
<1>5. ViewIsAhead
  BY <1>4 DEF BonusInit, ViewIsAhead, Pending
<1> QED BY <1>2, <1>3, <1>5 DEF BonusIInv

(* What a beat adds: never more than the window, nor than the gap. *)
LEMMA AccrualIsBounded ==
    ASSUME BonusTypeOK, lastSeenAt <= now
    PROVE  /\ secondsToAccrue(lastSeenAt, now) \in Nat /\ Pending \in Nat
           /\ lastSeenAt # 0 => secondsToAccrue(lastSeenAt, now) =
                  IF now - lastSeenAt >= StaleSeconds THEN StaleSeconds ELSE now - lastSeenAt
<1>1. now \in Nat /\ lastSeenAt \in Nat /\ StaleSeconds \in Nat
  BY BonusAssumption DEF BonusTypeOK
<1> QED BY <1>1 DEF secondsToAccrue, Pending

(* The promises about payments need of a step no more than this. *)
LEMMA PaymentsStay ==
    ASSUME BonusIInv, UNCHANGED <<awards, paid, job>>, now' \in Nat, now <= now',
           \A w \in Weeks : seconds[w] \in Nat /\ seconds'[w] \in Nat /\ seconds[w] <= seconds'[w]
    PROVE  BonusPaidOnce' /\ RunsAtPastWeeks'
<1>1. WeekOf(now) \in Nat /\ WeekOf(now)' \in Nat /\ WeekOf(now) <= WeekOf(now)'
  <2>1. WeekOf(now)' = WeekOf(now')
    BY DEF WeekOf
  <2> QED BY <2>1, WeeksPass, NowIsAWeek DEF BonusIInv
<1>2. Weeks \subseteq Nat /\ MinSeconds \in Nat
  BY BonusAssumption, WeeksPass DEF Weeks
<1>3. awards \subseteq Weeks /\ \A r \in BonusRuns : job[r].week \in Weeks
  BY DEF BonusIInv, BonusTypeOK
<1>4. BonusPaidOnce'
  BY <1>1, <1>2, <1>3 DEF BonusIInv, BonusPaidOnce
<1>5. RunsAtPastWeeks'
  <2>1. \A r \in BonusRuns : /\ job[r].busy => job[r].week < WeekOf(now)
                             /\ job[r].listed => job[r].busy /\ seconds[job[r].week] >= MinSeconds
    BY DEF BonusIInv, RunsAtPastWeeks
  <2> SUFFICES ASSUME NEW r \in BonusRuns
               PROVE  /\ job[r].busy => job[r].week < WeekOf(now)'
                      /\ job[r].listed => job[r].busy /\ seconds'[job[r].week] >= MinSeconds
    BY DEF RunsAtPastWeeks
  <2> DEFINE w == job[r].week
  <2>2. w \in Weeks /\ w \in Nat /\ seconds[w] \in Nat /\ seconds'[w] \in Nat /\ seconds[w] <= seconds'[w]
    BY <1>2, <1>3
  <2>3. (job[r].busy => w < WeekOf(now)) /\ (job[r].listed => job[r].busy /\ seconds[w] >= MinSeconds)
    BY <2>1
  <2> HIDE DEF w
  <2>4. (w < WeekOf(now) => w < WeekOf(now)') /\ (seconds[w] >= MinSeconds => seconds'[w] >= MinSeconds)
    BY <1>1, <1>2, <2>2
  <2> QED BY <2>3, <2>4 DEF w
<1> QED BY <1>4, <1>5

LEMMA BeatKeeps == ASSUME BonusIInv, beat PROVE BonusIInv'
<1> DEFINE v == WeekOf(now)
           d == Pending
<1>1. BonusTypeOK /\ v \in Weeks /\ lastSeenAt <= now /\ d \in Nat /\ Weeks \subseteq Nat
  BY NowIsAWeek, AccrualIsBounded, BonusAssumption, WeeksPass DEF BonusIInv, ViewIsAhead, Weeks
<1>2. seconds' = [seconds EXCEPT ![v] = @ + d] /\ seconds \in [Weeks -> Nat]
  BY <1>1 DEF beat, Pending, BonusTypeOK
<1>3. lastSeenAt' = now /\ UNCHANGED <<now, isLive, inView, awards, paid, job>> /\ now \in 1..LastTick
  BY <1>1 DEF beat, BonusTypeOK
<1>4. Pending' = 0
  BY <1>3 DEF Pending, secondsToAccrue
<1>5. UNCHANGED v
  BY <1>3 DEF WeekOf
<1> HIDE DEF v, d
<1>6. seconds' \in [Weeks -> Nat] /\ \A w \in Weeks : seconds[w] \in Nat /\ seconds'[w] \in Nat /\ seconds[w] <= seconds'[w]
  BY <1>1, <1>2
<1>7. BonusTypeOK'
  BY <1>1, <1>3, <1>6, BonusAssumption DEF BonusTypeOK
<1>8. BonusPaidOnce' /\ RunsAtPastWeeks'
  BY <1>1, <1>3, <1>6, PaymentsStay
<1>9. ViewIsAhead'
  <2>1. \A w \in Weeks : UpTo(w, seconds)' = UpTo(w, seconds) + IF v <= w THEN d ELSE 0
    BY <1>1, <1>2, UpToAdds DEF UpTo
  <2>2. \A w \in Weeks : UpTo(w, seconds) \in Int /\ UpTo(w, inView) \in Int
                         /\ UpTo(w, inView)' = UpTo(w, inView)
    BY <1>1, <1>2, <1>3, UpToAdds DEF BonusTypeOK, UpTo
  <2>3. \A w \in Weeks : IF w < v THEN UpTo(w, seconds) <= UpTo(w, inView)
                         ELSE UpTo(w, seconds) + d <= UpTo(w, inView)
    BY DEF BonusIInv, ViewIsAhead, v, d
  <2>4. \A w \in Weeks : UpTo(w, seconds)' <= UpTo(w, inView)'
    BY <1>1, <2>1, <2>2, <2>3
  <2>5. WeekOf(now)' = v
    BY <1>5 DEF v
  <2>6. \A w \in Weeks : UpTo(w, seconds)' \in Int
    BY <1>1, <2>1, <2>2
  <2> QED BY <1>3, <1>4, <2>4, <2>5, <2>6 DEF ViewIsAhead
<1> QED BY <1>7, <1>8, <1>9 DEF BonusIInv

LEMMA GoLiveKeeps == ASSUME BonusIInv, goLive PROVE BonusIInv'
<1>1. BonusTypeOK /\ WeekOf(now) \in Weeks /\ lastSeenAt <= now /\ Pending \in Nat /\ Weeks \subseteq Nat
  BY NowIsAWeek, AccrualIsBounded, BonusAssumption, WeeksPass DEF BonusIInv, ViewIsAhead, Weeks
<1>2. UNCHANGED <<now, seconds, inView, awards, paid, job>> /\ lastSeenAt' = now /\ isLive' = TRUE
  BY DEF goLive
<1>3. now \in 1..LastTick /\ seconds \in [Weeks -> Nat] /\ inView \in [Weeks -> Nat]
  BY <1>1 DEF BonusTypeOK
<1>4. BonusTypeOK'
  BY <1>1, <1>2, BonusAssumption DEF BonusTypeOK
<1>5. BonusPaidOnce' /\ RunsAtPastWeeks'
  BY <1>2, <1>3, PaymentsStay
<1>6. ViewIsAhead'
  <2>1. Pending' = 0 /\ WeekOf(now)' = WeekOf(now)
    BY <1>2, <1>3 DEF Pending, secondsToAccrue, WeekOf
  <2>2. \A w \in Weeks : /\ UpTo(w, seconds) \in Int /\ UpTo(w, inView) \in Int
                         /\ UpTo(w, seconds)' = UpTo(w, seconds) /\ UpTo(w, inView)' = UpTo(w, inView)
    BY <1>1, <1>2, <1>3, UpToAdds DEF UpTo
  <2>3. \A w \in Weeks : IF w < WeekOf(now) THEN UpTo(w, seconds) <= UpTo(w, inView)
                         ELSE UpTo(w, seconds) + Pending <= UpTo(w, inView)
    BY DEF BonusIInv, ViewIsAhead
  <2>4. \A w \in Weeks : UpTo(w, seconds) <= UpTo(w, inView)
    BY <1>1, <2>2, <2>3
  <2> QED BY <1>2, <1>3, <2>1, <2>2, <2>4 DEF ViewIsAhead
<1> QED BY <1>4, <1>5, <1>6 DEF BonusIInv

LEMMA GoOfflineKeeps == ASSUME BonusIInv, goOffline PROVE BonusIInv'
<1>1. BonusTypeOK /\ WeekOf(now) \in Weeks /\ lastSeenAt <= now /\ Pending \in Nat /\ Weeks \subseteq Nat
  BY NowIsAWeek, AccrualIsBounded, BonusAssumption, WeeksPass DEF BonusIInv, ViewIsAhead, Weeks
<1>2. UNCHANGED <<now, lastSeenAt, seconds, inView, awards, paid, job>> /\ isLive' = FALSE
  BY DEF goOffline
<1>3. now \in 1..LastTick /\ seconds \in [Weeks -> Nat] /\ inView \in [Weeks -> Nat]
  BY <1>1 DEF BonusTypeOK
<1>4. BonusTypeOK'
  BY <1>1, <1>2, BonusAssumption DEF BonusTypeOK
<1>5. BonusPaidOnce' /\ RunsAtPastWeeks'
  BY <1>2, <1>3, PaymentsStay
<1>6. ViewIsAhead'
  <2>1. Pending' = 0 /\ WeekOf(now)' = WeekOf(now)
    BY <1>2, <1>3 DEF Pending, WeekOf
  <2>2. \A w \in Weeks : /\ UpTo(w, seconds) \in Int /\ UpTo(w, inView) \in Int
                         /\ UpTo(w, seconds)' = UpTo(w, seconds) /\ UpTo(w, inView)' = UpTo(w, inView)
    BY <1>1, <1>2, <1>3, UpToAdds DEF UpTo
  <2>3. \A w \in Weeks : IF w < WeekOf(now) THEN UpTo(w, seconds) <= UpTo(w, inView)
                         ELSE UpTo(w, seconds) + Pending <= UpTo(w, inView)
    BY DEF BonusIInv, ViewIsAhead
  <2>4. \A w \in Weeks : UpTo(w, seconds) <= UpTo(w, inView)
    BY <1>1, <2>2, <2>3
  <2> QED BY <1>1, <1>2, <1>3, <2>1, <2>2, <2>4 DEF ViewIsAhead
<1> QED BY <1>4, <1>5, <1>6 DEF BonusIInv

(* A tick makes a second pending only if the tutor was listed meanwhile. *)
LEMMA BonusTickKeeps == ASSUME BonusIInv, BonusTick PROVE BonusIInv'
<1> DEFINE v == WeekOf(now)
           d == IF InLiveTutors THEN 1 ELSE 0
<1>1. BonusTypeOK /\ v \in Weeks /\ lastSeenAt <= now /\ Pending \in Nat /\ Weeks \subseteq Nat
  BY NowIsAWeek, AccrualIsBounded, BonusAssumption, WeeksPass DEF BonusIInv, ViewIsAhead, Weeks
<1>2. /\ UNCHANGED <<isLive, lastSeenAt, seconds, awards, paid, job>>
      /\ now < LastTick /\ now' = now + 1
      /\ inView' = [inView EXCEPT ![v] = @ + d]
  BY DEF BonusTick
<1>3. /\ now \in 1..LastTick /\ LastTick \in Nat /\ lastSeenAt \in Nat /\ d \in Nat
      /\ seconds \in [Weeks -> Nat] /\ inView \in [Weeks -> Nat]
  BY <1>1, BonusAssumption DEF BonusTypeOK
<1>4. Pending' <= Pending + d /\ Pending' \in Nat
  BY <1>1, <1>2, <1>3, BonusAssumption DEF Pending, secondsToAccrue, InLiveTutors
<1>5. WeekOf(now)' \in Nat /\ v <= WeekOf(now)'
  <2>1. WeekOf(now)' = WeekOf(now + 1)
    BY <1>2 DEF WeekOf
  <2> QED BY <1>3, <2>1, WeeksPass
<1> HIDE DEF v, d
<1>6. BonusTypeOK'
  <2>1. inView' \in [Weeks -> Nat] /\ now' \in 1..LastTick
    BY <1>1, <1>2, <1>3
  <2> QED BY <1>1, <1>2, <2>1 DEF BonusTypeOK
<1>7. BonusPaidOnce' /\ RunsAtPastWeeks'
  BY <1>2, <1>3, PaymentsStay
<1>8. ViewIsAhead'
  <2>1. \A w \in Weeks : UpTo(w, inView)' = UpTo(w, inView) + IF v <= w THEN d ELSE 0
    <3>1. ASSUME NEW w \in Weeks
          PROVE  UpTo(w, [inView EXCEPT ![v] = @ + d]) = UpTo(w, inView) + IF v <= w THEN d ELSE 0
      <4>1. inView \in [Weeks -> Nat] /\ v \in Weeks /\ d \in Nat
        BY <1>1, <1>3
      <4> QED BY ONLY <4>1, w \in Weeks, UpToAdds
    <3> QED BY <1>2, <3>1 DEF UpTo
  <2>2. \A w \in Weeks : UpTo(w, seconds) \in Int /\ UpTo(w, inView) \in Int
                         /\ UpTo(w, seconds)' = UpTo(w, seconds)
    BY <1>1, <1>2, <1>3, UpToAdds DEF UpTo
  <2>3. \A w \in Weeks : IF w < v THEN UpTo(w, seconds) <= UpTo(w, inView)
                         ELSE UpTo(w, seconds) + Pending <= UpTo(w, inView)
    BY DEF BonusIInv, ViewIsAhead, v
  <2>4. \A w \in Weeks : /\ w < v => UpTo(w, seconds)' <= UpTo(w, inView)'
                         /\ v <= w => UpTo(w, seconds)' + Pending' <= UpTo(w, inView)'
    BY <1>1, <1>3, <1>4, <2>1, <2>2, <2>3
  <2>5. \A w \in Weeks : UpTo(w, seconds)' \in Int /\ UpTo(w, inView)' \in Int
    BY <1>1, <1>3, <2>1, <2>2
  <2>6. \A w \in Weeks : IF w < WeekOf(now)' THEN UpTo(w, seconds)' <= UpTo(w, inView)'
                         ELSE UpTo(w, seconds)' + Pending' <= UpTo(w, inView)'
    BY <1>1, <1>4, <1>5, <2>4, <2>5
  <2>7. lastSeenAt' <= now'
    BY <1>1, <1>2, <1>3
  <2> QED BY <2>6, <2>7 DEF ViewIsAhead
<1> QED BY <1>6, <1>7, <1>8 DEF BonusIInv

(* A step of a run leaves the clock and the counted time alone. *)
LEMMA RunsOnlyPay ==
    ASSUME BonusIInv, UNCHANGED <<now, isLive, lastSeenAt, seconds, inView>>,
           awards' \subseteq Weeks, paid' \in [Weeks -> Nat], BonusPaidOnce',
           NEW r \in BonusRuns, NEW j, job' = [job EXCEPT ![r] = j],
           j \in [week : Weeks, listed : BOOLEAN, busy : BOOLEAN],
           j.busy => j.week < WeekOf(now),
           j.listed => j.busy /\ seconds[j.week] >= MinSeconds
    PROVE  BonusIInv'
<1>1. BonusTypeOK'
  BY DEF BonusIInv, BonusTypeOK
<1>2. ViewIsAhead'
  BY DEF BonusIInv, ViewIsAhead, Pending, UpTo, secondsToAccrue, WeekOf
<1>3. job \in [BonusRuns -> [week : Weeks, listed : BOOLEAN, busy : BOOLEAN]]
  BY DEF BonusIInv, BonusTypeOK
<1>4. RunsAtPastWeeks'
  <2>1. WeekOf(now)' = WeekOf(now)
    BY DEF WeekOf
  <2>2. \A q \in BonusRuns : job'[q] = IF q = r THEN j ELSE job[q]
    BY <1>3
  <2>3. \A q \in BonusRuns :
            /\ job'[q].busy => job'[q].week < WeekOf(now)
            /\ job'[q].listed => job'[q].busy /\ seconds[job'[q].week] >= MinSeconds
    BY <2>2 DEF BonusIInv, RunsAtPastWeeks
  <2> QED BY <2>1, <2>3 DEF RunsAtPastWeeks
<1> QED BY <1>1, <1>2, <1>4 DEF BonusIInv

(* A run that goes on is at a week that is over, or off duty. *)
LEMMA NextIsAWeek ==
    ASSUME BonusIInv, NEW r \in BonusRuns, job[r].busy
    PROVE  /\ NextWeek(r) \in [week : Weeks, listed : BOOLEAN, busy : BOOLEAN]
           /\ NextWeek(r).busy => NextWeek(r).week < WeekOf(now)
           /\ ~NextWeek(r).listed
<1>1. WeekOf(now) \in Weeks /\ WeekOf(LastTick) \in Nat
  BY NowIsAWeek, BonusAssumption, WeeksPass DEF BonusIInv
<1>2. job[r].week \in Weeks
  BY DEF BonusIInv, BonusTypeOK
<1>3. 0 \in Weeks /\ (job[r].week + 1 < WeekOf(now) => job[r].week + 1 \in Weeks)
  BY <1>1, <1>2 DEF Weeks
<1> QED BY <1>3 DEF NextWeek, OffDuty

LEMMA RunsKeep ==
    ASSUME BonusIInv, NEW r \in BonusRuns,
           StartRun(r) \/ listQualifiers(r) \/ claimAndCredit(r) \/ RunDies(r)
    PROVE  BonusIInv'
<1>1. /\ WeekOf(now) \in Weeks /\ WeekOf(LastTick) \in Nat /\ Weeks \subseteq Nat
      /\ WeeksToCheck \in Nat \ {0} /\ 0 \in Weeks
  BY NowIsAWeek, BonusAssumption, WeeksPass DEF BonusIInv, Weeks
<1>2. /\ awards \subseteq Weeks /\ paid \in [Weeks -> Nat] /\ BonusPaidOnce
      /\ job[r] \in [week : Weeks, listed : BOOLEAN, busy : BOOLEAN]
      /\ job[r].busy => job[r].week < WeekOf(now)
      /\ job[r].listed => job[r].busy /\ seconds[job[r].week] >= MinSeconds
  BY DEF BonusIInv, BonusTypeOK, RunsAtPastWeeks
<1>3. (UNCHANGED <<now, seconds, awards, paid>>) => BonusPaidOnce'
  BY <1>2 DEF BonusPaidOnce, WeekOf
<1>4. CASE StartRun(r)
  <2>1. FirstWeek \in Weeks /\ FirstWeek < WeekOf(now)
    BY <1>1, <1>4 DEF FirstWeek, StartRun, Weeks
  <2> DEFINE j == [week |-> FirstWeek, listed |-> FALSE, busy |-> TRUE]
  <2>2. j \in [week : Weeks, listed : BOOLEAN, busy : BOOLEAN] /\ j.week < WeekOf(now) /\ ~j.listed
    BY <2>1
  <2> QED BY <1>2, <1>3, <1>4, <2>2, RunsOnlyPay DEF StartRun
<1>5. CASE listQualifiers(r)
  <2>1. UNCHANGED <<now, isLive, lastSeenAt, seconds, inView, awards, paid>> /\ job[r].busy
    BY <1>5 DEF listQualifiers
  <2>2. CASE seconds[job[r].week] >= MinSeconds /\ job' = [job EXCEPT ![r].listed = TRUE]
    <3> DEFINE j == [job[r] EXCEPT !.listed = TRUE]
    <3>1. j \in [week : Weeks, listed : BOOLEAN, busy : BOOLEAN] /\ j.week = job[r].week /\ j.busy
      BY <1>2, <2>1
    <3>2. job' = [job EXCEPT ![r] = j]
      BY <2>2
    <3> HIDE DEF j
    <3> QED BY <1>2, <1>3, <2>1, <2>2, <3>1, <3>2, RunsOnlyPay
  <2>3. CASE job' = [job EXCEPT ![r] = NextWeek(r)]
    BY <1>2, <1>3, <2>1, <2>3, NextIsAWeek, RunsOnlyPay
  <2> QED BY <1>5, <2>2, <2>3 DEF listQualifiers
<1>6. CASE claimAndCredit(r)
  <2>1. /\ UNCHANGED <<now, isLive, lastSeenAt, seconds, inView>> /\ job[r].listed
        /\ job' = [job EXCEPT ![r] = NextWeek(r)]
    BY <1>6 DEF claimAndCredit
  <2>2. CASE UNCHANGED <<awards, paid>>
    BY <1>2, <1>3, <2>1, <2>2, NextIsAWeek, RunsOnlyPay
  <2>3. CASE /\ job[r].week \notin awards
             /\ awards' = awards \cup {job[r].week}
             /\ paid' = [paid EXCEPT ![job[r].week] = @ + 1]
    <3>1. awards' \subseteq Weeks /\ paid' \in [Weeks -> Nat]
      BY <1>2, <2>3
    <3>2. BonusPaidOnce'
      <4> DEFINE v == job[r].week
      <4>1. v \in Weeks /\ v < WeekOf(now) /\ seconds[v] >= MinSeconds
        BY <1>2, <2>1
      <4>2. \A w \in Weeks : paid[w] = (IF w \in awards THEN 1 ELSE 0)
                             /\ (w \in awards => w < WeekOf(now) /\ seconds[w] >= MinSeconds)
        BY <1>2 DEF BonusPaidOnce
      <4>3. v \notin awards /\ awards' = awards \cup {v} /\ paid' = [paid EXCEPT ![v] = @ + 1]
        BY <2>3
      <4>4. WeekOf(now)' = WeekOf(now) /\ UNCHANGED seconds
        BY <2>1 DEF WeekOf
      <4> HIDE DEF v
      <4>5. \A w \in Weeks : paid'[w] = (IF w \in awards' THEN 1 ELSE 0)
        BY <1>2, <4>1, <4>2, <4>3
      <4> QED BY <4>1, <4>2, <4>3, <4>4, <4>5 DEF BonusPaidOnce
    <3> QED BY <1>2, <2>1, <3>1, <3>2, NextIsAWeek, RunsOnlyPay
  <2> QED BY <1>6, <2>2, <2>3 DEF claimAndCredit
<1>7. CASE RunDies(r)
  <2>1. OffDuty \in [week : Weeks, listed : BOOLEAN, busy : BOOLEAN] /\ ~OffDuty.busy /\ ~OffDuty.listed
    BY <1>1 DEF OffDuty
  <2> QED BY <1>2, <1>3, <1>7, <2>1, RunsOnlyPay DEF RunDies
<1> QED BY <1>4, <1>5, <1>6, <1>7

LEMMA BonusStep == BonusIInv /\ [BonusNext]_bonusVars => BonusIInv'
<1>1. ASSUME BonusIInv, UNCHANGED bonusVars PROVE BonusIInv'
  BY <1>1 DEF BonusIInv, bonusVars, BonusTypeOK, ViewIsAhead, BonusPaidOnce, RunsAtPastWeeks,
              Pending, UpTo, secondsToAccrue, WeekOf
<1> QED BY <1>1, BeatKeeps, GoLiveKeeps, GoOfflineKeeps, BonusTickKeeps, RunsKeep DEF BonusNext

(* What is listed bounds what is credited. *)
LEMMA CreditedWasInView == BonusIInv => OnlineTimeWasInView
<1> SUFFICES ASSUME BonusIInv PROVE OnlineTimeWasInView
  OBVIOUS
<1>1. BonusTypeOK /\ WeekOf(now) \in Weeks /\ Pending \in Nat /\ Weeks \subseteq Nat
  BY NowIsAWeek, AccrualIsBounded, BonusAssumption, WeeksPass DEF BonusIInv, ViewIsAhead, Weeks
<1>2. \A w \in Weeks : UpTo(w, seconds) \in Int /\ UpTo(w, inView) \in Int
  BY <1>1, UpToAdds DEF BonusTypeOK
<1>3. \A w \in Weeks : IF w < WeekOf(now) THEN UpTo(w, seconds) <= UpTo(w, inView)
                       ELSE UpTo(w, seconds) + Pending <= UpTo(w, inView)
  BY DEF BonusIInv, ViewIsAhead
<1>4. \A w \in Weeks : UpTo(w, seconds) <= UpTo(w, inView)
  BY <1>1, <1>2, <1>3
<1> QED BY <1>4 DEF OnlineTimeWasInView

(* accrual.ts: the live seconds a tutor is credited with, up to the end of *)
(* any week, are no more than the time live_tutors listed the tutor.       *)
THEOREM OnlineTimeIsInView == BonusSpec => []OnlineTimeWasInView
BY CreditedWasInView, BonusStarts, BonusStep, PTL DEF BonusSpec

(* run-bonus.ts: whatever runs overlap or die, a week is paid once at most, *)
(* and only a week that is over and in which the tutor was live long enough. *)
THEOREM WeeksArePaidOnce == BonusSpec => []BonusPaidOnce
<1>1. BonusIInv => BonusPaidOnce
  BY DEF BonusIInv
<1> QED BY <1>1, BonusStarts, BonusStep, PTL DEF BonusSpec

(***************************************************************************)
(* The reminders                                                           *)
(***************************************************************************)
RemindersIInv == RemindersTypeOK /\ SendersStamped /\ CalledIsClaimed
                 /\ UnclaimedWasMissed /\ RemindedOnceInTime

(* One more missed call is one more cadence. *)
LEMMA CallsMissed ==
    ASSUME NEW C \in Nat, NEW m \in Nat, NEW M \in Nat, m <= M
    PROVE  m * C \in Nat /\ M * C \in Nat /\ (m + 1) * C = (m * C) + C /\ m * C <= M * C
<1>1. PICK d \in Nat : M = m + d
  <2>1. M - m \in Nat /\ M = m + (M - m)
    OBVIOUS
  <2> QED BY <2>1
<1>2. (m + d) * C = (m * C) + (d * C) /\ d * C \in Nat /\ m * C \in Nat /\ (m + 1) * C = (m * C) + C
  OBVIOUS
<1> QED BY <1>1, <1>2

(* The remainder counts on, and starts over at the cadence. *)
LEMMA RemainderSteps ==
    ASSUME NEW C \in Nat \ {0}, NEW t \in Nat
    PROVE  t % C \in 0..(C - 1) /\ (t + 1) % C = IF (t % C) + 1 = C THEN 0 ELSE (t % C) + 1
<1> DEFINE q == t \div C
           r == t % C
           p == (t + 1) \div C
           s == (t + 1) % C
<1>1. q \in Nat /\ r \in 0..(C - 1) /\ t = (C * q) + r
  OBVIOUS
<1>2. p \in Nat /\ s \in 0..(C - 1) /\ t + 1 = (C * p) + s
  OBVIOUS
<1> HIDE DEF q, r, p, s
<1>3. ASSUME p + 1 <= q PROVE FALSE
  <2>1. PICK d \in Nat : q = p + 1 + d
    <3>1. q - (p + 1) \in Nat /\ q = p + 1 + (q - (p + 1))
      BY <1>1, <1>2, <1>3
    <3> QED BY <3>1
  <2>2. C * q = (C * p) + C + (C * d) /\ C * d \in Nat /\ C * p \in Nat
    BY <1>2, <2>1
  <2> QED BY <1>1, <1>2, <2>2
<1>4. ASSUME q + 2 <= p PROVE FALSE
  <2>1. PICK d \in Nat : p = q + 2 + d
    <3>1. p - (q + 2) \in Nat /\ p = q + 2 + (p - (q + 2))
      BY <1>1, <1>2, <1>4
    <3> QED BY <3>1
  <2>2. C * p = (C * q) + C + C + (C * d) /\ C * d \in Nat /\ C * q \in Nat
    BY <1>1, <2>1
  <2> QED BY <1>1, <1>2, <2>2
<1>5. p = q \/ p = q + 1
  BY <1>1, <1>2, <1>3, <1>4
<1>6. CASE p = q
  <2>1. s = r + 1
    <3>1. C * q \in Nat
      BY <1>1
    <3> QED BY <1>1, <1>2, <1>6, <3>1
  <2> QED BY <1>1, <1>2, <2>1 DEF r, s
<1>7. CASE p = q + 1
  <2>1. C * p = (C * q) + C /\ C * q \in Nat
    BY <1>1, <1>7
  <2>2. r + 1 = C + s
    BY <1>1, <1>2, <2>1
  <2>3. s = 0 /\ r + 1 = C
    BY <1>1, <1>2, <2>2
  <2> QED BY <1>1, <2>3 DEF r, s
<1> QED BY <1>5, <1>6, <1>7

(* From one scheduled tick to the next. *)
LEMMA ScheduleSteps ==
    ASSUME RemindersTypeOK, time' = time + 1
    PROVE  /\ SinceSchedule \in 1..Cadence /\ SinceSchedule' \in 1..Cadence
           /\ time % Cadence # 0 => SinceSchedule' = SinceSchedule + 1
           /\ time % Cadence = 0 => SinceSchedule = Cadence /\ SinceSchedule' = 1
<1>1. time \in Nat /\ Cadence \in Nat \ {0}
  BY ReminderAssumption DEF RemindersTypeOK
<1>2. time % Cadence \in 0..(Cadence - 1)
      /\ (time + 1) % Cadence = IF (time % Cadence) + 1 = Cadence THEN 0 ELSE (time % Cadence) + 1
  BY <1>1, RemainderSteps
<1>3. SinceSchedule' = IF (time + 1) % Cadence = 0 THEN Cadence ELSE (time + 1) % Cadence
  BY DEF SinceSchedule
<1> QED BY <1>1, <1>2, <1>3 DEF SinceSchedule

(* The constants and the booking's times are numbers. *)
LEMMA TimesAreNumbers ==
    ASSUME RemindersTypeOK, NEW k \in ReminderKinds
    PROVE  /\ time \in Nat /\ bookedAt \in Nat /\ startsAt \in Nat /\ missed \in Nat
           /\ StartsAfter[k] \in Nat /\ StartsWithin[k] \in Nat /\ BookedAgo[k] \in Nat \ {0}
           /\ Opens(k) \in Nat /\ Opens(k) >= bookedAt + BookedAgo[k]
           /\ Opens(k) + StartsWithin[k] >= startsAt
           /\ Opens(k) = bookedAt + BookedAgo[k] \/ Opens(k) + StartsWithin[k] = startsAt
           /\ Cadence \in Nat \ {0} /\ MaxMissed \in Nat /\ LastStart \in Nat /\ missed <= MaxMissed
<1>1. /\ time \in Nat /\ bookedAt \in Nat /\ startsAt \in Nat /\ missed \in Nat
      /\ StartsAfter[k] \in Nat /\ StartsWithin[k] \in Nat /\ BookedAgo[k] \in Nat \ {0}
      /\ Cadence \in Nat \ {0} /\ MaxMissed \in Nat /\ LastStart \in Nat /\ missed <= MaxMissed
  BY ReminderAssumption DEF RemindersTypeOK
<1> QED BY <1>1 DEF Opens

LEMMA RemindersStart == RemindersInit => RemindersIInv
<1> SUFFICES ASSUME RemindersInit PROVE RemindersIInv
  OBVIOUS
<1>1. RemindersTypeOK
  <2>1. time \in 1..LastStart /\ startsAt \in 0..LastStart /\ missed \in 0..MaxMissed
    BY ReminderAssumption DEF RemindersInit
  <2>2. mails \in [ReminderKinds -> Nat]
    BY DEF RemindersInit
  <2>3. toClaim \in [Sweeps -> SUBSET ReminderKinds] /\ toSend \in [Sweeps -> SUBSET ReminderKinds]
    BY DEF RemindersInit
  <2> QED BY <2>1, <2>2, <2>3 DEF RemindersInit, RemindersTypeOK
<1> QED BY <1>1 DEF RemindersInit, RemindersIInv, SendersStamped, CalledIsClaimed, UnclaimedWasMissed,
                    RemindedOnceInTime

(* A step that leaves the clock and the booking alone leaves these alone. *)
LEMMA SameBooking ==
    ASSUME UNCHANGED <<time, bookingState, bookedAt, startsAt>>, NEW k \in ReminderKinds
    PROVE  Opens(k)' = Opens(k) /\ InWindow(k)' = InWindow(k) /\ SinceSchedule' = SinceSchedule
BY DEF Opens, InWindow, SinceSchedule

LEMMA ReminderBookKeeps == ASSUME RemindersIInv, Book PROVE RemindersIInv'
<1>1. RemindersTypeOK /\ SendersStamped /\ RemindedOnceInTime
  BY DEF RemindersIInv
<1>2. /\ UNCHANGED <<time, stamped, mails, toClaim, toSend, called, missed>>
      /\ bookedAt' = time /\ startsAt' \in (time + 1)..LastStart /\ bookingState' = "confirmed"
  BY DEF Book
<1>3. RemindersTypeOK'
  <2>1. startsAt' \in 0..LastStart /\ bookedAt' \in Nat
    BY <1>1, <1>2, ReminderAssumption DEF RemindersTypeOK
  <2> QED BY <1>1, <1>2, <2>1 DEF RemindersTypeOK
<1>4. ASSUME NEW k \in ReminderKinds
      PROVE  /\ Opens(k)' \in Nat /\ Opens(k)' > time /\ ~InWindow(k)'
             /\ SinceSchedule' \in Nat /\ missed * Cadence \in Nat
             /\ (MaxMissed + 1) * Cadence \in Nat /\ time \in Nat /\ StartsAfter[k] \in Nat
  <2>1. /\ time \in Nat /\ startsAt' \in Nat /\ BookedAgo[k] \in Nat \ {0} /\ StartsWithin[k] \in Nat
        /\ Cadence \in Nat \ {0} /\ MaxMissed \in Nat /\ missed \in Nat /\ StartsAfter[k] \in Nat
    BY <1>1, <1>3, TimesAreNumbers, ReminderAssumption DEF RemindersTypeOK
  <2>2. Opens(k)' = IF time + BookedAgo[k] + StartsWithin[k] >= startsAt'
                    THEN time + BookedAgo[k] ELSE startsAt' - StartsWithin[k]
    BY <1>2 DEF Opens
  <2>3. ~InWindow(k)'
    BY <1>2, <2>1 DEF InWindow
  <2>4. SinceSchedule' \in Nat
    BY <1>2, <2>1, RemainderSteps DEF SinceSchedule
  <2> QED BY <2>1, <2>2, <2>3, <2>4
<1>5. SendersStamped' /\ CalledIsClaimed'
  BY <1>1, <1>2, <1>4 DEF SendersStamped, CalledIsClaimed
<1>6. UnclaimedWasMissed'
  BY <1>2, <1>4 DEF UnclaimedWasMissed
<1>7. RemindedOnceInTime'
  <2> SUFFICES ASSUME NEW k \in ReminderKinds
               PROVE  /\ mails'[k] <= (IF k \in stamped' THEN 1 ELSE 0)
                      /\ ~(/\ time + StartsAfter[k] >= startsAt'
                           /\ Opens(k)' + (MaxMissed + 1) * Cadence + StartsAfter[k] <= startsAt')
    BY <1>2 DEF RemindedOnceInTime
  <2>1. mails'[k] <= (IF k \in stamped' THEN 1 ELSE 0)
    BY <1>1, <1>2 DEF RemindedOnceInTime
  <2>2. startsAt' \in Nat
    BY <1>3 DEF RemindersTypeOK
  <2> DEFINE c == (MaxMissed + 1) * Cadence
             o == Opens(k)'
  <2>3. /\ o \in Nat /\ o > time /\ c \in Nat /\ time \in Nat /\ StartsAfter[k] \in Nat
    BY <1>4
  <2> HIDE DEF c, o
  <2>4. ~(time + StartsAfter[k] >= startsAt' /\ o + c + StartsAfter[k] <= startsAt')
    BY <2>2, <2>3
  <2> QED BY <2>1, <2>4 DEF c, o
<1> QED BY <1>3, <1>5, <1>6, <1>7 DEF RemindersIInv

LEMMA LeaveConfirmedKeeps == ASSUME RemindersIInv, LeaveConfirmed PROVE RemindersIInv'
<1>1. /\ UNCHANGED <<time, bookedAt, startsAt, stamped, mails, toClaim, toSend, called, missed>>
      /\ bookingState' = "closed"
  BY DEF LeaveConfirmed
<1>2. RemindersTypeOK' /\ SendersStamped'
  BY <1>1 DEF RemindersIInv, RemindersTypeOK, SendersStamped
<1>3. CalledIsClaimed' /\ UnclaimedWasMissed'
  BY <1>1 DEF CalledIsClaimed, UnclaimedWasMissed, InWindow
<1>4. RemindedOnceInTime'
  BY <1>1 DEF RemindersIInv, RemindedOnceInTime
<1> QED BY <1>2, <1>3, <1>4 DEF RemindersIInv

(* What the promises about time need of a step that does not move it: no   *)
(* stamp is taken back.                                                    *)
LEMMA PromisesStay ==
    ASSUME RemindersIInv, UNCHANGED <<time, bookingState, bookedAt, startsAt, missed>>,
           stamped \subseteq stamped',
           \A k \in ReminderKinds : mails'[k] <= (IF k \in stamped' THEN 1 ELSE 0)
    PROVE  UnclaimedWasMissed' /\ RemindedOnceInTime'
<1>1. \A k \in ReminderKinds : Opens(k)' = Opens(k) /\ SinceSchedule' = SinceSchedule
  BY SameBooking
<1>2. UnclaimedWasMissed'
  BY <1>1 DEF RemindersIInv, UnclaimedWasMissed
<1>3. RemindedOnceInTime'
  BY <1>1 DEF RemindersIInv, RemindedOnceInTime
<1> QED BY <1>2, <1>3

LEMMA ReminderSweepKeeps ==
    ASSUME RemindersIInv, NEW s \in Sweeps, runBookingRemindersSweep(s)
    PROVE  RemindersIInv'
<1>1. /\ UNCHANGED <<time, bookingState, bookedAt, startsAt, stamped, mails, toSend, missed>>
      /\ toClaim' = [toClaim EXCEPT ![s] = ReminderKinds] /\ called' = TRUE
  BY DEF runBookingRemindersSweep
<1>2. RemindersTypeOK' /\ SendersStamped'
  BY <1>1 DEF RemindersIInv, RemindersTypeOK, SendersStamped
<1>3. CalledIsClaimed'
  <2>1. toClaim'[s] = ReminderKinds
    BY <1>1 DEF RemindersIInv, RemindersTypeOK
  <2> QED BY <2>1 DEF CalledIsClaimed
<1>4. UnclaimedWasMissed' /\ RemindedOnceInTime'
  BY <1>1, PromisesStay DEF RemindersIInv, RemindedOnceInTime
<1> QED BY <1>2, <1>3, <1>4 DEF RemindersIInv

LEMMA ReminderClaimKeeps ==
    ASSUME RemindersIInv, NEW s \in Sweeps, NEW k \in ReminderKinds, claimDueReminders(s, k)
    PROVE  RemindersIInv'
<1> DEFINE due == k \notin stamped /\ InWindow(k)
<1>1. /\ RemindersTypeOK /\ SendersStamped /\ CalledIsClaimed /\ RemindedOnceInTime
      /\ stamped \subseteq ReminderKinds /\ mails \in [ReminderKinds -> Nat]
      /\ toClaim \in [Sweeps -> SUBSET ReminderKinds] /\ toSend \in [Sweeps -> SUBSET ReminderKinds]
  BY DEF RemindersIInv, RemindersTypeOK
<1>2. /\ UNCHANGED <<time, bookingState, bookedAt, startsAt, mails, called, missed>>
      /\ k \in toClaim[s] /\ toClaim' = [toClaim EXCEPT ![s] = @ \ {k}]
  BY DEF claimDueReminders, Claim
<1>3. \/ due /\ stamped' = stamped \cup {k} /\ toSend' = [toSend EXCEPT ![s] = @ \cup {k}]
      \/ ~due /\ UNCHANGED <<stamped, toSend>>
  BY DEF claimDueReminders, Claim
<1>4. toClaim' \in [Sweeps -> SUBSET ReminderKinds] /\ toSend' \in [Sweeps -> SUBSET ReminderKinds]
      /\ stamped' \subseteq ReminderKinds /\ stamped \subseteq stamped'
  BY <1>1, <1>2, <1>3
<1>5. RemindersTypeOK'
  BY <1>1, <1>2, <1>4 DEF RemindersTypeOK
<1>6. SendersStamped'
  <2>1. CASE ~due
    BY <1>1, <1>2, <1>3, <2>1 DEF SendersStamped
  <2>2. CASE due
    <3>1. stamped' = stamped \cup {k} /\ toSend' = [toSend EXCEPT ![s] = @ \cup {k}] /\ k \notin stamped
      BY <1>3, <2>2
    <3>2. mails[k] = 0 /\ \A q \in Sweeps : k \notin toSend[q]
      BY <1>1, <3>1 DEF SendersStamped, RemindedOnceInTime
    <3> SUFFICES ASSUME NEW j \in ReminderKinds, NEW p \in Sweeps, j \in toSend'[p]
                 PROVE  /\ j \in stamped' /\ mails'[j] = 0
                        /\ \A q \in Sweeps : j \in toSend'[q] => q = p
      BY DEF SendersStamped
    <3>3. CASE j = k
      BY <1>1, <1>2, <3>1, <3>2, <3>3
    <3>4. CASE j # k
      <4>1. \A q \in Sweeps : j \in toSend'[q] <=> j \in toSend[q]
        BY <1>1, <3>1, <3>4
      <4> QED BY <1>1, <1>2, <3>1, <4>1 DEF SendersStamped
    <3> QED BY <3>3, <3>4
  <2> QED BY <2>1, <2>2
<1>7. CalledIsClaimed'
  <2> SUFFICES ASSUME called, NEW j \in ReminderKinds, InWindow(j), j \notin stamped'
               PROVE  \E q \in Sweeps : j \in toClaim'[q]
    BY <1>2, SameBooking DEF CalledIsClaimed
  <2>1. PICK q \in Sweeps : j \in toClaim[q]
    BY <1>1, <1>4 DEF CalledIsClaimed
  <2>2. j # k
    BY <1>3, <1>4
  <2>3. j \in toClaim'[q]
    BY <1>1, <1>2, <2>1, <2>2
  <2> QED BY <2>3
<1>8. UnclaimedWasMissed' /\ RemindedOnceInTime'
  <2>1. \A j \in ReminderKinds : mails'[j] <= (IF j \in stamped' THEN 1 ELSE 0)
    BY <1>1, <1>2, <1>4 DEF RemindedOnceInTime
  <2> QED BY <1>2, <1>4, <2>1, PromisesStay
<1> QED BY <1>5, <1>6, <1>7, <1>8 DEF RemindersIInv

LEMMA ReminderSendKeeps ==
    ASSUME RemindersIInv, NEW s \in Sweeps, NEW k \in ReminderKinds, sendReminder(s, k)
    PROVE  RemindersIInv'
<1>1. /\ RemindersTypeOK /\ SendersStamped /\ CalledIsClaimed /\ RemindedOnceInTime
      /\ mails \in [ReminderKinds -> Nat] /\ toSend \in [Sweeps -> SUBSET ReminderKinds]
  BY DEF RemindersIInv, RemindersTypeOK
<1>2. /\ UNCHANGED <<time, bookingState, bookedAt, startsAt, stamped, toClaim, called, missed>>
      /\ k \in toSend[s] /\ toSend' = [toSend EXCEPT ![s] = @ \ {k}]
      /\ mails' = mails \/ mails' = [mails EXCEPT ![k] = @ + 1]
  BY DEF sendReminder
<1>3. /\ k \in stamped /\ mails[k] = 0 /\ \A q \in Sweeps : k \in toSend[q] => q = s
  BY <1>1, <1>2 DEF SendersStamped
<1>4. /\ mails' \in [ReminderKinds -> Nat] /\ toSend' \in [Sweeps -> SUBSET ReminderKinds]
      /\ mails'[k] <= 1 /\ \A j \in ReminderKinds : j # k => mails'[j] = mails[j]
  BY <1>1, <1>2, <1>3
<1>5. RemindersTypeOK'
  BY <1>1, <1>2, <1>4 DEF RemindersTypeOK
<1>6. SendersStamped'
  <2> SUFFICES ASSUME NEW j \in ReminderKinds, NEW p \in Sweeps, j \in toSend'[p]
               PROVE  /\ j \in stamped /\ mails'[j] = 0
                      /\ \A q \in Sweeps : j \in toSend'[q] => q = p
    BY <1>2 DEF SendersStamped
  <2>1. \A q \in Sweeps : j \in toSend'[q] => j \in toSend[q] /\ ~(j = k /\ q = s)
    BY <1>1, <1>2
  <2>2. j # k
    BY <1>3, <2>1
  <2> QED BY <1>1, <1>4, <2>1, <2>2 DEF SendersStamped
<1>7. CalledIsClaimed'
  BY <1>1, <1>2, SameBooking DEF CalledIsClaimed
<1>8. UnclaimedWasMissed' /\ RemindedOnceInTime'
  <2>1. \A j \in ReminderKinds : mails'[j] <= (IF j \in stamped' THEN 1 ELSE 0)
    BY <1>1, <1>2, <1>3, <1>4 DEF RemindedOnceInTime
  <2> QED BY <1>2, <2>1, PromisesStay
<1> QED BY <1>5, <1>6, <1>7, <1>8 DEF RemindersIInv

(* A scheduled tick whose call found nothing to claim for k came before k's *)
(* window opened; any other tick of the schedule was missed.               *)
LEMMA ReminderTickKeeps == ASSUME RemindersIInv, ReminderTick PROVE RemindersIInv'
<1>1. RemindersTypeOK /\ SendersStamped /\ CalledIsClaimed /\ UnclaimedWasMissed /\ RemindedOnceInTime
  BY DEF RemindersIInv
<1>2. /\ time < LastStart /\ time' = time + 1 /\ called' = FALSE
      /\ \A s \in Sweeps : toClaim[s] = {}
      /\ UNCHANGED <<bookingState, bookedAt, startsAt, stamped, mails, toClaim, toSend>>
      /\ \/ time % Cadence # 0 /\ missed' = missed
         \/ time % Cadence = 0 /\ called /\ missed' = 0
         \/ time % Cadence = 0 /\ ~called /\ missed < MaxMissed /\ missed' = missed + 1
  BY DEF ReminderTick
<1>3. RemindersTypeOK'
  <2>1. time' \in 1..LastStart /\ missed' \in 0..MaxMissed
    BY <1>1, <1>2, ReminderAssumption DEF RemindersTypeOK
  <2> QED BY <1>1, <1>2, <2>1 DEF RemindersTypeOK
<1>4. SendersStamped' /\ CalledIsClaimed'
  BY <1>1, <1>2 DEF SendersStamped, CalledIsClaimed
<1>5. \A k \in ReminderKinds : Opens(k)' = Opens(k)
  BY <1>2 DEF Opens
<1>6. ASSUME NEW k \in ReminderKinds, bookingState = "confirmed", k \notin stamped,
             time + 1 + StartsAfter[k] <= startsAt
      PROVE  time + 1 < Opens(k) + missed' * Cadence + SinceSchedule'
  <2> DEFINE o == Opens(k)
             c == Cadence
             m == missed * c
             n == missed' * c
  <2>1. /\ time \in Nat /\ bookedAt \in Nat /\ startsAt \in Nat /\ StartsAfter[k] \in Nat
        /\ StartsWithin[k] \in Nat /\ BookedAgo[k] \in Nat \ {0} /\ missed \in Nat
        /\ o \in Nat /\ o >= bookedAt + BookedAgo[k]
        /\ o = bookedAt + BookedAgo[k] \/ o + StartsWithin[k] = startsAt
        /\ o + StartsWithin[k] >= startsAt
        /\ c \in Nat \ {0}
    BY <1>1, TimesAreNumbers
  <2>2. /\ SinceSchedule \in 1..c /\ SinceSchedule' \in 1..c
        /\ time % c # 0 => SinceSchedule' = SinceSchedule + 1
        /\ time % c = 0 => SinceSchedule = c /\ SinceSchedule' = 1
    BY <1>1, <1>2, ScheduleSteps
  <2>3. time < o + m + SinceSchedule
    BY <1>1, <1>6, <2>1 DEF UnclaimedWasMissed
  <2>4. /\ m \in Nat /\ n \in Nat
        /\ missed' = 0 => n = 0 /\ (missed' = missed => n = m)
        /\ missed' = missed + 1 => n = m + c
    <3>1. m \in Nat /\ (missed + 1) * c = m + c
      BY <2>1, CallsMissed
    <3>2. 0 * c = 0
      BY <2>1
    <3> QED BY <1>2, <2>1, <3>1, <3>2
  <2>5. missed' = missed => n = m
    OBVIOUS
  <2>6. time % c = 0 /\ called => time < o
    <3> SUFFICES ASSUME called PROVE time < o
      OBVIOUS
    <3>1. ~InWindow(k)
      BY <1>1, <1>2, <1>6 DEF CalledIsClaimed
    <3>2. startsAt > time + StartsWithin[k] \/ bookedAt + BookedAgo[k] > time
      BY <1>6, <2>1, <3>1 DEF InWindow
    <3> HIDE DEF o, c
    <3> QED BY ONLY <2>1, <3>2
  <2> HIDE DEF o, c, m, n
  <2>7. time + 1 < o + n + SinceSchedule'
    <3>1. CASE time % c # 0
      <4>1. n = m /\ SinceSchedule' = SinceSchedule + 1
        BY <1>2, <2>2, <2>5, <3>1 DEF c
      <4> QED BY ONLY <2>1, <2>2, <2>3, <2>4, <4>1
    <3>2. CASE time % c = 0 /\ called
      <4>1. n = 0 /\ SinceSchedule' = 1
        BY <1>2, <2>2, <2>4, <3>2 DEF c
      <4>2. time < o
        BY <2>6, <3>2 DEF c
      <4> QED BY ONLY <2>1, <4>1, <4>2
    <3>3. CASE time % c = 0 /\ ~called
      <4>1. n = m + c /\ SinceSchedule' = 1 /\ SinceSchedule = c
        BY <1>2, <2>2, <2>4, <3>3 DEF c
      <4> QED BY ONLY <2>1, <2>3, <2>4, <4>1
    <3> QED BY <3>1, <3>2, <3>3
  <2> QED BY <2>7 DEF o, n, c
<1>7. UnclaimedWasMissed'
  BY <1>2, <1>5, <1>6 DEF UnclaimedWasMissed
<1>8. RemindedOnceInTime'
  <2> SUFFICES ASSUME NEW k \in ReminderKinds, k \notin stamped, bookingState = "confirmed",
                      time + 1 + StartsAfter[k] >= startsAt,
                      Opens(k) + (MaxMissed + 1) * Cadence + StartsAfter[k] <= startsAt
               PROVE  FALSE
    BY <1>1, <1>2, <1>5 DEF RemindedOnceInTime
  <2>1. time \in Nat /\ startsAt \in Nat /\ StartsAfter[k] \in Nat
    BY <1>1, TimesAreNumbers
  <2>2. CASE time + StartsAfter[k] >= startsAt
    BY <1>1, <2>2 DEF RemindedOnceInTime
  <2>3. CASE time + 1 + StartsAfter[k] <= startsAt
    <3> DEFINE o == Opens(k)
               n == missed' * Cadence
               c == (MaxMissed + 1) * Cadence
               since == SinceSchedule'
    <3>1. time + 1 < o + n + since
      BY <1>6, <2>3
    <3>2. o \in Nat /\ since \in 1..Cadence /\ Cadence \in Nat
      BY <1>1, <1>2, TimesAreNumbers, ScheduleSteps
    <3>3. n \in Nat /\ c \in Nat /\ n + Cadence <= c
      <4>1. missed' \in Nat /\ MaxMissed \in Nat /\ missed' <= MaxMissed
        BY <1>3, ReminderAssumption DEF RemindersTypeOK
      <4>2. /\ n \in Nat /\ MaxMissed * Cadence \in Nat /\ n <= MaxMissed * Cadence
            /\ (MaxMissed + 1) * Cadence = (MaxMissed * Cadence) + Cadence
        <5>1. Cadence \in Nat /\ missed' \in Nat /\ MaxMissed \in Nat /\ missed' <= MaxMissed
          BY <3>2, <4>1
        <5>2. n \in Nat /\ MaxMissed * Cadence \in Nat /\ n <= MaxMissed * Cadence
          BY ONLY <5>1, CallsMissed, Zenon
        <5>3. MaxMissed <= MaxMissed
          BY <5>1
        <5>4. (MaxMissed + 1) * Cadence = (MaxMissed * Cadence) + Cadence
          BY ONLY <5>1, <5>3, CallsMissed, Zenon
        <5> QED BY <5>2, <5>4
      <4> DEFINE d == MaxMissed * Cadence
      <4>3. n \in Nat /\ d \in Nat /\ n <= d /\ c = d + Cadence /\ Cadence \in Nat
        BY <3>2, <4>2
      <4> HIDE DEF n, c, d
      <4> QED BY ONLY <4>3
    <3>4. since \in Nat /\ since <= Cadence
      BY <3>2
    <3>5. o + c + StartsAfter[k] <= startsAt /\ time + 1 + StartsAfter[k] >= startsAt
      OBVIOUS
    <3> HIDE DEF o, n, c, since
    <3> QED BY ONLY <2>1, <3>1, <3>2, <3>3, <3>4, <3>5
  <2> QED BY <2>1, <2>2, <2>3
<1> QED BY <1>3, <1>4, <1>7, <1>8 DEF RemindersIInv

LEMMA RemindersStep == RemindersIInv /\ [RemindersNext]_reminderVars => RemindersIInv'
<1>1. ASSUME RemindersIInv, UNCHANGED reminderVars PROVE RemindersIInv'
  BY <1>1 DEF RemindersIInv, reminderVars, RemindersTypeOK, SendersStamped, CalledIsClaimed,
              UnclaimedWasMissed, RemindedOnceInTime, InWindow, Opens, SinceSchedule
<1> QED BY <1>1, ReminderBookKeeps, LeaveConfirmedKeeps, ReminderTickKeeps, ReminderSweepKeeps,
           ReminderClaimKeeps, ReminderSendKeeps DEF RemindersNext

(* booking-reminders.ts: whatever sweeps overlap or are missed, a reminder  *)
(* is sent at most once, and a booking that stayed in its window for longer *)
(* than the missed calls is reminded before the window closes.             *)
THEOREM RemindersAreOnceAndInTime == RemindersSpec => []RemindedOnceInTime
<1>1. RemindersIInv => RemindedOnceInTime
  BY DEF RemindersIInv
<1> QED BY <1>1, RemindersStart, RemindersStep, PTL DEF RemindersSpec

(***************************************************************************)
(* The tutor review                                                        *)
(***************************************************************************)
(* What SavesAreSeenAgain rests on. *)
ReviewIInv == ReviewTypeOK /\ AskingIsStamped /\ HoldIsStamped /\ DecidedByClock

LEMMA ReviewStarts == ReviewInit => ReviewIInv
BY DEF ReviewInit, ReviewIInv, ReviewTypeOK, AskingIsStamped, HoldIsStamped, DecidedByClock, Approvals

LEMMA SavesAreOfEdits ==
    ReviewTypeOK => Len(saves) \in Nat /\ \A i \in 1..Len(saves) : saves[i].of \in Edits
<1> DEFINE Saves == [of : Edits, asks : BOOLEAN]
<1>1. ReviewTypeOK => saves \in Seq(Saves)
  BY DEF ReviewTypeOK
<1>2. \A save \in Saves : save.of \in Edits
  OBVIOUS
<1> HIDE DEF Saves
<1> QED BY <1>1, <1>2

(* A save that was committed stays as it was stamped. *)
LEMMA StampsStay ==
    ASSUME ReviewTypeOK, AskingIsStamped, UNCHANGED <<saves, changedAt>>,
           \A o \in Edits : edit[o].at \in {"material", "other"} => edit'[o] = edit[o]
    PROVE  AskingIsStamped'
<1>1. Len(saves) \in Nat /\ \A i \in 1..Len(saves) : saves[i].of \in Edits
  BY SavesAreOfEdits
<1>2. \A i \in 1..Len(saves) : edit'[saves[i].of] = edit[saves[i].of]
  BY <1>1 DEF AskingIsStamped
<1>3. \A i \in 1..Len(saves) : Begun(i)' = Begun(i)
  BY <1>2 DEF Begun
<1>4. \A i \in 1..Len(saves) : edit'[saves[i].of].at \in {"material", "other"}
  BY <1>2 DEF AskingIsStamped
<1>5. ASSUME NEW i \in 1..Len(saves), saves[i].asks
      PROVE  \E j \in i..Len(saves) : changedAt' = Begun(j)'
  BY <1>1, <1>3, <1>5 DEF AskingIsStamped
<1> QED BY <1>4, <1>5 DEF AskingIsStamped

LEMMA ReadStatusKeeps ==
    ASSUME ReviewIInv, NEW e \in Edits, ReadStatus(e)
    PROVE  ReviewIInv'
<1> DEFINE knows == approval = "changes_requested"
           clockThen == reviewClock
           ats == {"new", "read", "begun", "material", "other"}
<1>1. edit \in [Edits -> [at : ats, resubmitting : BOOLEAN, begun : 0..clockThen]] /\ "read" \in ats
      /\ knows \in BOOLEAN
  BY DEF ReviewIInv, ReviewTypeOK
<1>2. edit' = [edit EXCEPT ![e].at = "read", ![e].resubmitting = knows]
  BY DEF ReadStatus
<1> HIDE DEF knows, clockThen, ats
<1>3. edit' \in [Edits -> [at : ats, resubmitting : BOOLEAN, begun : 0..clockThen]]
      /\ \A o \in Edits \ {e} : edit'[o] = edit[o]
  <2> DEFINE further == [edit EXCEPT ![e].at = "read"]
  <2>1. edit' = [further EXCEPT ![e].resubmitting = knows]
    BY <1>2
  <2>2. /\ further \in [Edits -> [at : ats, resubmitting : BOOLEAN, begun : 0..clockThen]]
        /\ \A o \in Edits \ {e} : further[o] = edit[o]
    BY <1>1, <1>2
  <2> HIDE DEF further
  <2> QED BY <1>1, <2>1, <2>2
<1>4. ReviewTypeOK'
  BY <1>3 DEF ReviewIInv, ReviewTypeOK, ReadStatus, profileRow, clockThen, ats
<1>5. HoldIsStamped' /\ DecidedByClock'
  BY <1>3 DEF ReviewIInv, ReviewTypeOK, ReadStatus, profileRow, HoldIsStamped, DecidedByClock
<1>6. AskingIsStamped'
  BY <1>3, StampsStay DEF ReviewIInv, ReadStatus, profileRow
<1> QED BY <1>4, <1>5, <1>6 DEF ReviewIInv

LEMMA BeginSaveKeeps ==
    ASSUME ReviewIInv, NEW e \in Edits, BeginSave(e)
    PROVE  ReviewIInv'
<1> DEFINE until == reviewClock'
           ats == {"new", "read", "begun", "material", "other"}
<1>1. /\ until = reviewClock + 1 /\ until \in Nat /\ until # 0
      /\ 0..reviewClock \subseteq 0..until /\ reviewClock \in 0..until
  BY DEF ReviewIInv, ReviewTypeOK, BeginSave, Stamped
<1>2. edit' = [edit EXCEPT ![e].at = "begun", ![e].begun = reviewClock] /\ "begun" \in ats
  BY DEF BeginSave
<1>3. edit \in [Edits -> [at : ats, resubmitting : BOOLEAN, begun : 0..until]]
  BY <1>1 DEF ReviewIInv, ReviewTypeOK
<1> HIDE DEF until, ats
<1>4. edit' \in [Edits -> [at : ats, resubmitting : BOOLEAN, begun : 0..until]]
      /\ \A o \in Edits \ {e} : edit'[o] = edit[o]
  <2> DEFINE further == [edit EXCEPT ![e].at = "begun"]
  <2>1. edit' = [further EXCEPT ![e].begun = reviewClock]
    BY <1>2
  <2>2. /\ further \in [Edits -> [at : ats, resubmitting : BOOLEAN, begun : 0..until]]
        /\ \A o \in Edits \ {e} : further[o] = edit[o]
    BY <1>1, <1>2, <1>3
  <2> HIDE DEF further
  <2> QED BY <1>1, <2>1, <2>2
<1>5. decision' \in [Decisions -> [at : {"new", "decided", "applied"},
                                   does : Actions \cup {"none"}, now : 0..until]]
  BY <1>1 DEF ReviewIInv, ReviewTypeOK, BeginSave
<1>6. changedAt' \in 0..until /\ reviewedAt' \in 0..until
  BY <1>1 DEF ReviewIInv, ReviewTypeOK, BeginSave, profileRow
<1>7. ReviewTypeOK'
  BY <1>1, <1>4, <1>5, <1>6 DEF ReviewIInv, ReviewTypeOK, BeginSave, profileRow, until, ats
<1>8. HoldIsStamped' /\ DecidedByClock'
  BY <1>1, <1>4 DEF ReviewIInv, ReviewTypeOK, BeginSave, profileRow, HoldIsStamped, DecidedByClock, until
<1>9. AskingIsStamped'
  BY <1>4, StampsStay DEF ReviewIInv, BeginSave, profileRow
<1> QED BY <1>7, <1>8, <1>9 DEF ReviewIInv

LEMMA UpdateKeeps ==
    ASSUME ReviewIInv, NEW e \in Edits, NEW material \in BOOLEAN, NEW withPhoto \in BOOLEAN,
           updateTutorProfile(e, material, withPhoto)
    PROVE  ReviewIInv'
<1>1. ReviewTypeOK'
  <2>1. saves' \in Seq([of : Edits, asks : BOOLEAN])
    <3> DEFINE save == [of |-> e, asks |-> AsksForALook(e, material)]
               Saves == [of : Edits, asks : BOOLEAN]
    <3>1. save \in Saves /\ saves' = Append(saves, save) /\ saves \in Seq(Saves)
      BY DEF ReviewIInv, ReviewTypeOK, updateTutorProfile, AsksForALook
    <3> HIDE DEF save, Saves
    <3>2. saves' \in Seq(Saves)
      BY <3>1
    <3> QED BY <3>2 DEF Saves
  <2> QED BY <2>1 DEF ReviewIInv, ReviewTypeOK, updateTutorProfile
<1>2. AskingIsStamped'
  <2>0. PICK n : n = Len(saves)
    OBVIOUS
  <2> DEFINE asks == AsksForALook(e, material)
  <2>1. /\ saves' = Append(saves, [of |-> e, asks |-> asks]) /\ n \in Nat /\ asks \in BOOLEAN
        /\ saves \in Seq([of : Edits, asks : BOOLEAN])
    BY <2>0 DEF ReviewIInv, ReviewTypeOK, updateTutorProfile, AsksForALook
  <2>2. /\ edit'[e].at \in {"material", "other"} /\ edit'[e].begun = edit[e].begun
        /\ \A o \in Edits \ {e} : edit'[o] = edit[o]
    BY DEF ReviewIInv, ReviewTypeOK, updateTutorProfile
  <2>3. asks => changedAt' = edit[e].begun
    BY DEF AsksForALook, flagged, updateTutorProfile
  <2>4. changedAt' \in {changedAt, edit[e].begun}
    BY DEF updateTutorProfile
  <2>5. changedAt' # changedAt => changedAt' = edit[e].begun
    BY <2>4
  <2> HIDE DEF asks
  <2>6. Len(saves') = n + 1 /\ saves'[n + 1] = [of |-> e, asks |-> asks]
        /\ \A i \in 1..n : saves'[i] = saves[i]
    BY <2>0, <2>1
  <2>7. saves'[n + 1].of = e /\ saves'[n + 1].asks = asks
    BY <2>6
  <2>8. \A i \in 1..n : saves[i].of \in Edits /\ saves[i].of # e /\ Begun(i)' = Begun(i)
    <3>1. \A i \in 1..n : saves[i].of \in Edits /\ edit[saves[i].of].at \in {"material", "other"}
      BY <2>0, SavesAreOfEdits DEF ReviewIInv, AskingIsStamped
    <3>2. edit[e].at = "begun"
      BY DEF updateTutorProfile
    <3> QED BY <2>2, <2>6, <3>1, <3>2 DEF Begun
  <2>9. Begun(n + 1)' = edit[e].begun
    BY <2>2, <2>7 DEF Begun
  <2> SUFFICES ASSUME NEW i \in 1..(n + 1)
               PROVE  /\ edit'[saves'[i].of].at \in {"material", "other"}
                      /\ saves'[i].asks => \E j \in i..(n + 1) : changedAt' = Begun(j)'
    BY <2>6 DEF AskingIsStamped, Begun
  <2>10. CASE i = n + 1
    <3>1. n + 1 \in i..(n + 1)
      BY <2>1, <2>10
    <3> QED BY <2>2, <2>3, <2>7, <2>9, <2>10, <3>1
  <2>11. CASE i \in 1..n
    <3>1. edit'[saves'[i].of].at \in {"material", "other"}
      BY <2>0, <2>2, <2>6, <2>8, <2>11 DEF ReviewIInv, AskingIsStamped
    <3>2. ASSUME saves'[i].asks PROVE \E j \in i..(n + 1) : changedAt' = Begun(j)'
      <4>1. PICK j \in i..n : changedAt = Begun(j)
        BY <2>0, <2>6, <2>11, <3>2 DEF ReviewIInv, AskingIsStamped
      <4>2. CASE changedAt' = changedAt
        BY <2>1, <2>8, <2>11, <4>1, <4>2
      <4>3. CASE changedAt' # changedAt
        <5>1. n + 1 \in i..(n + 1)
          BY <2>1, <2>11
        <5> QED BY <2>5, <2>9, <4>3, <5>1
      <4> QED BY <4>2, <4>3
    <3> QED BY <3>1, <3>2
  <2>12. i = n + 1 \/ i \in 1..n
    BY <2>1
  <2> QED BY <2>10, <2>11, <2>12
<1>3. HoldIsStamped' /\ DecidedByClock'
  BY DEF ReviewIInv, ReviewTypeOK, updateTutorProfile, HoldIsStamped, DecidedByClock
<1> QED BY <1>1, <1>2, <1>3 DEF ReviewIInv

LEMMA DecideKeeps ==
    ASSUME ReviewIInv, NEW d \in Decisions, NEW does \in Actions, Decide(d, does)
    PROVE  ReviewIInv'
<1>1. ReviewTypeOK'
  BY DEF ReviewIInv, ReviewTypeOK, Decide, Stamped, profileRow
<1>2. HoldIsStamped' /\ DecidedByClock'
  BY DEF ReviewIInv, ReviewTypeOK, Decide, Stamped, profileRow, HoldIsStamped, DecidedByClock
<1>3. AskingIsStamped'
  BY StampsStay DEF ReviewIInv, Decide, profileRow
<1> QED BY <1>1, <1>2, <1>3 DEF ReviewIInv

LEMMA ApplyKeeps ==
    ASSUME ReviewIInv, NEW d \in Decisions, Apply(d)
    PROVE  ReviewIInv'
<1>1. decision[d].does \in Actions /\ decision[d].now # 0 /\ decision[d].now \in 0..reviewClock
  BY DEF ReviewIInv, ReviewTypeOK, DecidedByClock, Apply
<1>2. /\ approval' \in Approvals
      /\ approval' = "changes_requested" =>
             \/ decision[d].does = "requestTutorChanges"
             \/ decision[d].does = "markTutorReviewed" /\ approval = "changes_requested"
  BY <1>1 DEF ReviewIInv, ReviewTypeOK, Apply, Verdicts, Actions, Approvals
<1>3. reviewedAt' = IF decision[d].does = "rejectTutor" THEN reviewedAt ELSE decision[d].now
  BY DEF Apply
<1>4. ReviewTypeOK'
  BY <1>1, <1>2, <1>3 DEF ReviewIInv, ReviewTypeOK, Apply
<1>5. HoldIsStamped'
  BY <1>1, <1>2, <1>3 DEF HoldIsStamped
<1>6. DecidedByClock'
  BY DEF ReviewIInv, ReviewTypeOK, Apply, DecidedByClock
<1>7. AskingIsStamped'
  BY StampsStay DEF ReviewIInv, Apply
<1> QED BY <1>4, <1>5, <1>6, <1>7 DEF ReviewIInv

LEMMA ReviewStep == ReviewIInv /\ [ReviewNext]_reviewVars => ReviewIInv'
<1> SUFFICES ASSUME ReviewIInv, [ReviewNext]_reviewVars PROVE ReviewIInv'
  OBVIOUS
<1>1. CASE UNCHANGED reviewVars
  <2>1. AskingIsStamped'
    BY <1>1, StampsStay DEF reviewVars, ReviewIInv
  <2> QED BY <1>1, <2>1 DEF reviewVars, ReviewIInv, ReviewTypeOK, HoldIsStamped, DecidedByClock
<1> QED BY <1>1, ReadStatusKeeps, BeginSaveKeeps, UpdateKeeps, DecideKeeps, ApplyKeeps DEF ReviewNext

LEMMA ReviewIsSeen == ReviewIInv => SavesAreSeenAgain
<1> SUFFICES ASSUME ReviewIInv, NEW i \in 1..Len(saves), saves[i].asks, Begun(i) > reviewedAt,
                    ~StampedOver(i)
             PROVE  /\ approval = "approved" => getChangedTutors
                    /\ approval = "changes_requested" => getResubmittedTutors /\ ~getOnHoldTutors
  BY DEF SavesAreSeenAgain
<1>1. Len(saves) \in Nat /\ changedAt \in Nat /\ reviewedAt \in Nat
  BY DEF ReviewIInv, ReviewTypeOK
<1>2. PICK j \in i..Len(saves) : changedAt = Begun(j)
  BY DEF ReviewIInv, AskingIsStamped
<1>3. changedAt > reviewedAt
  <2>1. CASE j = i
    BY <1>2, <2>1
  <2>2. CASE j \in (i + 1)..Len(saves)
    BY <1>1, <1>2, <2>2 DEF StampedOver
  <2> QED BY <1>1, <1>2, <2>1, <2>2
<1> QED
  BY <1>1, <1>3 DEF ReviewIInv, HoldIsStamped, getChangedTutors, getResubmittedTutors, getOnHoldTutors

(* drizzle/0025, updateTutorProfile: however saves and decisions overlap,   *)
(* every save that began after the admin's last look and asked for another  *)
(* is in one of the admin's queues, unless a save that had begun before the *)
(* look committed after it and stamped its own time over it.                *)
THEOREM SavesComeBack == ReviewSpec => []SavesAreSeenAgain
<1> QED BY ReviewIsSeen, ReviewStarts, ReviewStep, PTL DEF ReviewSpec

(***************************************************************************)
(* The calendar: what computeSlots enumerates is what a slot is.           *)
(***************************************************************************)
(* A zone's clock is less than a day from UTC, and is set by a day at most. *)
ZoneOK(zone) ==
    /\ {zone.before, zone.after, zone.at} \subseteq Int
    /\ -Day < zone.before /\ zone.before < Day /\ -Day < zone.after /\ zone.after < Day
    /\ zone.after - zone.before <= Day /\ zone.before - zone.after <= Day

(* A calendar's windows lie in a day, and a lesson takes time. *)
CalendarOK(cal) ==
    /\ ZoneOK(cal.zone) /\ cal.duration \in Nat \ {0}
    /\ \A w \in cal.rules \cup cal.exceptions : w.start \in Nat /\ w.end \in 0..Day

LEMMA DatesAndMinutes ==
    /\ \A w \in Int : DateOf(w) \in Int /\ MinuteOf(w) \in 0..(Day - 1) /\ w = DateOf(w) * Day + MinuteOf(w)
    /\ \A d \in Int, m \in 0..(Day - 1) : DateOf(d * Day + m) = d /\ MinuteOf(d * Day + m) = m
<1>1. Day \in Nat \ {0}
  BY SlotAssumption
<1>2. ASSUME NEW w \in Int
      PROVE  DateOf(w) \in Int /\ MinuteOf(w) \in 0..(Day - 1) /\ w = DateOf(w) * Day + MinuteOf(w)
  BY <1>1 DEF DateOf, MinuteOf
<1>3. ASSUME NEW d \in Int, NEW m \in 0..(Day - 1)
      PROVE  DateOf(d * Day + m) = d /\ MinuteOf(d * Day + m) = m
  <2> DEFINE w == d * Day + m
             e == DateOf(w)
             n == MinuteOf(w)
  <2>1. w \in Int
    BY <1>1
  <2>2. e \in Int /\ n \in 0..(Day - 1) /\ w = e * Day + n
    BY <1>2, <2>1
  <2>3. d * Day + m = e * Day + n
    BY <2>2
  <2> HIDE DEF e, n, w
  <2>4. (e - d) * Day = m - n
    BY <1>1, <2>2, <2>3
  <2>5. m - n < Day /\ n - m < Day
    BY <1>1, <2>2
  <2>6. ASSUME e - d >= 1 PROVE FALSE
    <3> DEFINE k == e - d
    <3>1. k \in Int /\ k >= 1 /\ k * Day = m - n
      BY <2>2, <2>4, <2>6
    <3> HIDE DEF k
    <3>2. k * Day >= Day
      BY <1>1, <3>1
    <3> QED BY <1>1, <2>2, <2>5, <3>1, <3>2
  <2>7. ASSUME d - e >= 1 PROVE FALSE
    <3> DEFINE k == d - e
    <3>1. k \in Int /\ k >= 1 /\ k * Day = n - m
      BY <1>1, <2>2, <2>4, <2>7
    <3> HIDE DEF k
    <3>2. k * Day >= Day
      BY <1>1, <3>1
    <3> QED BY <1>1, <2>2, <2>5, <3>1, <3>2
  <2>8. e = d
    BY <2>2, <2>6, <2>7
  <2>9. m = n
    BY <1>1, <2>2, <2>3, <2>8
  <2> QED BY <2>8, <2>9 DEF e, n, w
<1> QED BY <1>2, <1>3

(* Dates follow one another as wall-clock times do. *)
LEMMA DatesPass ==
    ASSUME NEW v \in Int, NEW w \in Int
    PROVE  /\ v <= w => DateOf(v) <= DateOf(w)
           /\ v - Day <= w => DateOf(v) - 1 <= DateOf(w)
<1>1. Day \in Nat \ {0}
  BY SlotAssumption
<1> DEFINE d == DateOf(v)
           e == DateOf(w)
           m == MinuteOf(v)
           n == MinuteOf(w)
<1>2. /\ d \in Int /\ e \in Int /\ m \in 0..(Day - 1) /\ n \in 0..(Day - 1)
      /\ v = d * Day + m /\ w = e * Day + n
  BY DatesAndMinutes
<1> HIDE DEF d, e, m, n
<1>3. ASSUME NEW k \in Int, k >= 1, d = e + k PROVE d * Day >= e * Day + Day
  <2>1. (e + k) * Day = e * Day + k * Day
    BY <1>1, <1>2
  <2>2. k * Day >= Day
    BY <1>1, <1>3
  <2> QED BY <1>1, <1>2, <1>3, <2>1, <2>2
<1>4. ASSUME NEW k \in Int, k >= 2, d = e + k PROVE d * Day >= e * Day + Day + Day
  <2>1. (e + k) * Day = e * Day + k * Day
    BY <1>1, <1>2
  <2>2. k * Day >= 2 * Day
    BY <1>1, <1>4
  <2> QED BY <1>1, <1>2, <1>4, <2>1, <2>2
<1>5. ASSUME v <= w PROVE d <= e
  <2>1. d - e >= 1 => d * Day >= e * Day + Day
    BY <1>2, <1>3
  <2>2. d * Day \in Int /\ e * Day \in Int
    BY <1>1, <1>2
  <2> QED BY <1>1, <1>2, <1>5, <2>1, <2>2
<1>6. ASSUME v - Day <= w PROVE d - 1 <= e
  <2>1. d - e >= 2 => d * Day >= e * Day + Day + Day
    BY <1>2, <1>4
  <2>2. d * Day \in Int /\ e * Day \in Int
    BY <1>1, <1>2
  <2> QED BY <1>1, <1>2, <1>6, <2>1, <2>2
<1> QED BY <1>5, <1>6 DEF d, e

(* The refined guess is an instant that reads as the wall clock, if any does. *)
LEMMA RefinedIsAReading ==
    ASSUME NEW zone, ZoneOK(zone), NEW wall \in Int
    PROVE  /\ zonedWallToUtc(wall, zone) \in {wall - zone.before, wall - zone.after}
           /\ zonedWallToUtc(wall, zone) \in Int
           /\ Readings(wall, zone) # {} => wallClockInZone(zonedWallToUtc(wall, zone), zone) = wall
<1> DEFINE b == zone.before
           a == zone.after
           at == zone.at
<1>1. b \in Int /\ a \in Int /\ at \in Int
  BY DEF ZoneOK
<1>2. zonedWallToUtc(wall, zone) =
          IF wall < at THEN (IF wall - b < at THEN wall - b ELSE wall - a)
                       ELSE (IF wall - a < at THEN wall - b ELSE wall - a)
  BY DEF zonedWallToUtc, zoneOffset
<1>3. \A t \in Int : wallClockInZone(t, zone) = IF t < at THEN t + b ELSE t + a
  BY DEF wallClockInZone, zoneOffset
<1>4. Readings(wall, zone) # {} => wall - b < at \/ ~(wall - a < at) \/ a = b
  BY <1>1, <1>3 DEF Readings
<1> HIDE DEF b, a, at
<1>5. zonedWallToUtc(wall, zone) \in {wall - b, wall - a} /\ zonedWallToUtc(wall, zone) \in Int
  BY <1>1, <1>2
<1>6. ASSUME Readings(wall, zone) # {} PROVE wallClockInZone(zonedWallToUtc(wall, zone), zone) = wall
  BY <1>1, <1>2, <1>3, <1>4, <1>5, <1>6
<1> QED BY <1>5, <1>6 DEF a, b

(* A reading of the tutor's clock and the instant are a day apart at most, *)
(* and of two instants the readings keep the order but for a day.          *)
LEMMA ClocksAreClose ==
    ASSUME NEW zone, ZoneOK(zone), NEW s \in Int, NEW t \in Int
    PROVE  /\ wallClockInZone(t, zone) \in Int
           /\ t - Day < wallClockInZone(t, zone) /\ wallClockInZone(t, zone) < t + Day
           /\ s <= t => wallClockInZone(s, zone) - Day <= wallClockInZone(t, zone)
BY SlotAssumption DEF ZoneOK, wallClockInZone, zoneOffset

LEMMA WindowsFit ==
    ASSUME NEW cal, CalendarOK(cal), NEW date \in Int, NEW w \in windowsForDate(date, cal)
    PROVE  Starts(w, cal) \subseteq 0..(Day - 1)
<1>1. w \in cal.rules \cup cal.exceptions
  BY DEF windowsForDate
<1>2. w.start \in Nat /\ w.end \in 0..Day /\ cal.duration \in Nat \ {0} /\ Day \in Nat \ {0}
  BY <1>1, SlotAssumption DEF CalendarOK
<1>3. ASSUME NEW m \in w.start..(w.end - cal.duration) PROVE m \in 0..(Day - 1)
  BY <1>2
<1> QED BY <1>3 DEF Starts

(* The dates between two instants, on the tutor's clock, and one more on   *)
(* either side.                                                            *)
DatesOf(opens, closes, cal) ==
    (DateOf(wallClockInZone(opens, cal.zone)) - 1)..(DateOf(wallClockInZone(closes, cal.zone)) + 1)

LEMMA SlotsUnfold ==
    ASSUME NEW cal, NEW range, NEW viewer, NEW t
    PROVE  t \in computeSlots(cal, range, viewer) <=>
               /\ \E date \in DatesOf(RangeStart(range, viewer), RangeEnd(range, viewer), cal) :
                      \E w \in windowsForDate(date, cal) : \E m \in Starts(w, cal) :
                          t = zonedWallToUtc(date * Day + m, cal.zone)
               /\ t >= RangeStart(range, viewer) /\ t < RangeEnd(range, viewer) /\ Bookable(t, cal)
BY DEF computeSlots, DatesOf

(* A start is within a day of the date it was made from. *)
LEMMA StartsAreNear ==
    ASSUME NEW cal, CalendarOK(cal), NEW date \in Int, NEW w \in windowsForDate(date, cal),
           NEW m \in Starts(w, cal), NEW t, t = zonedWallToUtc(date * Day + m, cal.zone)
    PROVE  /\ t \in Int /\ m \in 0..(Day - 1) /\ date * Day + m \in Int
           /\ DateOf(t) \in Int /\ date \in (DateOf(t) - 1)..(DateOf(t) + 1)
<1> DEFINE wall == date * Day + m
<1>1. Day \in Nat \ {0} /\ m \in 0..(Day - 1)
  BY WindowsFit, SlotAssumption
<1>2. wall \in Int /\ DateOf(wall) = date
  BY <1>1, DatesAndMinutes
<1>3. ZoneOK(cal.zone)
  BY DEF CalendarOK
<1> HIDE DEF wall
<1>4. t \in Int /\ t \in {wall - cal.zone.before, wall - cal.zone.after}
  <2>1. t = zonedWallToUtc(wall, cal.zone)
    BY DEF wall
  <2> QED BY <1>2, <1>3, <2>1, RefinedIsAReading
<1>5. wall - Day <= t /\ t - Day <= wall
  BY <1>1, <1>2, <1>3, <1>4 DEF ZoneOK
<1>6. DateOf(wall) - 1 <= DateOf(t) /\ DateOf(t) - 1 <= DateOf(wall) /\ DateOf(t) \in Int
  BY <1>2, <1>4, <1>5, DatesPass, DatesAndMinutes
<1>7. date \in (DateOf(t) - 1)..(DateOf(t) + 1)
  BY <1>2, <1>6
<1> QED BY <1>1, <1>2, <1>4, <1>6, <1>7 DEF wall

(* The code's own test of a start: it leaves the duration before the end. *)
LeavesRoom(t, cal) ==
    LET wall == wallClockInZone(t, cal.zone)
    IN \E w \in windowsForDate(DateOf(wall), cal) : MinuteOf(wall) \in Starts(w, cal)

LEMMA ReadsADate ==
    ASSUME NEW cal, CalendarOK(cal), NEW t \in Int
    PROVE  LET wall == wallClockInZone(t, cal.zone)
           IN /\ wall \in Int /\ MinuteOf(wall) \in Nat /\ DateOf(wall) * Day \in Int
              /\ wall = DateOf(wall) * Day + MinuteOf(wall)
<1> DEFINE wall == wallClockInZone(t, cal.zone)
<1>1. wall \in Int
  BY ClocksAreClose DEF CalendarOK
<1> HIDE DEF wall
<1>2. DateOf(wall) \in Int /\ MinuteOf(wall) \in 0..(Day - 1) /\ wall = DateOf(wall) * Day + MinuteOf(wall)
  BY <1>1, DatesAndMinutes
<1>3. DateOf(wall) * Day \in Int /\ MinuteOf(wall) \in Nat
  BY <1>2, SlotAssumption
<1> QED BY <1>1, <1>2, <1>3 DEF wall

(* As long as the clock is not moved it runs with the lesson. *)
LEMMA SteadyClockRuns ==
    ASSUME NEW cal, CalendarOK(cal), NEW t \in Int
    PROVE  /\ Steady(t, cal) \in 1..cal.duration /\ cal.duration \in Nat \ {0}
           /\ \A u \in t..(t + Steady(t, cal) - 1) :
                  wallClockInZone(u, cal.zone) = wallClockInZone(t, cal.zone) + (u - t)
<1> DEFINE b == cal.zone.before
           a == cal.zone.after
           at == cal.zone.at
           d == cal.duration
<1>1. b \in Int /\ a \in Int /\ at \in Int /\ d \in Nat \ {0}
  BY DEF CalendarOK, ZoneOK
<1>2. Steady(t, cal) = IF b # a /\ at \in (t + 1)..(t + d - 1) THEN at - t ELSE d
  BY DEF Steady
<1>3. \A u \in Int : wallClockInZone(u, cal.zone) = IF u < at THEN u + b ELSE u + a
  BY DEF wallClockInZone, zoneOffset
<1> HIDE DEF b, a, at
<1>4. Steady(t, cal) \in 1..d
  BY <1>1, <1>2
<1>5. ASSUME NEW u \in t..(t + Steady(t, cal) - 1)
      PROVE  wallClockInZone(u, cal.zone) = wallClockInZone(t, cal.zone) + (u - t)
  BY <1>1, <1>2, <1>3, <1>4
<1> QED BY <1>1, <1>4, <1>5

(* What leaves room is in the window until the clock is moved, *)
LEMMA RoomIsInside ==
    ASSUME NEW cal, CalendarOK(cal), NEW t \in Int, LeavesRoom(t, cal)
    PROVE  InSomeWindow(t, Steady(t, cal), cal)
<1> DEFINE wall == wallClockInZone(t, cal.zone)
           date == DateOf(wall)
           m == MinuteOf(wall)
           dawn == date * Day
           length == Steady(t, cal)
<1>1. PICK w \in windowsForDate(date, cal) : m \in Starts(w, cal)
  BY DEF LeavesRoom
<1>2. wall \in Int /\ wall = dawn + m /\ dawn \in Int /\ m \in Nat
  BY ReadsADate
<1>3. w.start \in Nat /\ w.end \in 0..Day /\ cal.duration \in Nat \ {0} /\ Day \in Nat \ {0}
  BY SlotAssumption DEF CalendarOK, windowsForDate
<1>4. m \in w.start..(w.end - cal.duration) /\ (m - w.start) % Step = 0
  BY <1>1 DEF Starts
<1>5. length \in 1..cal.duration
      /\ \A u \in t..(t + length - 1) : wallClockInZone(u, cal.zone) = wall + (u - t)
  BY SteadyClockRuns
<1> HIDE DEF wall, date, m, dawn, length
<1>6. ASSUME NEW u \in t..(t + length - 1)
      PROVE  /\ dawn + w.start <= wallClockInZone(u, cal.zone)
             /\ wallClockInZone(u, cal.zone) < dawn + w.end
  BY <1>2, <1>3, <1>4, <1>5
<1> QED BY <1>4, <1>6 DEF InSomeWindow, wall, date, m, dawn, length

(* and what is in a window while the clock stands leaves room. *)
LEMMA InsideHasRoom ==
    ASSUME NEW cal, CalendarOK(cal), NEW t \in Int, InSomeWindow(t, cal.duration, cal),
           Steady(t, cal) = cal.duration
    PROVE  LeavesRoom(t, cal)
<1> DEFINE wall == wallClockInZone(t, cal.zone)
           date == DateOf(wall)
           m == MinuteOf(wall)
           dawn == date * Day
           last == t + cal.duration - 1
<1>1. PICK w \in windowsForDate(date, cal) :
          /\ (m - w.start) % Step = 0
          /\ \A u \in t..last : /\ dawn + w.start <= wallClockInZone(u, cal.zone)
                                /\ wallClockInZone(u, cal.zone) < dawn + w.end
  BY DEF InSomeWindow
<1>2. wall \in Int /\ wall = dawn + m /\ dawn \in Int /\ m \in Nat
  BY ReadsADate
<1>3. w.start \in Nat /\ w.end \in 0..Day /\ cal.duration \in Nat \ {0} /\ Day \in Nat \ {0}
  BY SlotAssumption DEF CalendarOK, windowsForDate
<1>4. t \in t..last /\ last \in t..last
  BY <1>3
<1>5. wallClockInZone(last, cal.zone) = wall + (last - t)
  BY <1>4, SteadyClockRuns
<1>6. dawn + w.start <= wall /\ wallClockInZone(last, cal.zone) < dawn + w.end
  BY <1>1, <1>4
<1>7. last - t = cal.duration - 1
  BY <1>3
<1> HIDE DEF wall, date, m, dawn, last
<1>8. m \in w.start..(w.end - cal.duration)
  BY <1>2, <1>3, <1>5, <1>6, <1>7
<1> QED BY <1>1, <1>8 DEF LeavesRoom, Starts, wall, date, m

(* What the calendar offers leaves room, but for a start that is skipped. *)
LEMMA SlotsAreInWindows ==
    ASSUME NEW cal, CalendarOK(cal), NEW range, NEW viewer, ZoneOK(viewer),
           {range.from, range.to} \subseteq Int, NEW t \in computeSlots(cal, range, viewer)
    PROVE  \/ InSomeWindow(t, Steady(t, cal), cal)
           \/ \E m \in 0..(Day - 1), date \in {DateOf(t) - 1, DateOf(t), DateOf(t) + 1} :
                  /\ Readings(date * Day + m, cal.zone) = {}
                  /\ zonedWallToUtc(date * Day + m, cal.zone) = t
<1>0. PICK date \in DatesOf(RangeStart(range, viewer), RangeEnd(range, viewer), cal) :
          \E w \in windowsForDate(date, cal) : \E m \in Starts(w, cal) :
              t = zonedWallToUtc(date * Day + m, cal.zone)
  BY SlotsUnfold
<1>01. PICK w \in windowsForDate(date, cal) : \E m \in Starts(w, cal) :
              t = zonedWallToUtc(date * Day + m, cal.zone)
  BY <1>0
<1>1. PICK m \in Starts(w, cal) : t = zonedWallToUtc(date * Day + m, cal.zone)
  BY <1>01
<1>2. date \in Int
  BY DEF DatesOf
<1>3. /\ t \in Int /\ m \in 0..(Day - 1) /\ date * Day + m \in Int
      /\ date \in {DateOf(t) - 1, DateOf(t), DateOf(t) + 1}
  BY <1>1, <1>2, StartsAreNear
<1>4. CASE Readings(date * Day + m, cal.zone) = {}
  BY <1>1, <1>3, <1>4
<1>5. CASE Readings(date * Day + m, cal.zone) # {}
  <2>1. wallClockInZone(t, cal.zone) = date * Day + m
    BY <1>1, <1>3, <1>5, RefinedIsAReading DEF CalendarOK
  <2>2. DateOf(date * Day + m) = date /\ MinuteOf(date * Day + m) = m
    BY <1>2, <1>3, DatesAndMinutes
  <2>3. LeavesRoom(t, cal)
    BY <1>1, <2>1, <2>2 DEF LeavesRoom
  <2> QED BY <1>3, <2>3, RoomIsInside
<1> QED BY <1>4, <1>5

(* What is in a window and free is offered, unless its start comes twice or *)
(* the clock is moved during it.                                           *)
LEMMA WindowsAreOffered ==
    ASSUME NEW cal, CalendarOK(cal), NEW range, NEW viewer, ZoneOK(viewer),
           {range.from, range.to} \subseteq Int,
           NEW t \in RangeStart(range, viewer)..(RangeEnd(range, viewer) - 1),
           InSomeWindow(t, cal.duration, cal), Steady(t, cal) = cal.duration, Bookable(t, cal),
           Readings(wallClockInZone(t, cal.zone), cal.zone) = {t}
    PROVE  t \in computeSlots(cal, range, viewer)
<1> DEFINE opens == RangeStart(range, viewer)
           closes == RangeEnd(range, viewer)
           wall == wallClockInZone(t, cal.zone)
<1>1. Day \in Nat \ {0} /\ ZoneOK(cal.zone)
  BY SlotAssumption DEF CalendarOK
<1>2. opens \in Int /\ closes \in Int
  <2>1. range.from * Day \in Int /\ (range.to + 1) * Day \in Int
    BY <1>1
  <2> QED BY <2>1, RefinedIsAReading DEF RangeStart, RangeEnd
<1>3. t \in Int /\ opens <= t /\ t < closes /\ t <= closes
  BY <1>2
<1>4. PICK w \in windowsForDate(DateOf(wall), cal) : MinuteOf(wall) \in Starts(w, cal)
  BY <1>3, InsideHasRoom DEF LeavesRoom
<1>5. wall \in Int
  BY <1>1, <1>3, ClocksAreClose
<1>6. DateOf(wall) \in Int /\ wall = DateOf(wall) * Day + MinuteOf(wall)
  BY <1>5, DatesAndMinutes
<1>7. t = zonedWallToUtc(wall, cal.zone)
  <2>1. wallClockInZone(zonedWallToUtc(wall, cal.zone), cal.zone) = wall
    BY <1>1, <1>5, RefinedIsAReading
  <2>2. zonedWallToUtc(wall, cal.zone) \in Readings(wall, cal.zone)
    BY <1>1, <1>5, <2>1, RefinedIsAReading DEF Readings
  <2> QED BY <2>2
<1>8. DateOf(wall) \in DatesOf(opens, closes, cal)
  <2>1. /\ wallClockInZone(opens, cal.zone) \in Int /\ wallClockInZone(closes, cal.zone) \in Int
        /\ wallClockInZone(opens, cal.zone) - Day <= wall /\ wall - Day <= wallClockInZone(closes, cal.zone)
    BY <1>1, <1>2, <1>3, ClocksAreClose
  <2> HIDE DEF opens, closes, wall
  <2>2. /\ DateOf(wallClockInZone(opens, cal.zone)) - 1 <= DateOf(wall)
        /\ DateOf(wall) - 1 <= DateOf(wallClockInZone(closes, cal.zone))
        /\ DateOf(wallClockInZone(opens, cal.zone)) \in Int /\ DateOf(wallClockInZone(closes, cal.zone)) \in Int
    BY <1>5, <2>1, DatesPass, DatesAndMinutes
  <2> QED BY <1>6, <2>2 DEF DatesOf
<1> HIDE DEF wall
<1>9. \E date \in DatesOf(opens, closes, cal) : \E v \in windowsForDate(date, cal) :
          \E m \in Starts(v, cal) : t = zonedWallToUtc(date * Day + m, cal.zone)
  BY <1>4, <1>6, <1>7, <1>8
<1> QED BY <1>2, <1>3, <1>9, SlotsUnfold

(* What the calendar offers the server takes: the three UTC days around it *)
(* have the date it was made from among theirs.                            *)
LEMMA SlotsAreOpen ==
    ASSUME NEW cal, CalendarOK(cal), NEW range, NEW viewer, ZoneOK(viewer),
           {range.from, range.to} \subseteq Int, NEW t \in computeSlots(cal, range, viewer)
    PROVE  isSlotOpen(cal, t)
<1> DEFINE d == DateOf(t)
           around == [from |-> d - 1, to |-> d + 1]
           opens == RangeStart(around, UTC)
           closes == RangeEnd(around, UTC)
<1>0. PICK date \in DatesOf(RangeStart(range, viewer), RangeEnd(range, viewer), cal) :
          \E w \in windowsForDate(date, cal) : \E m \in Starts(w, cal) :
              t = zonedWallToUtc(date * Day + m, cal.zone)
  BY SlotsUnfold
<1>01. PICK w \in windowsForDate(date, cal) : \E m \in Starts(w, cal) :
              t = zonedWallToUtc(date * Day + m, cal.zone)
  BY <1>0
<1>1. PICK m \in Starts(w, cal) : t = zonedWallToUtc(date * Day + m, cal.zone)
  BY <1>01
<1>2. date \in Int
  BY DEF DatesOf
<1>3. t \in Int /\ d \in Int /\ date \in (d - 1)..(d + 1)
  BY <1>1, <1>2, StartsAreNear
<1>4. Day \in Nat \ {0} /\ ZoneOK(cal.zone) /\ Bookable(t, cal)
  BY SlotAssumption, SlotsUnfold DEF CalendarOK
<1>5. /\ opens = (d - 1) * Day /\ closes = (d + 2) * Day
  <2>1. \A wall \in Int : zonedWallToUtc(wall, UTC) = wall
    BY DEF zonedWallToUtc, zoneOffset, UTC
  <2>2. (d - 1) * Day \in Int /\ (d + 2) * Day \in Int /\ (d + 1) + 1 = d + 2
    BY <1>3, <1>4
  <2> QED BY <2>1, <2>2 DEF RangeStart, RangeEnd
<1> DEFINE noon == d * Day
<1>6. noon \in Int /\ opens = noon - Day /\ closes = noon + Day + Day
      /\ noon <= t /\ t < noon + Day
  <2>1. t = d * Day + MinuteOf(t) /\ MinuteOf(t) \in 0..(Day - 1)
    BY <1>3, DatesAndMinutes
  <2>2. (d - 1) * Day = noon - Day /\ (d + 2) * Day = noon + Day + Day /\ noon \in Int
    BY <1>3, <1>4
  <2> HIDE DEF noon
  <2>3. t = noon + MinuteOf(t)
    BY <2>1 DEF noon
  <2> QED BY <1>4, <1>5, <2>1, <2>2, <2>3
<1> HIDE DEF opens, closes, noon
<1>7. t >= opens /\ t < closes
  BY <1>3, <1>4, <1>6
<1>8. date \in DatesOf(opens, closes, cal)
  <2> DEFINE soonest == wallClockInZone(opens, cal.zone)
             furthest == wallClockInZone(closes, cal.zone)
  <2>1. soonest \in Int /\ furthest \in Int /\ soonest < opens + Day /\ closes - Day < furthest
    BY <1>4, <1>6, ClocksAreClose
  <2> HIDE DEF soonest, furthest
  <2>2. soonest <= t /\ t <= furthest
    BY <1>3, <1>4, <1>6, <2>1
  <2>3. DateOf(soonest) <= d /\ d <= DateOf(furthest) /\ DateOf(soonest) \in Int /\ DateOf(furthest) \in Int
    BY <1>3, <2>1, <2>2, DatesPass, DatesAndMinutes
  <2>4. date \in (DateOf(soonest) - 1)..(DateOf(furthest) + 1)
    BY <1>2, <1>3, <2>3
  <2> QED BY <2>4 DEF DatesOf, soonest, furthest
<1>9. t \in computeSlots(cal, around, UTC)
  BY <1>1, <1>4, <1>7, <1>8, SlotsUnfold DEF opens, closes
<1> QED BY <1>9 DEF isSlotOpen

(* compute-slots.ts: for every calendar, viewer and range of days the slots *)
(* are the lessons that lie in a window as a whole, are free and within the *)
(* cutoffs, and the server takes each of them. Lessons the clock is moved   *)
(* in, at or under are exempt as SlotsAreExact says.                        *)
THEOREM EverySlotIsExact ==
    ASSUME NEW cal, CalendarOK(cal), NEW viewer, ZoneOK(viewer),
           NEW range, {range.from, range.to} \subseteq Int
    PROVE  SlotsAreExact(cal, range, viewer)
<1>1. \A t \in computeSlots(cal, range, viewer) : Bookable(t, cal)
  BY SlotsUnfold
<1> QED BY <1>1, SlotsAreInWindows, WindowsAreOffered, SlotsAreOpen DEF SlotsAreExact

(* zonedWallToUtc: the comment on skipped and repeated hours is right of a  *)
(* clock put forward east of Greenwich, and of one put back west of it.    *)
THEOREM HoursResolveOnOneSide ==
    ASSUME NEW zone, ZoneOK(zone), NEW wall \in Int,
           \/ 0 <= zone.before /\ zone.before <= zone.after
           \/ zone.before <= 0 /\ zone.after <= zone.before
    PROVE  ResolvesAsStated(wall, zone)
<1> DEFINE b == zone.before
           a == zone.after
           moves == zone.at
<1>1. /\ b \in Int /\ a \in Int /\ moves \in Int
      /\ (0 <= b /\ b <= a) \/ (b <= 0 /\ a <= b)
  BY DEF ZoneOK
<1>2. zonedWallToUtc(wall, zone) =
          IF wall < moves THEN (IF wall - b < moves THEN wall - b ELSE wall - a)
                          ELSE (IF wall - a < moves THEN wall - b ELSE wall - a)
  BY DEF zonedWallToUtc, zoneOffset
<1>3. \A t \in Int : wallClockInZone(t, zone) = IF t < moves THEN t + b ELSE t + a
  BY DEF wallClockInZone, zoneOffset
<1>4. \A u \in Readings(wall, zone) : \/ u = wall - b /\ (wall - b < moves \/ a = b)
                                      \/ u = wall - a /\ (~(wall - a < moves) \/ a = b)
  BY <1>1, <1>3 DEF Readings
<1>5. Readings(wall, zone) = {} => ~(wall - b < moves) /\ wall - a < moves
  BY <1>1, <1>3 DEF Readings
<1> HIDE DEF b, a, moves
<1>6. Readings(wall, zone) = {} => wallClockInZone(zonedWallToUtc(wall, zone), zone) > wall
  BY <1>1, <1>2, <1>3, <1>5
<1>7. ASSUME NEW u \in Readings(wall, zone) PROVE zonedWallToUtc(wall, zone) <= u
  BY <1>1, <1>2, <1>4
<1> QED BY <1>6, <1>7 DEF ResolvesAsStated

(***************************************************************************)
(* The parts together                                                      *)
(***************************************************************************)
EveryPartIInv ==
    /\ RoomIInv /\ CallIInv /\ ChannelIInv /\ ThreadIInv /\ BadgeIInv /\ BonusIInv
    /\ RemindersIInv /\ ModalIInv /\ AsksIInv /\ StageIInv /\ SendsIInv /\ ReviewIInv

(* A step is one of a part, and leaves every other where it was. *)
LEMMA StepsAreOfParts ==
    [Next]_vars =>
        /\ [RoomNext]_roomVars /\ [CallNext]_callVars /\ [ChannelNext]_channelVars
        /\ [ThreadNext]_threadVars /\ [BadgeNext]_badgeVars /\ [BonusNext]_bonusVars
        /\ [RemindersNext]_reminderVars /\ [ModalNext]_modalVars /\ [AsksNext]_asksVars
        /\ [StageNext]_stageVars /\ [SendsNext]_sendVars /\ [ReviewNext]_reviewVars
        /\ [LocksNext]_lockVars
BY DEF Next, vars

LEMMA PartsStart == Init => EveryPartIInv
BY RoomStart, CallStarts, ChannelStart, ThreadStarts, BadgeStarts, BonusStarts, RemindersStart,
   ModalStarts, AsksStarts, StageStarts, SendsStart, ReviewStarts DEF Init, EveryPartIInv

LEMMA PartsStep == EveryPartIInv /\ [Next]_vars => EveryPartIInv'
BY StepsAreOfParts, RoomStep, CallStep, ChannelStep, ThreadStep, BadgeStep, BonusStep, RemindersStep,
   ModalStep, AsksStep, StageStep, SendsStep, ReviewStep DEF EveryPartIInv

(* The specification the run checks, its invariant for every value of the  *)
(* constants of every part.                                                *)
THEOREM PartsAreSafe == Spec => []PartsIInv
<1>1. EveryPartIInv => PartsIInv
  BY BadgeIsSettled, ReviewIsSeen
     DEF EveryPartIInv, PartsIInv, RoomIInv, CallIInv, ChannelIInv, ThreadIInv, BadgeIInv, BonusIInv,
         RemindersIInv, ModalIInv, AsksIInv, StageIInv, SendsIInv, ReviewIInv
<1> QED BY <1>1, PartsStart, PartsStep, PTL DEF Spec

(* And what else the run checks of its parts: no part takes the promise of *)
(* another away.                                                           *)
THEOREM PartsKeepTheirPromises ==
    Spec => [](/\ NoShowsWereAbsent /\ TokensEndWithTheSession /\ ChannelKept /\ SentOnce
               /\ OnlineTimeWasInView /\ BonusPaidOnce /\ RemindedOnceInTime)
<1>1. EveryPartIInv => /\ NoShowsWereAbsent /\ TokensEndWithTheSession /\ ChannelKept /\ SentOnce
                       /\ OnlineTimeWasInView /\ BonusPaidOnce /\ RemindedOnceInTime
  BY AbsenceIsTrue, TextsAreOfOneRow, CreditedWasInView
     DEF EveryPartIInv, RoomIInv, TokensInTime, ChannelIInv, BonusIInv, RemindersIInv
<1> QED BY <1>1, PartsStart, PartsStep, PTL DEF Spec

(* Nor do the admin's transactions wait in a circle there, when they are   *)
(* of those that follow the stated order.                                  *)
THEOREM OrderSufficesAmongParts ==
    ASSUME \A a \in Actors : Runs[a] \in Ordered
    PROVE  Spec => []NoWaitCycle
<1>1. Init => HeldBehind
  BY HeldBehindStarts DEF Init
<1>2. HeldBehind /\ [Next]_vars => HeldBehind'
  BY HeldBehindStep, StepsAreOfParts
<1> QED BY <1>1, <1>2, OrderHasNoCycle, PTL DEF Spec

(* computeSlots: in the run's calendars too, whose windows end at the sixth *)
(* unit of a day, every slot is one and the server takes it.               *)
THEOREM EveryCalendarsSlotsAreExact ==
    ASSUME Day >= 6
    PROVE  Spec => []SlotsOfCalendarAreExact
<1> DEFINE Drawn == calendar \in Calendars \cup {NoCalendar}
<1>1. Init => Drawn
  BY DEF Init
<1>2. Drawn /\ [Next]_vars => Drawn'
  BY DEF Next, vars
<1>3. \A zone \in Zones \cup Viewers : ZoneOK(zone)
  BY SlotAssumption DEF Zones, Viewers, UTC, ZoneOK
<1>4. ASSUME NEW cal \in Calendars PROVE CalendarOK(cal)
  <2>1. cal.zone \in Zones /\ cal.rules \in RuleSets /\ cal.duration \in {1, 2}
        /\ cal.exceptions \in {{}, {Blocked}, {Shorter, Untimed}}
    BY DEF Calendars
  <2>2. ASSUME NEW w \in cal.rules PROVE w.start \in Nat /\ w.end \in 0..Day
    <3>1. PICK from \in {0, 1, 2}, to \in {4, 5, 6} :
              cal.rules = {[weekday |-> 0, start |-> from, end |-> to], [weekday |-> 1, start |-> 0, end |-> 6]}
      BY <2>1 DEF RuleSets
    <3>2. w.start \in {0, 1, 2} /\ w.end \in {4, 5, 6}
      BY <3>1
    <3> QED BY <3>2, SlotAssumption
  <2>3. ASSUME NEW w \in cal.exceptions PROVE w.start \in Nat /\ w.end \in 0..Day
    <3>1. w \in {Blocked, Shorter, Untimed}
      BY <2>1
    <3> QED BY <3>1, SlotAssumption DEF Blocked, Shorter, Untimed
  <2> QED BY <1>3, <2>1, <2>2, <2>3 DEF CalendarOK
<1>5. {ViewedDays.from, ViewedDays.to} \subseteq Int
  BY DEF ViewedDays
<1>6. Drawn => SlotsOfCalendarAreExact
  BY <1>3, <1>4, <1>5, EverySlotIsExact DEF SlotsOfCalendarAreExact
<1> QED BY <1>1, <1>2, <1>6, PTL DEF Spec
=============================================================================
