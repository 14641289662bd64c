----------------------------- MODULE Tabs_proofs -----------------------------
(***************************************************************************)
(* What the browser keeps, for any number of attempts, requests, messages, *)
(* joins and lost answers: the hooks, the two modals, the thread and the   *)
(* badge, the call page and the stage.                                     *)
(***************************************************************************)
EXTENDS RetryingChannel, WaitingModal, CallPage, LiveThread, UnreadBadge, IncomingRequests,
        LiveStage, WellFoundedInduction, TLAPS

(* The connect that counts has no channel while its prelude is under way.  *)
NoneBeforePrelude == generation \in prelude => channel = NoChannel

ChannelIInv == ChannelTypeOK /\ ChannelKept /\ NoneBeforePrelude

LEMMA ChannelStart == ChannelInit => ChannelIInv
<1> SUFFICES ASSUME ChannelInit PROVE ChannelIInv
  OBVIOUS
<1>1. generation \in Attempts
  BY ChannelAssumption DEF ChannelInit
<1>2. QED BY <1>1 DEF ChannelInit, ChannelIInv, ChannelTypeOK, ChannelKept, NoneBeforePrelude

(* After a drop there is nothing on the socket. *)
LEMMA Dropped == ASSUME ChannelIInv, dropChannel PROVE
    channel' = NoChannel /\ open' = {} /\ late' \subseteq Attempts
  BY DEF ChannelIInv, ChannelTypeOK, ChannelKept, dropChannel

LEMMA FailKeeps ==
  ASSUME ChannelIInv, mounted, fail, UNCHANGED <<mounted, generation>>, prelude' \subseteq prelude
  PROVE  ChannelIInv'
<1>1. channel' = NoChannel /\ open' = {} /\ late' \subseteq Attempts
  BY Dropped DEF fail
<1>2. QED
  BY <1>1 DEF fail, ChannelIInv, ChannelTypeOK, ChannelKept, NoneBeforePrelude

LEMMA ConnectKeeps == ASSUME ChannelIInv, connect PROVE ChannelIInv'
<1>1. channel' = NoChannel /\ open' = {} /\ late' \subseteq Attempts
  BY Dropped DEF connect
<1>2. ChannelTypeOK'
  BY <1>1 DEF connect, ChannelIInv, ChannelTypeOK
<1>3. QED
  BY <1>1, <1>2 DEF connect, ChannelIInv, ChannelKept, NoneBeforePrelude

LEMMA PreludeDoneKeeps == ASSUME ChannelIInv, NEW a \in Attempts, PreludeDone(a) PROVE ChannelIInv'
<1> USE DEF PreludeDone, ChannelIInv, ChannelTypeOK, ChannelKept, NoneBeforePrelude
<1>1. CASE mounted /\ a = generation
  <2>1. channel = NoChannel /\ open' = {a} /\ channel' = a /\ a # NoChannel
    BY <1>1, ChannelAssumption
  <2>2. QED BY <1>1, <2>1
<1>2. CASE ~(mounted /\ a = generation)
  BY <1>2
<1>3. QED BY <1>1, <1>2

LEMMA PreludeFailsKeeps == ASSUME ChannelIInv, NEW a \in Attempts, PreludeFails(a) PROVE ChannelIInv'
<1>1. CASE mounted /\ a = generation
  BY <1>1, FailKeeps DEF PreludeFails
<1>2. CASE ~(mounted /\ a = generation)
  BY <1>2 DEF PreludeFails, ChannelIInv, ChannelTypeOK, ChannelKept, NoneBeforePrelude
<1>3. QED BY <1>1, <1>2

LEMMA ChannelFailsKeeps == ASSUME ChannelIInv, ChannelFails PROVE ChannelIInv'
<1>1. CASE mounted
  BY <1>1, FailKeeps DEF ChannelFails
<1>2. CASE ~mounted
  BY <1>2 DEF ChannelFails, ChannelIInv, ChannelTypeOK, ChannelKept, NoneBeforePrelude
<1>3. QED BY <1>1, <1>2

LEMMA UnmountKeeps == ASSUME ChannelIInv, unmount PROVE ChannelIInv'
<1>1. channel' = NoChannel /\ open' = {} /\ late' \subseteq Attempts
  BY Dropped DEF unmount
<1>2. QED
  BY <1>1 DEF unmount, clearTimers, ChannelIInv, ChannelTypeOK, ChannelKept, NoneBeforePrelude

LEMMA ChannelStep == ChannelIInv /\ [ChannelNext]_channelVars => ChannelIInv'
<1> SUFFICES ASSUME ChannelIInv, [ChannelNext]_channelVars PROVE ChannelIInv'
  OBVIOUS
<1>1. CASE connect
  BY <1>1, ConnectKeeps
<1>2. CASE watchdogFires
  BY <1>2, FailKeeps DEF watchdogFires
<1>3. CASE Subscribed
  BY <1>3 DEF Subscribed, clearTimers, ChannelIInv, ChannelTypeOK, ChannelKept, NoneBeforePrelude
<1>4. CASE ChannelFails
  BY <1>4, ChannelFailsKeeps
<1>5. CASE unmount
  BY <1>5, UnmountKeeps
<1>6. ASSUME NEW a \in Attempts, PreludeDone(a) \/ PreludeFails(a) PROVE ChannelIInv'
  BY <1>6, PreludeDoneKeeps, PreludeFailsKeeps
<1>7. ASSUME NEW a \in Attempts, Forget(a) PROVE ChannelIInv'
  BY <1>7 DEF Forget, ChannelIInv, ChannelTypeOK, ChannelKept, NoneBeforePrelude
<1>8. CASE UNCHANGED channelVars
  BY <1>8 DEF channelVars, ChannelIInv, ChannelTypeOK, ChannelKept, NoneBeforePrelude
<1>9. QED BY <1>1, <1>2, <1>3, <1>4, <1>5, <1>6, <1>7, <1>8 DEF ChannelNext

(* At most one channel, none after the unmount, and a hook that is not      *)
(* subscribed always has a timer that will act: for any number of connects. *)
THEOREM ChannelIsKept == ChannelSpec => []ChannelKept
<1>1. ChannelIInv => ChannelKept
  BY DEF ChannelIInv
<1>2. QED BY <1>1, ChannelStart, ChannelStep, PTL DEF ChannelSpec

(* What is announced, read or shown is the end the request came to; only a *)
(* modal that waits has a channel.                                         *)
NewsIsTrue ==
    /\ told \subseteq {request} /\ answers \subseteq {request} /\ outcome \in {"none", request}
    /\ joined => tab = "waiting"
    /\ tab = "widget" => request = "none"

ModalIInv == ModalTypeOK /\ NewsIsTrue /\ AcceptIsOnItsWay

LEMMA ModalStarts == ModalInit => ModalIInv
<1> SUFFICES ASSUME ModalInit PROVE ModalIInv
  OBVIOUS
<1>1. reads \in 0..MaxReads
  BY ModalAssumption DEF ModalInit
<1>2. ModalTypeOK
  BY <1>1 DEF ModalInit, ModalTypeOK, Finals
<1>3. NewsIsTrue /\ AcceptIsOnItsWay
  BY DEF ModalInit, NewsIsTrue, AcceptIsOnItsWay
<1>4. QED BY <1>2, <1>3 DEF ModalIInv

LEMMA ServerKeeps ==
    ASSUME ModalIInv, NEW final \in Finals, SettleRequest(final) \/ getOutgoingRequest
    PROVE  ModalIInv'
<1> USE DEF ModalIInv, ModalTypeOK, NewsIsTrue, AcceptIsOnItsWay, Finals
<1>1. CASE SettleRequest(final)
  BY <1>1 DEF SettleRequest
<1>2. CASE getOutgoingRequest
  <2>1. reads' \in 0..MaxReads
    BY <1>2, ModalAssumption DEF getOutgoingRequest
  <2>2. QED BY <1>2, <2>1 DEF getOutgoingRequest
<1>3. QED BY <1>1, <1>2

LEMMA HearingKeeps ==
    ASSUME ModalIInv, NEW final \in Finals, onUpdate(final) \/ readBack(final)
    PROVE  ModalIInv'
<1> USE DEF ModalIInv, ModalTypeOK, NewsIsTrue, AcceptIsOnItsWay, Finals
<1>1. CASE onUpdate(final)
  BY <1>1 DEF onUpdate, Show
<1>2. CASE readBack(final)
  BY <1>2 DEF readBack, Show
<1>3. QED BY <1>1, <1>2

LEMMA TabKeeps ==
    ASSUME ModalIInv,
           onRequest \/ onRequested \/ onModalSubscribed \/ LoseModalChannel \/ RingEnds \/ closeWaiting
    PROVE  ModalIInv'
<1> USE DEF ModalIInv, ModalTypeOK, NewsIsTrue, AcceptIsOnItsWay, Finals
<1>1. CASE onRequest
  BY <1>1 DEF onRequest
<1>2. CASE onRequested
  BY <1>2 DEF onRequested
<1>3. CASE onModalSubscribed
  BY <1>3, ModalAssumption DEF onModalSubscribed
<1>4. CASE LoseModalChannel
  BY <1>4 DEF LoseModalChannel
<1>5. CASE RingEnds
  BY <1>5, ModalAssumption DEF RingEnds
<1>6. CASE closeWaiting
  BY <1>6 DEF closeWaiting
<1>7. QED BY <1>1, <1>2, <1>3, <1>4, <1>5, <1>6

LEMMA ModalStep == ModalIInv /\ [ModalNext]_modalVars => ModalIInv'
<1> SUFFICES ASSUME ModalIInv, [ModalNext]_modalVars PROVE ModalIInv'
  OBVIOUS
<1>1. CASE UNCHANGED modalVars
  BY <1>1 DEF modalVars, ModalIInv, ModalTypeOK, NewsIsTrue, AcceptIsOnItsWay
<1>2. "accepted" \in Finals
  BY DEF Finals
<1>3. QED
  BY <1>1, <1>2, ServerKeeps, HearingKeeps, TabKeeps DEF ModalNext, Hearing

(* However often the channel is lost, and whenever the ring ends, a modal  *)
(* that waits on an accepted request has the news on its way.              *)
THEOREM AcceptIsHeard == ModalSpec => []AcceptIsOnItsWay
<1>1. ModalIInv => AcceptIsOnItsWay
  BY DEF ModalIInv
<1>2. QED BY <1>1, ModalStarts, ModalStep, PTL DEF ModalSpec

(***************************************************************************)
(* The tutor's queue of requests                                           *)
(***************************************************************************)
(* Induction over the numbers, on the set of those the claim holds of. *)
LEMMA CountingUp ==
    ASSUME NEW n \in Nat, NEW P, 0 \in P, \A i \in 0..(n - 1) : i \in P => i + 1 \in P
    PROVE  \A i \in 0..n : i \in P
<1> DEFINE less == OpToRel(<, Nat)
           left == (0..n) \ P
<1>1. IsWellFoundedOn(less, Nat)
  BY NatLessThanWellFounded
<1>2. SUFFICES ASSUME left # {} PROVE FALSE
  OBVIOUS
<1>3. left \subseteq Nat
  OBVIOUS
<1>4. \A i, j \in Nat : i < j => <<i, j>> \in less
  BY DEF OpToRel
<1> HIDE DEF less, left
<1>5. PICK i \in left : \A j \in left : ~(<<j, i>> \in less)
  BY <1>1, <1>2, <1>3, WFMin
<1>6. i \in 0..n /\ i \notin P /\ i # 0
  BY <1>5 DEF left
<1>7. i - 1 \in 0..(n - 1) /\ i - 1 \in Nat /\ i \in Nat /\ i - 1 < i /\ (i - 1) + 1 = i
  BY <1>6
<1>8. i - 1 \in P
  <2>1. <<i - 1, i>> \in less
    BY <1>4, <1>7
  <2>2. i - 1 \in 0..n
    BY <1>7
  <2> QED BY <1>5, <2>1, <2>2 DEF left
<1> QED BY <1>6, <1>7, <1>8

(* The filter, unfolded. *)
FiltersBy(f, q, r) ==
    f = [n \in 0..Len(q) |-> IF n = 0 THEN <<>>
                             ELSE IF q[n] = r THEN f[n - 1] ELSE Append(f[n - 1], q[n])]

LEMMA WithoutUnfold == \A r : Without(r) = (CHOOSE f : FiltersBy(f, queue, r))[Len(queue)]
BY DEF Without, FiltersBy

LEMMA FilterExists ==
    ASSUME NEW q, Len(q) \in Nat, NEW r
    PROVE  \E f : FiltersBy(f, q, r)
<1> DEFINE Upto(f, m) == f = [n \in 0..m |-> IF n = 0 THEN <<>>
                                ELSE IF q[n] = r THEN f[n - 1] ELSE Append(f[n - 1], q[n])]
           P == {m \in 0..Len(q) : \E f : Upto(f, m)}
<1>1. 0 \in P
  <2> DEFINE f == [n \in 0..0 |-> <<>>]
  <2>1. Upto(f, 0)
    OBVIOUS
  <2> HIDE DEF f
  <2> QED BY <2>1
<1>2. ASSUME NEW m \in 0..(Len(q) - 1), m \in P PROVE m + 1 \in P
  <2>1. PICK f : Upto(f, m)
    BY <1>2
  <2> DEFINE g == [n \in 0..(m + 1) |-> IF n \in 0..m THEN f[n]
                     ELSE IF q[n] = r THEN f[n - 1] ELSE Append(f[n - 1], q[n])]
  <2>2. \A n \in 0..(m + 1) : g[n] = IF n = 0 THEN <<>>
                                     ELSE IF q[n] = r THEN g[n - 1] ELSE Append(g[n - 1], q[n])
    <3> SUFFICES ASSUME NEW n \in 0..(m + 1)
                 PROVE  g[n] = IF n = 0 THEN <<>>
                               ELSE IF q[n] = r THEN g[n - 1] ELSE Append(g[n - 1], q[n])
      OBVIOUS
    <3>1. CASE n = 0
      BY <2>1, <3>1
    <3>2. CASE n # 0
      <4>1. n - 1 \in 0..m /\ n - 1 \in 0..(m + 1)
        BY <3>2
      <4>2. g[n - 1] = f[n - 1]
        BY <4>1
      <4>3. n \in 0..m => f[n] = IF q[n] = r THEN f[n - 1] ELSE Append(f[n - 1], q[n])
        BY <2>1, <3>2
      <4> QED BY <3>2, <4>2, <4>3
    <3> QED BY <3>1, <3>2
  <2>3. Upto(g, m + 1)
    BY <2>2
  <2>4. m + 1 \in 0..Len(q)
    OBVIOUS
  <2> HIDE DEF g
  <2> QED BY <2>3, <2>4
<1> HIDE DEF P
<1>3. \A m \in 0..Len(q) : m \in P
  BY <1>1, <1>2, CountingUp
<1>4. Len(q) \in P
  BY <1>3
<1> QED BY <1>4 DEF P, FiltersBy

(* What is kept is a queue of the same requests, each once if each was once. *)
LEMMA Filtered ==
    ASSUME NEW S, queue \in Seq(S), IsInjective(queue), NEW r
    PROVE  Without(r) \in Seq(S) /\ IsInjective(Without(r))
<1> DEFINE f == CHOOSE f : FiltersBy(f, queue, r)
           P == {m \in 0..Len(queue) : /\ f[m] \in Seq(S) /\ IsInjective(f[m])
                                       /\ \A k \in 1..Len(f[m]) : \E j \in 1..m : f[m][k] = queue[j]}
<1>1. Len(queue) \in Nat /\ \A i \in 1..Len(queue) : queue[i] \in S
  OBVIOUS
<1>2. FiltersBy(f, queue, r)
  BY <1>1, FilterExists
<1> HIDE DEF f
<1>3. 0 \in P
  <2>1. f[0] = <<>>
    BY <1>1, <1>2 DEF FiltersBy
  <2>2. <<>> \in Seq(S) /\ Len(<<>>) = 0 /\ DOMAIN <<>> = {}
    OBVIOUS
  <2>3. f[0] \in Seq(S) /\ Len(f[0]) = 0 /\ DOMAIN f[0] = {}
    BY <2>1, <2>2
  <2>4. IsInjective(f[0])
    BY <2>3 DEF IsInjective
  <2>5. 0 \in 0..Len(queue) /\ 1..0 = {}
    BY <1>1
  <2> QED BY <2>3, <2>4, <2>5
<1>4. ASSUME NEW m \in 0..(Len(queue) - 1), m \in P PROVE m + 1 \in P
  <2> DEFINE n == m + 1
  <2>1. n \in 1..Len(queue) /\ n \in 0..Len(queue) /\ n # 0 /\ n - 1 = m /\ queue[n] \in S
    BY <1>1
  <2>2. f[n] = IF queue[n] = r THEN f[m] ELSE Append(f[m], queue[n])
    BY <1>2, <2>1 DEF FiltersBy
  <2>3. /\ f[m] \in Seq(S) /\ IsInjective(f[m]) /\ Len(f[m]) \in Nat
        /\ \A k \in 1..Len(f[m]) : \E j \in 1..m : f[m][k] = queue[j]
    BY <1>4
  <2>4. 1..m \subseteq 1..n
    OBVIOUS
  <2>5. CASE f[n] = f[m]
    BY <2>1, <2>3, <2>4, <2>5
  <2>6. CASE f[n] = Append(f[m], queue[n])
    <3> DEFINE a == f[m]
               l == Len(a)
               b == Append(a, queue[n])
    <3>1. /\ b \in Seq(S) /\ DOMAIN b = 1..(l + 1) /\ Len(b) = l + 1 /\ b[l + 1] = queue[n]
          /\ \A k \in 1..l : b[k] = a[k]
      BY <2>1, <2>3
    <3>2. \A k \in 1..l : a[k] # queue[n]
      <4> SUFFICES ASSUME NEW k \in 1..l PROVE a[k] # queue[n]
        OBVIOUS
      <4>1. PICK j \in 1..m : a[k] = queue[j]
        BY <2>3
      <4>2. j \in DOMAIN queue /\ n \in DOMAIN queue /\ j # n
        BY <1>1, <2>1
      <4> QED BY <4>1, <4>2 DEF IsInjective
    <3>3. \A k \in 1..(l + 1) : k \in 1..l \/ k = l + 1
      BY <2>3
    <3>4. DOMAIN a = 1..l
      BY <2>3
    <3> HIDE DEF a, b, l
    <3>5. IsInjective(a)
      BY <2>3 DEF a
    <3>6. IsInjective(b)
      BY <3>1, <3>2, <3>3, <3>4, <3>5 DEF IsInjective
    <3>7. \A k \in 1..l : \E j \in 1..m : a[k] = queue[j]
      BY <2>3 DEF a, l
    <3>8. \A k \in 1..Len(b) : \E j \in 1..n : b[k] = queue[j]
      BY <2>1, <2>4, <3>1, <3>3, <3>7
    <3> QED BY <2>1, <2>6, <3>1, <3>6, <3>8 DEF a, b
  <2> QED BY <2>2, <2>5, <2>6
<1> HIDE DEF P
<1>5. Len(queue) \in P
  <2>1. \A m \in 0..Len(queue) : m \in P
    BY <1>1, <1>3, <1>4, CountingUp
  <2> QED BY <1>1, <2>1
<1>6. Without(r) = f[Len(queue)]
  BY WithoutUnfold DEF f
<1> QED BY <1>5, <1>6 DEF P

(* The queue is of requests once each, and an answer is to one of them. *)
AsksIInv == AsksTypeOK /\ QueuedOnce /\ AnswersAnAsk

(* What is merged is there once: by mergeIntoQueue's own look. *)
LEMMA MergedOnce ==
    ASSUME queue \in Seq(Asks), IsInjective(queue), NEW r \in Asks
    PROVE  Merged(r) \in Seq(Asks) /\ IsInjective(Merged(r))
<1> DEFINE n == Len(queue)
           b == Append(queue, r)
<1>1. CASE r \in ToSet(queue)
  BY <1>1 DEF Merged
<1>2. CASE r \notin ToSet(queue)
  <2>1. /\ b \in Seq(Asks) /\ DOMAIN b = 1..(n + 1) /\ b[n + 1] = r /\ n \in Nat
        /\ DOMAIN queue = 1..n
        /\ \A k \in 1..n : b[k] = queue[k]
    OBVIOUS
  <2>2. \A k \in 1..n : queue[k] # r
    BY <1>2, <2>1 DEF ToSet
  <2>3. \A k \in 1..(n + 1) : k \in 1..n \/ k = n + 1
    BY <2>1
  <2>4. b = Merged(r)
    BY <1>2 DEF Merged
  <2> HIDE DEF b, n
  <2>5. IsInjective(b)
    BY <2>1, <2>2, <2>3 DEF IsInjective
  <2> QED BY <2>1, <2>4, <2>5
<1> QED BY <1>1, <1>2

(* Nor does dropping the first make two of one. *)
LEMMA TailOnce ==
    ASSUME queue \in Seq(Asks), IsInjective(queue), queue # <<>>
    PROVE  Tail(queue) \in Seq(Asks) /\ IsInjective(Tail(queue)) /\ Head(queue) \in Asks
<1> DEFINE t == Tail(queue)
           n == Len(queue)
<1>1. /\ t \in Seq(Asks) /\ n \in Nat \ {0} /\ DOMAIN t = 1..(n - 1) /\ DOMAIN queue = 1..n
      /\ \A k \in 1..(n - 1) : t[k] = queue[k + 1]
      /\ Head(queue) \in Asks
  OBVIOUS
<1> HIDE DEF t, n
<1>2. ASSUME NEW i \in 1..(n - 1), NEW j \in 1..(n - 1), t[i] = t[j] PROVE i = j
  <2>1. i + 1 \in DOMAIN queue /\ j + 1 \in DOMAIN queue
    BY <1>1
  <2>2. queue[i + 1] = queue[j + 1]
    BY <1>1, <1>2
  <2>3. i + 1 = j + 1
    BY <2>1, <2>2 DEF IsInjective
  <2> QED BY <2>3
<1>3. IsInjective(t)
  BY <1>1, <1>2 DEF IsInjective
<1> QED BY <1>1, <1>3 DEF t

LEMMA AsksStarts == AsksInit => AsksIInv
<1> SUFFICES ASSUME AsksInit PROVE AsksIInv
  OBVIOUS
<1>1. /\ queue = <<>> /\ <<>> \in Seq(Asks) /\ DOMAIN <<>> = {} /\ lists = 1 /\ room = NoAsk
      /\ inserts = {} /\ updates = {} /\ found = {} /\ aside = {} /\ listening = FALSE
      /\ ask = [r \in Asks |-> "none"] /\ answering = [on |-> NoAsk, as |-> "none", came |-> "none"]
  BY DEF AsksInit, NotAnswering
<1>2. lists \in 0..MaxLists
  BY <1>1, AsksAssumption
<1>3. AsksTypeOK
  BY <1>1, <1>2 DEF AsksTypeOK
<1>4. QueuedOnce
  BY <1>1 DEF QueuedOnce, IsInjective
<1> QED BY <1>1, <1>3, <1>4 DEF AsksIInv, AnswersAnAsk

(* A step that leaves the queue and the answer alone, or waits for none. *)
LEMMA AsksStep == AsksIInv /\ [AsksNext]_asksVars => AsksIInv'
<1> SUFFICES ASSUME AsksIInv, [AsksNext]_asksVars PROVE AsksIInv'
  OBVIOUS
<1>a. AsksTypeOK /\ QueuedOnce /\ AnswersAnAsk
  BY DEF AsksIInv
<1>b. queue \in Seq(Asks) /\ IsInjective(queue)
  BY <1>a DEF AsksTypeOK, QueuedOnce
<1>c. ASSUME AsksTypeOK', queue' = queue, UNCHANGED answering PROVE AsksIInv'
  BY <1>a, <1>c DEF AsksIInv, AnswersAnAsk, QueuedOnce, IsInjective
<1>w. Waiting \subseteq Asks
  BY DEF Waiting
<1>1. ASSUME NEW r \in Asks, insertAsk(r) PROVE AsksIInv'
  BY <1>a, <1>c, <1>1 DEF insertAsk, AsksTypeOK
<1>2. ASSUME NEW r \in Asks, RunsOut(r) PROVE AsksIInv'
  BY <1>a, <1>c, <1>2 DEF RunsOut, readVars, AsksTypeOK
<1>3. ASSUME NEW r \in Asks, SettleAsk(r) PROVE AsksIInv'
  BY <1>a, <1>c, <1>3 DEF SettleAsk, Announce, readVars, AsksTypeOK
<1>4. ASSUME NEW r \in Asks, onSettled(r) PROVE AsksIInv'
  <2>1. queue' \in Seq(Asks) /\ IsInjective(queue')
    BY <1>b, <1>4, Filtered DEF onSettled
  <2>2. AsksTypeOK'
    BY <1>a, <1>4, <2>1 DEF onSettled, readVars, AsksTypeOK
  <2> QED BY <1>a, <1>4, <2>1, <2>2 DEF onSettled, AsksIInv, QueuedOnce, AnswersAnAsk
<1>5. ASSUME NEW r \in Asks, mergeIntoQueue(r) PROVE AsksIInv'
  <2>1. queue' \in Seq(Asks) /\ IsInjective(queue')
    BY <1>b, <1>5, MergedOnce DEF mergeIntoQueue
  <2>2. AsksTypeOK'
    BY <1>a, <1>5, <2>1 DEF mergeIntoQueue, AsksTypeOK
  <2> QED BY <1>a, <1>5, <2>1, <2>2 DEF mergeIntoQueue, AsksIInv, QueuedOnce, AnswersAnAsk
<1>6. CASE AskHeard
  BY <1>a, <1>c, <1>6 DEF AskHeard, onIncoming, AsksTypeOK
<1>7. CASE listPendingIncomingRequests
  <2>1. lists' \in 0..MaxLists
    BY <1>a, <1>7, AsksAssumption DEF listPendingIncomingRequests, AsksTypeOK
  <2> QED BY <1>a, <1>c, <1>7, <2>1 DEF listPendingIncomingRequests, AsksTypeOK
<1>8. CASE AcceptAsk
  <2>1. answering.on \in Asks /\ queue' = queue
    BY <1>a, <1>8 DEF AcceptAsk, AnswersAnAsk
  <2>2. ask' \in [Asks -> {"none", "pending", "overdue", "accepted", "over"}] /\ updates' \subseteq Asks
    BY <1>a, <1>w, <1>8, <2>1 DEF AcceptAsk, Announce, AsksTypeOK
  <2>3. \E c \in {"done", "refused"} : answering' = [answering EXCEPT !.came = c]
    BY <1>8 DEF AcceptAsk
  <2>4. AsksTypeOK' /\ answering'.on \in Asks
    BY <1>a, <1>8, <2>1, <2>2, <2>3 DEF AcceptAsk, readVars, AsksTypeOK
  <2> QED BY <1>a, <2>1, <2>4 DEF AsksIInv, QueuedOnce, AnswersAnAsk, IsInjective
<1>9. CASE DeclineAsk
  <2>1. answering.on \in Asks /\ queue' = queue
    BY <1>a, <1>9 DEF DeclineAsk, AnswersAnAsk
  <2>2. ask' \in [Asks -> {"none", "pending", "overdue", "accepted", "over"}] /\ updates' \subseteq Asks
    BY <1>a, <1>w, <1>9, <2>1 DEF DeclineAsk, Announce, AsksTypeOK
  <2>3. answering' = [answering EXCEPT !.came = "done"]
    BY <1>9 DEF DeclineAsk
  <2>4. AsksTypeOK' /\ answering'.on \in Asks
    BY <1>a, <1>9, <2>1, <2>2, <2>3 DEF DeclineAsk, readVars, AsksTypeOK
  <2> QED BY <1>a, <2>1, <2>4 DEF AsksIInv, QueuedOnce, AnswersAnAsk, IsInjective
<1>10. CASE onAnswered
  <2>1. answering.on \in Asks
    BY <1>a, <1>10 DEF onAnswered, AnswersAnAsk
  <2>2. queue' \in Seq(Asks) /\ IsInjective(queue')
    BY <1>b, <1>10, Filtered DEF onAnswered
  <2>3. AsksTypeOK'
    BY <1>a, <1>10, <2>1, <2>2 DEF onAnswered, readVars, AsksTypeOK, NotAnswering
  <2> QED BY <1>10, <2>2, <2>3 DEF onAnswered, AsksIInv, QueuedOnce, AnswersAnAsk, NotAnswering
<1>11. CASE onAsksSubscribed
  <2>1. lists' \in 0..MaxLists
    BY <1>a, <1>11, AsksAssumption DEF onAsksSubscribed, AsksTypeOK
  <2> QED BY <1>a, <1>c, <1>11, <2>1 DEF onAsksSubscribed, AsksTypeOK
<1>12. CASE LoseAsksChannel
  BY <1>a, <1>c, <1>12 DEF LoseAsksChannel, AsksTypeOK
<1>13. CASE dropFirst
  <2>1. queue' \in Seq(Asks) /\ IsInjective(queue') /\ Head(queue) \in Asks
    BY <1>b, <1>13, TailOnce DEF dropFirst
  <2>2. AsksTypeOK'
    BY <1>a, <1>13, <2>1 DEF dropFirst, readVars, AsksTypeOK
  <2> QED BY <1>a, <1>13, <2>1, <2>2 DEF dropFirst, AsksIInv, QueuedOnce, AnswersAnAsk
<1>14. ASSUME NEW button \in {"accept", "decline"}, onPress(button) PROVE AsksIInv'
  <2>1. Head(queue) \in Asks /\ queue' = queue
    BY <1>b, <1>14, TailOnce DEF onPress
  <2>2. answering' = [on |-> Head(queue), as |-> button, came |-> "none"]
    BY <1>14 DEF onPress
  <2>3. AsksTypeOK'
    BY <1>a, <1>14, <2>1, <2>2 DEF onPress, readVars, AsksTypeOK
  <2> QED BY <1>a, <2>1, <2>2, <2>3 DEF AsksIInv, QueuedOnce, AnswersAnAsk, IsInjective
<1>15. CASE UNCHANGED asksVars
  BY <1>a, <1>c, <1>15 DEF asksVars, AsksTypeOK
<1> QED BY <1>1, <1>2, <1>3, <1>4, <1>5, <1>6, <1>7, <1>8, <1>9, <1>10, <1>11, <1>12, <1>13, <1>14,
           <1>15 DEF AsksNext, AskAnswer

(* mergeIntoQueue: whatever arrives, is settled, rings out or is answered   *)
(* in whatever order, no request is in the modal's queue twice.            *)
THEOREM RequestsAreQueuedOnce == AsksSpec => []QueuedOnce
<1>1. AsksIInv => QueuedOnce
  BY DEF AsksIInv
<1> QED BY <1>1, AsksStarts, AsksStep, PTL DEF AsksSpec

(***************************************************************************)
(* The thread and the badge                                                *)
(***************************************************************************)
ThreadIInv == ThreadTypeOK /\ KeyPerText /\ RowPerKey

RowOrText == [key : Nat, draft : Nat]

LEMMA ThreadStarts == ThreadInit => ThreadIInv
<1> SUFFICES ASSUME ThreadInit PROVE ThreadIInv
  OBVIOUS
<1>1. Landed = {} /\ messages = <<>> /\ Nothing \in RowOrText
  BY DEF ThreadInit, Landed, Nothing, RowOrText
<1>2. ThreadTypeOK
  <2>1. messages \in Seq(RowOrText)
    BY <1>1
  <2> QED BY <1>1, <2>1 DEF ThreadInit, ThreadTypeOK, RowOrText
<1>3. \A x \in Texts : x.key = 0
  BY <1>1 DEF ThreadInit, Texts, Nothing
<1>4. KeyPerText /\ RowPerKey
  BY <1>1, <1>3 DEF ThreadInit, KeyPerText, RowPerKey
<1> QED BY <1>2, <1>4 DEF ThreadIInv

(* A new row keeps the others where they were. *)
LEMMA RowLands ==
    ASSUME ThreadTypeOK, NEW row \in RowOrText, insertMessage(row)
    PROVE  /\ messages' \in Seq(RowOrText) /\ Landed' = Landed \cup {Len(messages) + 1}
           /\ Landed \subseteq Landed' /\ Len(messages) + 1 \notin Landed
           /\ \A i \in Landed : messages'[i] = messages[i]
           /\ messages'[Len(messages) + 1] = row
           /\ events' \subseteq Landed'
<1>1. messages \in Seq(RowOrText) /\ Len(messages) \in Nat /\ events \subseteq Landed
  BY DEF ThreadTypeOK, RowOrText
<1>2. messages' = Append(messages, row)
  BY DEF insertMessage
<1>3. messages' \in Seq(RowOrText) /\ Len(messages') = Len(messages) + 1
      /\ \A i \in 1..Len(messages) : messages'[i] = messages[i]
  BY <1>1, <1>2
<1>4. messages'[Len(messages) + 1] = row
  BY <1>1, <1>2
<1>5. Landed' = Landed \cup {Len(messages) + 1} /\ Len(messages) + 1 \notin Landed
  BY <1>1, <1>3 DEF Landed
<1>6. events' \subseteq events \cup {Len(messages) + 1}
  BY DEF insertMessage
<1> QED BY <1>1, <1>3, <1>4, <1>5, <1>6 DEF Landed

LEMMA TextsTyped == ThreadTypeOK => \A x \in Texts : x.key \in Nat /\ x.draft \in Nat
<1> SUFFICES ASSUME ThreadTypeOK, NEW x \in Texts PROVE x.key \in Nat /\ x.draft \in Nat
  OBVIOUS
<1>1. \A i \in Landed : messages[i] \in RowOrText
  <2>1. messages \in Seq(RowOrText)
    BY DEF ThreadTypeOK, RowOrText
  <2> QED BY <2>1 DEF Landed
<1>2. sending \in RowOrText /\ requests \subseteq RowOrText /\ [key |-> key, draft |-> draft] \in RowOrText
  BY DEF ThreadTypeOK, RowOrText
<1>3. x \in RowOrText
  BY <1>1, <1>2 DEF Texts
<1> QED BY <1>3 DEF RowOrText

(* A page is of messages that landed. *)
LEMMA PageLanded == \A ids : Newest(ids) \subseteq ids
BY DEF Newest

(* The reads and the read mark leave rows, sends and the composer alone. *)
LEMMA FeedKeeps ==
    ASSUME ThreadIInv, UNCHANGED <<messages, composerVars>>, ThreadTypeOK'
    PROVE  ThreadIInv'
BY DEF ThreadIInv, composerVars, KeyPerText, RowPerKey, Texts, Landed

LEMMA ReadingKeeps ==
    ASSUME ThreadIInv,
           LoseChannel \/ onSubscribed \/ Reading \/ loadOlder \/ Look \/ markConversationRead
    PROVE  ThreadIInv'
<1>1. ThreadTypeOK
  BY DEF ThreadIInv
<1>2. UNCHANGED <<messages, composerVars>>
  BY DEF LoseChannel, onSubscribed, Reading, getThreadPage, onInsert, getMessage, loadOlder, Look,
         markConversationRead
<1>3. ThreadTypeOK'
  <2>1. UNCHANGED Landed
    BY <1>2 DEF Landed
  <2>2. CASE LoseChannel \/ onSubscribed \/ Look \/ markConversationRead
    BY <1>1, <1>2, <2>1, <2>2 DEF LoseChannel, onSubscribed, Look, markConversationRead, ThreadTypeOK,
                                  composerVars
  <2>3. CASE getThreadPage
    BY <1>1, <1>2, <2>1, <2>3, PageLanded DEF getThreadPage, ThreadTypeOK, composerVars
  <2>4. CASE \E i \in Landed : onInsert(i) \/ getMessage(i)
    BY <1>1, <1>2, <2>1, <2>4 DEF onInsert, getMessage, ThreadTypeOK, composerVars
  <2>5. CASE loadOlder
    <3>1. PICK first \in shown : shown' = shown \cup Newest(1..(first - 1))
      BY <2>5 DEF loadOlder
    <3>2. 1..(first - 1) \subseteq Landed
      BY <1>1, <3>1 DEF ThreadTypeOK, Landed
    <3> QED BY <1>1, <1>2, <2>1, <2>5, <3>1, <3>2, PageLanded DEF loadOlder, ThreadTypeOK, composerVars
  <2> QED BY <2>2, <2>3, <2>4, <2>5 DEF Reading
<1> QED BY <1>2, <1>3, FeedKeeps

LEMMA OtherWritesKeeps == ASSUME ThreadIInv, OtherWrites PROVE ThreadIInv'
<1> DEFINE n == Len(messages) + 1
<1>1. ThreadTypeOK /\ insertMessage(Nothing) /\ Nothing \in RowOrText /\ Nothing.key = 0 /\ Nothing.draft = 0
  BY DEF ThreadIInv, OtherWrites, Nothing, RowOrText
<1>2. UNCHANGED <<feedVars, composerVars>> /\ unread' = unread \cup {n}
  BY DEF OtherWrites
<1>3. /\ messages' \in Seq(RowOrText) /\ Landed' = Landed \cup {n} /\ n \notin Landed
      /\ \A i \in Landed : messages'[i] = messages[i]
      /\ messages'[n] = Nothing /\ events' \subseteq Landed'
  BY <1>1, RowLands
<1> HIDE DEF n
<1>4. ThreadTypeOK'
  BY <1>1, <1>2, <1>3 DEF ThreadTypeOK, feedVars, composerVars, RowOrText
<1>5. KeyPerText'
  <2>1. Texts' \subseteq Texts \cup {Nothing}
    BY <1>2, <1>3 DEF Texts, composerVars
  <2>2. \A x \in Texts' : x.key # 0 => x \in Texts
    BY <1>1, <2>1
  <2> QED BY <1>2, <2>2 DEF ThreadIInv, KeyPerText, composerVars
<1>6. RowPerKey'
  <2>1. UNCHANGED requests
    BY <1>2 DEF composerVars
  <2> QED BY <1>1, <1>3, <2>1 DEF ThreadIInv, RowPerKey
<1> QED BY <1>4, <1>5, <1>6 DEF ThreadIInv

(* What the composer's steps but a send with a new key need. *)
LEMMA ComposerKeeps ==
    ASSUME ThreadIInv, ThreadTypeOK', UNCHANGED <<messages, keys>>, typed <= typed',
           requests' \subseteq requests \cup {sending},
           sending' \in {sending, Nothing}, \A r \in requests' : r.key # 0,
           key' = 0 \/ (UNCHANGED <<key, draft>>),
           draft' = 0 \/ (UNCHANGED <<key, draft>>) \/ (draft' > typed /\ draft' <= typed' /\ key' = 0)
    PROVE  ThreadIInv'
<1>1. UNCHANGED Landed
  BY DEF Landed
<1>2. \A x \in Texts' : x.key # 0 => x \in Texts
  BY <1>1 DEF Texts, Nothing
<1>3. draft \in Nat /\ typed \in Nat /\ typed' \in Nat /\ draft' \in Nat /\ draft <= typed
  BY DEF ThreadIInv, ThreadTypeOK, KeyPerText
<1>4. KeyPerText'
  <2>1. draft' <= typed'
    BY <1>3
  <2>2. \A x \in Texts' : x.key # 0 => x.key <= keys' /\ x.draft \in 1..typed'
    BY <1>2, <1>3 DEF ThreadIInv, KeyPerText
  <2>3. \A x, y \in Texts' : x.key # 0 /\ y.key # 0 => (x.key = y.key <=> x.draft = y.draft)
    BY <1>2 DEF ThreadIInv, KeyPerText
  <2>4. key' = 0 /\ draft' # 0 => \A x \in Texts' : x.key # 0 => x.draft # draft'
    <3> SUFFICES ASSUME key' = 0, draft' # 0, NEW x \in Texts, x.key # 0 PROVE x.draft # draft'
      BY <1>2
    <3>1. x.draft \in 1..typed
      BY DEF ThreadIInv, KeyPerText
    <3>2. CASE UNCHANGED <<key, draft>>
      BY <3>2 DEF ThreadIInv, KeyPerText
    <3>3. CASE draft' > typed
      BY <1>3, <3>1, <3>3
    <3> QED BY <3>2, <3>3
  <2> QED BY <2>1, <2>2, <2>3, <2>4 DEF KeyPerText
<1>5. RowPerKey'
  BY <1>1 DEF ThreadIInv, RowPerKey
<1> QED BY <1>4, <1>5 DEF ThreadIInv

LEMMA EditingKeeps ==
    ASSUME ThreadIInv, Edit \/ SendRefused \/ onSent \/ SendFails
    PROVE  ThreadIInv'
<1>1. /\ ThreadTypeOK /\ Nothing \in RowOrText /\ \A r \in requests : r.key # 0
      /\ typed \in Nat /\ draft \in Nat
  BY DEF ThreadIInv, Nothing, RowOrText, RowPerKey, ThreadTypeOK
<1>2. UNCHANGED <<messages, keys>> /\ UNCHANGED Landed
  BY DEF Edit, SendRefused, onSent, SendFails, Landed
<1>3. CASE Edit
  <2>1. ThreadTypeOK' /\ draft' = typed + 1 /\ typed' = typed + 1
    BY <1>1, <1>2, <1>3 DEF Edit, ThreadTypeOK, feedVars
  <2> QED BY <1>1, <1>2, <1>3, <2>1, ComposerKeeps DEF Edit
<1>4. CASE SendRefused \/ SendFails
  <2>1. ThreadTypeOK'
    BY <1>1, <1>2, <1>4 DEF SendRefused, SendFails, ThreadTypeOK, feedVars, RowOrText
  <2> QED BY <1>1, <1>2, <1>4, <2>1, ComposerKeeps DEF SendRefused, SendFails
<1>5. CASE onSent
  <2>1. findByClientKey(sending.key) \subseteq Landed
    BY DEF findByClientKey
  <2>2. ThreadTypeOK'
    BY <1>1, <1>2, <1>5, <2>1 DEF onSent, ThreadTypeOK, RowOrText
  <2> QED BY <1>1, <1>2, <1>5, <2>2, ComposerKeeps DEF onSent
<1> QED BY <1>3, <1>4, <1>5

(* A repeated send uses the key its text has, any other a new one. *)
LEMMA ThreadSendKeeps == ASSUME ThreadIInv, send PROVE ThreadIInv'
<1> DEFINE x0 == [key |-> key', draft |-> draft]
<1>1. /\ ThreadTypeOK /\ key \in Nat /\ keys \in Nat /\ draft \in Nat /\ typed \in Nat
      /\ draft <= typed /\ draft # 0
  BY DEF ThreadIInv, ThreadTypeOK, KeyPerText, send
<1>2. /\ UNCHANGED <<messages, events, unread, feedVars, draft, typed>> /\ UNCHANGED Landed
      /\ sending' = x0 /\ requests' = requests \cup {x0}
      /\ \/ key = 0 /\ key' = keys + 1 /\ keys' = keys + 1
         \/ key # 0 /\ key' = key /\ keys' = keys
  BY DEF send, Landed
<1>3. key' \in Nat /\ keys' \in Nat /\ key' # 0 /\ keys <= keys' /\ x0 \in RowOrText
      /\ x0.key = key' /\ x0.draft = draft
  BY <1>1, <1>2 DEF RowOrText
<1>4. ThreadTypeOK'
  BY <1>1, <1>2, <1>3 DEF ThreadTypeOK, feedVars, RowOrText
<1>5. Texts' \subseteq Texts \cup {x0}
  BY <1>2 DEF Texts
<1> HIDE DEF x0
<1>6. /\ \A x \in Texts : x.key # 0 => x.key <= keys /\ x.draft \in 1..typed
      /\ \A x, y \in Texts : x.key # 0 /\ y.key # 0 => (x.key = y.key <=> x.draft = y.draft)
      /\ key = 0 => \A x \in Texts : x.key # 0 => x.draft # draft
  BY <1>1 DEF ThreadIInv, KeyPerText
<1>7. \A x \in Texts : x.key # 0 => (x.key = key' <=> x.draft = draft)
  <2>1. CASE key = 0
    <3>1. \A x \in Texts : x.key # 0 => x.key <= keys /\ x.draft # draft
      BY <1>6, <2>1
    <3>2. \A x \in Texts : x.key # keys + 1 \/ x.key = 0
      BY <1>1, <3>1
    <3> QED BY <1>2, <2>1, <3>1, <3>2
  <2>2. CASE key # 0
    <3>1. [key |-> key, draft |-> draft] \in Texts
      BY DEF Texts
    <3> QED BY <1>2, <1>6, <2>2, <3>1
  <2> QED BY <2>1, <2>2
<1>8. KeyPerText'
  <2>1. \A x \in Texts' : x.key # 0 => x.key <= keys' /\ x.draft \in 1..typed'
    <3> SUFFICES ASSUME NEW x \in Texts', x.key # 0 PROVE x.key <= keys' /\ x.draft \in 1..typed
      BY <1>2
    <3>1. CASE x = x0
      <4>1. PICK y \in Texts : y.key = key
        <5> DEFINE y == [key |-> key, draft |-> draft]
        <5>1. y \in Texts
          BY DEF Texts
        <5>2. y.key = key
          OBVIOUS
        <5> HIDE DEF y
        <5> QED BY <5>1, <5>2
      <4> QED BY <1>1, <1>2, <1>3, <1>6, <3>1, <4>1
    <3>2. CASE x \in Texts
      <4>1. x.key \in Nat
        BY <1>1, <3>2, TextsTyped
      <4> QED BY <1>1, <1>2, <1>3, <1>6, <3>2, <4>1
    <3> QED BY <1>5, <3>1, <3>2
  <2>2. \A x, y \in Texts' : x.key # 0 /\ y.key # 0 => (x.key = y.key <=> x.draft = y.draft)
    BY <1>3, <1>5, <1>6, <1>7
  <2>3. draft' <= typed' /\ key' # 0
    BY <1>1, <1>2, <1>3
  <2> QED BY <2>1, <2>2, <2>3 DEF KeyPerText
<1>9. RowPerKey'
  BY <1>2, <1>3 DEF ThreadIInv, RowPerKey
<1> QED BY <1>4, <1>8, <1>9 DEF ThreadIInv

(* Under the lock a key that has a row makes no other. *)
LEMMA SendMessageKeeps ==
    ASSUME ThreadIInv, NEW r \in requests, sendMessage(r)
    PROVE  ThreadIInv'
<1> DEFINE n == Len(messages) + 1
<1>1. ThreadTypeOK /\ r \in RowOrText /\ r.key # 0 /\ r \in Texts
  BY DEF ThreadIInv, ThreadTypeOK, RowPerKey, RowOrText, Texts
<1>2. UNCHANGED <<unread, feedVars, draft, typed, key, keys, sending>> /\ requests' \subseteq requests
  BY DEF sendMessage
<1>3. CASE UNCHANGED <<messages, events>>
  <2>1. ThreadTypeOK'
    BY <1>1, <1>2, <1>3 DEF ThreadTypeOK, feedVars, Landed
  <2>2. typed <= typed
    BY DEF ThreadIInv, ThreadTypeOK
  <2> QED BY <1>2, <1>3, <2>1, <2>2, ComposerKeeps DEF ThreadIInv, RowPerKey
<1>4. CASE findByClientKey(r.key) = {} /\ insertMessage(r)
  <2>1. /\ messages' \in Seq(RowOrText) /\ Landed' = Landed \cup {n} /\ n \notin Landed
        /\ \A i \in Landed : messages'[i] = messages[i]
        /\ messages'[n] = r /\ events' \subseteq Landed'
    BY <1>1, <1>4, RowLands
  <2>2. \A i \in Landed : messages[i].key # r.key
    BY <1>4 DEF findByClientKey
  <2> HIDE DEF n
  <2>3. ThreadTypeOK'
    BY <1>1, <1>2, <2>1 DEF ThreadTypeOK, feedVars, RowOrText
  <2>4. Texts' \subseteq Texts
    BY <1>1, <1>2, <2>1 DEF Texts
  <2>5. KeyPerText'
    BY <1>2, <2>4 DEF ThreadIInv, KeyPerText
  <2>6. RowPerKey'
    BY <1>1, <1>2, <2>1, <2>2 DEF ThreadIInv, RowPerKey
  <2> QED BY <2>3, <2>5, <2>6 DEF ThreadIInv
<1> QED BY <1>3, <1>4 DEF sendMessage

LEMMA ThreadStep == ThreadIInv /\ [ThreadNext]_threadVars => ThreadIInv'
<1>1. ASSUME ThreadIInv, UNCHANGED threadVars PROVE ThreadIInv'
  BY <1>1 DEF threadVars, ThreadIInv, ThreadTypeOK, KeyPerText, RowPerKey, Texts, Landed
<1> QED BY <1>1, OtherWritesKeeps, ReadingKeeps, EditingKeeps, ThreadSendKeeps, SendMessageKeeps
        DEF ThreadNext, Composing

(* A text keeps its key and a key has one row. *)
LEMMA TextsAreOfOneRow == ThreadIInv => SentOnce
<1> SUFFICES ASSUME ThreadIInv, NEW i \in Landed, NEW j \in Landed, messages[i].draft # 0,
                    messages[i].draft = messages[j].draft
             PROVE  i = j
  BY DEF SentOnce
<1>1. messages[i].key # 0 /\ messages[j].key # 0
  BY DEF ThreadIInv, RowPerKey
<1>2. messages[i] \in Texts /\ messages[j] \in Texts
  BY DEF Texts
<1>3. messages[i].key = messages[j].key
  BY <1>1, <1>2 DEF ThreadIInv, KeyPerText
<1> QED BY <1>1, <1>3 DEF ThreadIInv, RowPerKey

(* service.ts: "a retry of a send that already landed is a success, not a   *)
(* second message", whatever becomes of the answers and of the text.       *)
THEOREM TextsAreSentOnce == ThreadSpec => []SentOnce
BY TextsAreOfOneRow, ThreadStarts, ThreadStep, PTL DEF ThreadSpec

BadgeIInv == BadgeTypeOK /\ LatestIsTrue

(* After a refresh the read just made is the latest, and is unanswered. *)
LEMMA RefreshLeads ==
    ASSUME BadgeTypeOK, refresh
    PROVE  /\ counts' \subseteq Counts /\ dropped' = FALSE
           /\ \A c \in counts' : c.isLatest => c.n = NotRead
           /\ \A c, d \in counts' : c.isLatest /\ d.isLatest => c = d
           /\ \E c \in counts' : c.isLatest
<1>1. MaxArrivals \in Nat /\ NotRead \in Nat
  BY BadgeAssumption DEF NotRead
<1> DEFINE begun == [isLatest |-> TRUE, n |-> NotRead]
<1>2. begun \in Counts /\ begun.isLatest /\ begun.n = NotRead
  BY <1>1 DEF Counts
<1>3. \A c \in counts : [c EXCEPT !.isLatest = FALSE] \in Counts /\ ~[c EXCEPT !.isLatest = FALSE].isLatest
  BY DEF BadgeTypeOK, Counts
<1>4. counts' = {[c EXCEPT !.isLatest = FALSE] : c \in counts} \cup {begun}
  BY DEF refresh, Refreshed
<1> HIDE DEF begun
<1>5. begun \in counts' /\ \A c \in counts' : c \in Counts /\ (c.isLatest => c = begun)
  BY <1>2, <1>3, <1>4
<1> QED BY <1>2, <1>5 DEF refresh

LEMMA BadgeStarts == BadgeInit => BadgeIInv
<1> SUFFICES ASSUME BadgeInit PROVE BadgeIInv
  OBVIOUS
<1>1. MaxArrivals \in Nat /\ NotRead \in Nat
  BY BadgeAssumption DEF NotRead
<1>2. counts = {[isLatest |-> TRUE, n |-> NotRead]}
  BY DEF BadgeInit, Refreshed
<1>3. counts \subseteq Counts
  BY <1>1, <1>2 DEF Counts
<1>4. BadgeTypeOK
  <2>1. arrived \in 0..MaxArrivals /\ unreadRows \in 0..arrived /\ badge \in 0..MaxArrivals
    BY <1>1 DEF BadgeInit
  <2> QED BY <1>3, <2>1 DEF BadgeInit, BadgeTypeOK
<1>5. LatestIsTrue
  BY <1>2 DEF BadgeInit, LatestIsTrue
<1> QED BY <1>4, <1>5 DEF BadgeIInv

LEMMA RefreshKeeps ==
    ASSUME BadgeIInv, refresh, UNCHANGED <<arrived, unreadRows, badge>>,
           hearing' \in BOOLEAN, nudges' \in BOOLEAN, marked' \in BOOLEAN
    PROVE  BadgeIInv'
<1>1. BadgeTypeOK
  BY DEF BadgeIInv
<1>2. BadgeTypeOK'
  BY <1>1, RefreshLeads DEF BadgeTypeOK
<1>3. LatestIsTrue'
  BY <1>1, RefreshLeads DEF LatestIsTrue
<1> QED BY <1>2, <1>3 DEF BadgeIInv

LEMMA QuietKeeps ==
    ASSUME BadgeIInv, Arrives \/ BadgeLost \/ markRead \/ MarkFails
    PROVE  BadgeIInv'
<1>1. MaxArrivals \in Nat
  BY BadgeAssumption
<1>2. BadgeTypeOK'
  <2>1. CASE Arrives
    <3>1. arrived' \in 0..MaxArrivals /\ unreadRows' \in 0..arrived'
      BY <1>1, <2>1 DEF BadgeIInv, BadgeTypeOK, Arrives
    <3> QED BY <2>1, <3>1 DEF BadgeIInv, BadgeTypeOK, Arrives
  <2>2. CASE BadgeLost
    BY <2>2 DEF BadgeIInv, BadgeTypeOK, BadgeLost
  <2>3. CASE markRead
    BY <1>1, <2>3 DEF BadgeIInv, BadgeTypeOK, markRead
  <2>4. CASE MarkFails
    BY <2>4 DEF BadgeIInv, BadgeTypeOK, MarkFails
  <2> QED BY <2>1, <2>2, <2>3, <2>4
<1>3. LatestIsTrue'
  <2>1. CASE Arrives
    BY <2>1 DEF BadgeIInv, LatestIsTrue, Arrives
  <2>2. CASE BadgeLost
    BY <2>2 DEF BadgeIInv, LatestIsTrue, BadgeLost
  <2>3. CASE markRead
    <3>1. CASE unreadRows > 0
      BY <2>3, <3>1 DEF BadgeIInv, LatestIsTrue, markRead
    <3>2. CASE ~(unreadRows > 0)
      <4>1. unreadRows = 0
        BY <1>1, <3>2 DEF BadgeIInv, BadgeTypeOK
      <4> QED BY <2>3, <3>2, <4>1 DEF BadgeIInv, LatestIsTrue, markRead
    <3> QED BY <3>1, <3>2
  <2>4. CASE MarkFails
    BY <2>4 DEF BadgeIInv, LatestIsTrue, MarkFails
  <2> QED BY <2>1, <2>2, <2>3, <2>4
<1> QED BY <1>2, <1>3 DEF BadgeIInv

LEMMA BadgeCountKeeps ==
    ASSUME BadgeIInv, NEW c \in counts, getUnreadCount(c) \/ setCount(c) \/ CountFails(c)
    PROVE  BadgeIInv'
<1>1. /\ MaxArrivals \in Nat /\ NotRead = MaxArrivals + 1 /\ counts \subseteq Counts
      /\ c.isLatest \in BOOLEAN /\ c.n \in 0..NotRead
      /\ unreadRows \in 0..arrived /\ arrived \in 0..MaxArrivals /\ LatestIsTrue
  BY BadgeAssumption DEF BadgeIInv, BadgeTypeOK, Counts, NotRead
<1>2. UNCHANGED <<arrived, unreadRows, hearing, nudges, marked>>
  BY DEF getUnreadCount, setCount, CountFails
<1>3. CASE getUnreadCount(c)
  <2> DEFINE e == [c EXCEPT !.n = unreadRows]
  <2>1. e \in Counts /\ e.isLatest = c.isLatest /\ e.n = unreadRows
    BY <1>1 DEF Counts
  <2>2. counts' = (counts \ {c}) \cup {e} /\ badge' = badge /\ dropped' = dropped
    BY <1>3 DEF getUnreadCount
  <2> HIDE DEF e
  <2>3. BadgeTypeOK'
    BY <1>1, <1>2, <2>1, <2>2 DEF BadgeIInv, BadgeTypeOK
  <2>4. LatestIsTrue'
    BY <1>1, <1>2, <2>1, <2>2 DEF LatestIsTrue
  <2> QED BY <2>3, <2>4 DEF BadgeIInv
<1>4. CASE setCount(c)
  <2>1. counts' = counts \ {c} /\ badge' = (IF c.isLatest THEN c.n ELSE badge) /\ c.n # NotRead
        /\ dropped' = dropped
    BY <1>4 DEF setCount
  <2>2. c.n \in 0..MaxArrivals
    BY <1>1, <2>1
  <2>3. BadgeTypeOK'
    BY <1>1, <1>2, <2>1, <2>2 DEF BadgeIInv, BadgeTypeOK
  <2>4. LatestIsTrue'
    BY <1>1, <1>2, <2>1 DEF LatestIsTrue
  <2> QED BY <2>3, <2>4 DEF BadgeIInv
<1>5. CASE CountFails(c)
  <2>1. counts' = counts \ {c} /\ badge' = badge /\ dropped' = (dropped \/ c.isLatest)
    BY <1>5 DEF CountFails
  <2>2. BadgeTypeOK' /\ LatestIsTrue'
    BY <1>1, <1>2, <2>1 DEF BadgeIInv, BadgeTypeOK, LatestIsTrue
  <2> QED BY <2>2 DEF BadgeIInv
<1> QED BY <1>3, <1>4, <1>5

LEMMA BadgeStep == BadgeIInv /\ [BadgeNext]_badgeVars => BadgeIInv'
<1> SUFFICES ASSUME BadgeIInv, [BadgeNext]_badgeVars PROVE BadgeIInv'
  OBVIOUS
<1>1. CASE OnUpdate \/ BadgeSubscribed \/ OnMessagesRead
  BY <1>1, RefreshKeeps DEF OnUpdate, BadgeSubscribed, OnMessagesRead, BadgeIInv, BadgeTypeOK
<1>2. CASE UNCHANGED badgeVars
  BY <1>2 DEF badgeVars, BadgeIInv, BadgeTypeOK, LatestIsTrue
<1> QED BY <1>1, <1>2, QuietKeeps, BadgeCountKeeps DEF BadgeNext

LEMMA BadgeIsSettled == BadgeIInv => BadgeSettles
BY DEF BadgeIInv, LatestIsTrue, BadgeSettles

(* use-unread-count.ts: once nothing is on its way the badge is right,      *)
(* whichever answer overtook which, unless the latest read or a mark since *)
(* was lost: then it is right again after the next signal's read.          *)
THEOREM BadgeIsRight == BadgeSpec => []BadgeSettles
BY BadgeIsSettled, BadgeStarts, BadgeStep, PTL DEF BadgeSpec

(***************************************************************************)
(* The call page                                                           *)
(***************************************************************************)
CallIInv == CallTypeOK /\ GoneIsReleased /\ HeldHasClient

(* A client may be as it is: types, and nothing open that was hung up. *)
Sound(c) == c \in Clients /\ (c.disposed /\ ~Joining(c) => c.open = {} /\ ~c.inside)

LEMMA ClientsAreSound ==
    ASSUME CallIInv
    PROVE  /\ Len(clients) \in Nat /\ \A n \in 1..Len(clients) : Sound(clients[n])
BY DEF CallIInv, CallTypeOK, GoneIsReleased, Sound

LEMMA SoundForms ==
    ASSUME NEW c, Sound(c)
    PROVE  /\ Sound(HungUp(c)) /\ HungUp(c).disposed
           /\ Sound([Torn(c) EXCEPT !.at = "settled"])
           /\ [Torn(c) EXCEPT !.at = "settled"].disposed = c.disposed
           /\ Sound([Torn(c) EXCEPT !.at = "settled", !.disposed = TRUE])
           /\ [Torn(c) EXCEPT !.at = "settled", !.disposed = TRUE].disposed
<1>1. c \in Clients
  BY DEF Sound
<1>2. /\ Torn(c) \in Clients /\ Torn(c).open = {} /\ ~Torn(c).inside
      /\ Torn(c).disposed = c.disposed /\ Torn(c).at = c.at
  BY <1>1 DEF Torn, Clients
<1> HIDE DEF Torn
<1>3. ASSUME NEW t \in Clients, t.open = {}, ~t.inside
      PROVE  /\ Sound([t EXCEPT !.disposed = TRUE]) /\ [t EXCEPT !.disposed = TRUE].disposed
             /\ Sound([t EXCEPT !.at = "settled"]) /\ [t EXCEPT !.at = "settled"].disposed = t.disposed
             /\ Sound([t EXCEPT !.at = "settled", !.disposed = TRUE])
             /\ [t EXCEPT !.at = "settled", !.disposed = TRUE].disposed
  BY <1>3 DEF Sound, Clients
<1>4. Joining(c) => Sound([c EXCEPT !.disposed = TRUE]) /\ [c EXCEPT !.disposed = TRUE].disposed
  BY <1>1 DEF Sound, Clients, Joining
<1> QED BY <1>2, <1>3, <1>4 DEF HungUp

(* One client takes a step that is sound, and is not told it may stay. *)
LEMMA OneClientSteps ==
    ASSUME CallIInv, UNCHANGED <<held, finished, over, asked>>,
           phase' \in {"idle", "connecting", "joining", "live", "error"},
           NEW n \in 1..Len(clients), NEW c, Sound(c), clients' = [clients EXCEPT ![n] = c],
           clients[n].disposed => c.disposed
    PROVE  CallIInv'
<1>1. clients \in Seq(Clients) /\ Len(clients) \in Nat /\ c \in Clients
  BY DEF CallIInv, CallTypeOK, Sound
<1>2. clients' \in Seq(Clients) /\ Len(clients') = Len(clients)
      /\ \A m \in 1..Len(clients) : clients'[m] = IF m = n THEN c ELSE clients[m]
  BY <1>1
<1>3. CallTypeOK'
  BY <1>2 DEF CallIInv, CallTypeOK
<1>4. GoneIsReleased'
  <2>1. \A m \in 1..Len(clients) : HasGone(m)' => HasGone(m)
    BY <1>2 DEF HasGone
  <2> QED BY <1>2, <2>1 DEF CallIInv, GoneIsReleased, Sound
<1>5. HeldHasClient'
  BY <1>2 DEF CallIInv, HeldHasClient
<1> QED BY <1>3, <1>4, <1>5 DEF CallIInv

LEMMA GoOnKeeps ==
    ASSUME CallIInv, UNCHANGED <<held, finished, over, asked>>,
           phase' \in {"idle", "connecting", "joining", "live", "error"},
           NEW n \in 1..Len(clients), NEW c \in Clients, c.disposed = clients[n].disposed,
           NEW next \in {"loading", "entering", "opening", "microphone", "publishing", "joined"},
           GoOn(n, c, next)
    PROVE  CallIInv'
<1> DEFINE d == IF c.disposed THEN [Torn(c) EXCEPT !.at = "settled"] ELSE [c EXCEPT !.at = next]
<1>1. clients' = [clients EXCEPT ![n] = d]
  BY DEF GoOn
<1>2. CASE c.disposed
  BY <1>1, <1>2, OneClientSteps DEF Sound, Torn, Clients, Joining
<1>3. CASE ~c.disposed
  BY <1>1, <1>3, OneClientSteps DEF Sound, Clients
<1> QED BY <1>2, <1>3

LEMMA ThrowKeeps ==
    ASSUME CallIInv, UNCHANGED <<held, finished, over, asked>>,
           NEW n \in 1..Len(clients), Throw(n)
    PROVE  CallIInv'
<1> DEFINE c == [Torn(clients[n]) EXCEPT !.at = "settled", !.disposed = TRUE]
<1>1. clients' = [clients EXCEPT ![n] = c]
  BY DEF Throw
<1>2. Sound(c) /\ c.disposed
  BY ClientsAreSound, SoundForms
<1>3. phase' \in {"idle", "connecting", "joining", "live", "error"}
  BY DEF Throw, Fail, CallIInv, CallTypeOK
<1> HIDE DEF c
<1> QED BY <1>1, <1>2, <1>3, OneClientSteps

LEMMA SettleKeeps == ASSUME CallIInv, NEW n \in 1..Len(clients), Settle(n) PROVE CallIInv'
<1> DEFINE c == clients[n]
<1>1. /\ UNCHANGED <<held, finished, over, asked>> /\ c \in Clients /\ Sound(c)
      /\ phase \in {"idle", "connecting", "joining", "live", "error"}
  BY ClientsAreSound DEF Settle, FetchToken, ImportSdk, JoinChannel, createLocalTracks, PublishTracks,
     PickScreen, PublishScreen, Sound, CallIInv, CallTypeOK
<1>2. CASE FetchToken(n)
  <2>1. phase' \in {"idle", "connecting", "joining", "live", "error"}
    BY <1>1, <1>2 DEF FetchToken, Fail
  <2>2. CASE clients' = [clients EXCEPT ![n].at = "settled"] /\ c.at = "fetching"
    <3> DEFINE d == [c EXCEPT !.at = "settled"]
    <3>1. Sound(d) /\ d.disposed = c.disposed /\ clients' = [clients EXCEPT ![n] = d]
      BY <1>1, <2>2 DEF Sound, Clients, Joining
    <3> HIDE DEF d
    <3> QED BY <1>1, <2>1, <3>1, OneClientSteps
  <2>3. CASE GoOn(n, c, "loading")
    BY <1>1, <2>1, <2>3, GoOnKeeps
  <2> QED BY <1>2, <2>2, <2>3 DEF FetchToken
<1>3. CASE ImportSdk(n)
  BY <1>1, <1>3, GoOnKeeps, ThrowKeeps DEF ImportSdk
<1>4. CASE JoinChannel(n)
  <2> DEFINE d == [c EXCEPT !.inside = TRUE]
  <2>1. d \in Clients /\ d.disposed = c.disposed
    BY <1>1 DEF Clients
  <2>2. (GoOn(n, d, "opening") /\ UNCHANGED phase) \/ Throw(n)
    BY <1>4 DEF JoinChannel
  <2> HIDE DEF d
  <2> QED BY <1>1, <2>1, <2>2, GoOnKeeps, ThrowKeeps
<1>5. CASE createLocalTracks(n)
  <2> DEFINE both == [c EXCEPT !.open = {"mic", "camera"}]
             mic == [c EXCEPT !.open = {"mic"}]
  <2>1. both \in Clients /\ mic \in Clients /\ both.disposed = c.disposed /\ mic.disposed = c.disposed
    BY <1>1 DEF Clients
  <2>2. \/ (GoOn(n, both, "publishing") /\ UNCHANGED phase)
        \/ (GoOn(n, c, "microphone") /\ UNCHANGED phase)
        \/ (GoOn(n, mic, "publishing") /\ UNCHANGED phase)
        \/ Throw(n)
    BY <1>5 DEF createLocalTracks
  <2> HIDE DEF both, mic
  <2> QED BY <1>1, <2>1, <2>2, GoOnKeeps, ThrowKeeps
<1>6. CASE PublishTracks(n)
  BY <1>1, <1>6, GoOnKeeps, ThrowKeeps DEF PublishTracks
<1>7. CASE PickScreen(n)
  <2> DEFINE off == [c EXCEPT !.share = "off"]
             more == [c EXCEPT !.open = @ \cup {"screen"}, !.share = "publishing"]
  <2>1. Sound(off) /\ off.disposed = c.disposed /\ (~c.disposed => Sound(more))
    BY <1>1 DEF Sound, Clients, Joining
  <2>2. clients' = [clients EXCEPT ![n] = off] \/ (clients' = [clients EXCEPT ![n] = more] /\ ~c.disposed)
    BY <1>7 DEF PickScreen
  <2>3. UNCHANGED phase
    BY <1>7 DEF PickScreen
  <2> HIDE DEF off, more
  <2> QED BY <1>1, <2>1, <2>2, <2>3, OneClientSteps
<1>8. CASE PublishScreen(n)
  <2> DEFINE off == [c EXCEPT !.share = "off"]
             less == [c EXCEPT !.share = "off", !.open = @ \ {"screen"}]
  <2>1. Sound(off) /\ off.disposed = c.disposed /\ Sound(less) /\ less.disposed = c.disposed
    BY <1>1 DEF Sound, Clients, Joining
  <2>2. clients' = [clients EXCEPT ![n] = off] \/ clients' = [clients EXCEPT ![n] = less]
    BY <1>8 DEF PublishScreen
  <2>3. UNCHANGED phase
    BY <1>8 DEF PublishScreen
  <2> HIDE DEF off, less
  <2> QED BY <1>1, <2>1, <2>2, <2>3, OneClientSteps
<1> QED BY <1>2, <1>3, <1>4, <1>5, <1>6, <1>7, <1>8 DEF Settle

LEMMA ShareKeeps ==
    ASSUME CallIInv, startScreenShare \/ \E n \in 1..Len(clients) : stopScreenShare(n)
    PROVE  CallIInv'
<1>1. CASE startScreenShare
  <2> DEFINE n == Len(clients)
             d == [clients[n] EXCEPT !.share = "picking"]
  <2>1. n \in 1..Len(clients)
    BY <1>1, ClientsAreSound DEF startScreenShare, CallIInv, HeldHasClient
  <2>2. clients' = [clients EXCEPT ![n] = d] /\ ~clients[n].disposed
        /\ UNCHANGED <<held, phase, finished, over, asked>>
    BY <1>1 DEF startScreenShare
  <2>3. Sound(clients[n])
    BY <2>1, ClientsAreSound
  <2>4. Sound(d)
    BY <2>2, <2>3 DEF Sound, Clients, Joining
  <2> HIDE DEF n, d
  <2> QED BY <2>1, <2>2, <2>4, OneClientSteps DEF CallIInv, CallTypeOK
<1>2. ASSUME NEW n \in 1..Len(clients), stopScreenShare(n) PROVE CallIInv'
  <2> DEFINE d == [clients[n] EXCEPT !.open = @ \ {"screen"}]
  <2>1. clients' = [clients EXCEPT ![n] = d] /\ UNCHANGED <<held, phase, finished, over, asked>>
    BY <1>2 DEF stopScreenShare
  <2>2. Sound(clients[n])
    BY ClientsAreSound
  <2>3. Sound(d) /\ d.disposed = clients[n].disposed
    BY <2>2 DEF Sound, Clients, Joining
  <2> HIDE DEF d
  <2> QED BY <2>1, <2>3, OneClientSteps DEF CallIInv, CallTypeOK
<1> QED BY <1>1, <1>2

(* Hanging up leaves every client told that is not the last any more. *)
LEMMA HangUp ==
    ASSUME CallIInv
    PROVE  /\ LastHungUp \in Seq(Clients) /\ Len(LastHungUp) = Len(clients)
           /\ \A n \in 1..Len(clients) : Sound(LastHungUp[n]) /\ LastHungUp[n].disposed
<1> DEFINE last == Len(clients)
<1>1. clients \in Seq(Clients) /\ last \in Nat /\ \A n \in 1..last : Sound(clients[n])
  BY ClientsAreSound DEF CallIInv, CallTypeOK
<1>2. \A n \in 1..last : n # last => clients[n].disposed
  BY <1>1 DEF CallIInv, GoneIsReleased, HasGone
<1>3. CASE clients = <<>>
  BY <1>1, <1>3 DEF LastHungUp
<1>4. CASE clients # <<>>
  <2> DEFINE c == HungUp(clients[last])
  <2>1. last \in 1..last
    BY <1>1, <1>4
  <2>2. Sound(c) /\ c.disposed /\ c \in Clients
    BY <1>1, <2>1, SoundForms DEF Sound
  <2>3. LastHungUp = [clients EXCEPT ![last] = c]
    BY <1>4 DEF LastHungUp
  <2> HIDE DEF c
  <2> QED BY <1>1, <1>2, <2>1, <2>2, <2>3
<1> QED BY <1>3, <1>4

(* A join makes a client after those that were told. *)
LEMMA AppendKeeps ==
    ASSUME CallIInv, NEW s \in Seq(Clients), \A n \in 1..Len(s) : Sound(s[n]) /\ s[n].disposed,
           Len(s) < MaxClients, clients' = Append(s, Fresh), held' # None, ~finished', CallTypeOK'
    PROVE  CallIInv'
<1>1. Sound(Fresh) /\ ~Fresh.disposed
  BY DEF Sound, Fresh, Clients, Joining
<1>2. /\ Len(s) \in Nat /\ Len(clients') = Len(s) + 1 /\ clients'[Len(s) + 1] = Fresh
      /\ \A n \in 1..Len(s) : clients'[n] = s[n]
  BY <1>1 DEF Sound
<1>3. \A n \in 1..Len(clients') : n \in 1..Len(s) \/ n = Len(s) + 1
  BY <1>2
<1>4. HeldHasClient'
  BY <1>2 DEF HeldHasClient
<1>5. GoneIsReleased'
  BY <1>1, <1>2, <1>3 DEF GoneIsReleased, HasGone, Sound
<1> QED BY <1>4, <1>5 DEF CallIInv

LEMMA StartKeeps == ASSUME CallIInv, (\E b \in Rooms : start(b)) \/ retry PROVE CallIInv'
<1>1. /\ clients \in Seq(Clients) /\ Len(clients) \in Nat /\ MaxClients \in Nat
      /\ Fresh \in Clients /\ None \notin Rooms /\ CallTypeOK
  BY CallAssumption DEF CallIInv, CallTypeOK, Fresh, Clients
<1>2. ASSUME NEW b \in Rooms, start(b) PROVE CallIInv'
  <2>1. \A n \in 1..Len(clients) : Sound(clients[n]) /\ clients[n].disposed
    <3>1. \A n \in 1..Len(clients) : HasGone(n)
      BY <1>1, <1>2 DEF start, HasGone
    <3> QED BY <3>1, ClientsAreSound DEF CallIInv, GoneIsReleased
  <2>2. CallTypeOK'
    <3>1. clients' \in Seq(Clients) /\ Len(clients') = Len(clients) + 1
      BY <1>1, <1>2 DEF start
    <3>2. Len(clients') <= MaxClients
      BY <1>1, <1>2, <3>1 DEF start
    <3> QED BY <1>1, <1>2, <3>1, <3>2 DEF start, CallTypeOK
  <2> QED BY <1>1, <1>2, <2>1, <2>2, AppendKeeps DEF start
<1>3. CASE retry
  <2>1. /\ clients' = Append(LastHungUp, Fresh) /\ UNCHANGED <<held, finished, over, asked>>
        /\ held # None /\ ~finished /\ phase' = "connecting" /\ Len(clients) < MaxClients
    BY <1>3 DEF retry
  <2>2. LastHungUp \in Seq(Clients) /\ Len(LastHungUp) = Len(clients)
        /\ \A n \in 1..Len(LastHungUp) : Sound(LastHungUp[n]) /\ LastHungUp[n].disposed
    BY HangUp
  <2>3. CallTypeOK'
    BY <1>1, <2>1, <2>2 DEF CallTypeOK
  <2> QED BY <2>1, <2>2, <2>3, AppendKeeps
<1> QED BY <1>2, <1>3

LEMMA LeaveKeeps ==
    ASSUME CallIInv, leave \/ \E b \in Rooms : refreshState(b)
    PROVE  CallIInv'
<1>1. /\ CallTypeOK /\ HeldHasClient
      /\ LastHungUp \in Seq(Clients) /\ Len(LastHungUp) = Len(clients) /\ Len(clients) \in Nat
      /\ \A n \in 1..Len(clients) : Sound(LastHungUp[n]) /\ LastHungUp[n].disposed
  BY HangUp, ClientsAreSound DEF CallIInv
<1>2. ASSUME clients' = LastHungUp, CallTypeOK', held' # None => held # None PROVE CallIInv'
  BY <1>1, <1>2 DEF CallIInv, HeldHasClient, GoneIsReleased, Sound
<1>3. CASE leave
  <2>1. CallTypeOK'
    BY <1>1, <1>3 DEF leave, CallTypeOK
  <2> QED BY <1>2, <1>3, <2>1 DEF leave
<1>4. ASSUME NEW b \in Rooms, refreshState(b) PROVE CallIInv'
  <2>1. CallTypeOK' /\ UNCHANGED <<held, phase, over>>
    BY <1>1, <1>4 DEF refreshState, CallTypeOK
  <2>2. CASE UNCHANGED <<finished, clients>>
    BY <2>1, <2>2 DEF CallIInv, GoneIsReleased, HasGone, HeldHasClient
  <2>3. CASE held = None /\ clients' = clients
    BY <2>1, <2>3 DEF CallIInv, GoneIsReleased, HasGone, HeldHasClient
  <2>4. CASE clients' = LastHungUp
    BY <1>2, <2>1, <2>4
  <2> QED BY <1>4, <2>2, <2>3, <2>4 DEF refreshState
<1> QED BY <1>3, <1>4

LEMMA AskKeeps == ASSUME CallIInv, Ask \/ \E b \in Rooms : closeOnServer(b) PROVE CallIInv'
<1>1. UNCHANGED <<held, phase, finished, clients>>
  BY DEF Ask, closeOnServer
<1>2. CallTypeOK'
  BY <1>1 DEF CallIInv, CallTypeOK, Ask, closeOnServer
<1> QED BY <1>1, <1>2 DEF CallIInv, GoneIsReleased, HasGone, HeldHasClient

LEMMA CallStarts == CallInit => CallIInv
<1> SUFFICES ASSUME CallInit PROVE CallIInv
  OBVIOUS
<1>1. clients \in Seq(Clients) /\ Len(clients) = 0
  BY DEF CallInit
<1>2. Len(clients) <= MaxClients
  BY <1>1, CallAssumption
<1>3. held \in Rooms \cup {None} /\ phase = "idle" /\ finished \in BOOLEAN
      /\ over \subseteq Rooms /\ asked \subseteq Rooms
  BY DEF CallInit
<1>4. CallTypeOK
  BY <1>1, <1>2, <1>3 DEF CallTypeOK
<1> QED BY <1>1, <1>4 DEF CallInit, CallIInv, GoneIsReleased, HeldHasClient

LEMMA CallStep == CallIInv /\ [CallNext]_callVars => CallIInv'
<1>1. ASSUME CallIInv, UNCHANGED callVars PROVE CallIInv'
  BY <1>1 DEF callVars, CallIInv, CallTypeOK, GoneIsReleased, HasGone, HeldHasClient
<1> QED BY <1>1, SettleKeeps, ShareKeeps, StartKeeps, LeaveKeeps, AskKeeps DEF CallNext

(* client.ts, leave: whenever the hang-up falls, a client that is gone was  *)
(* told so, and outside a join under way it has no device open and is in   *)
(* no channel.                                                             *)
THEOREM GoneClientsAreReleased == CallSpec => []GoneIsReleased
BY CallStarts, CallStep, PTL DEF CallSpec, CallIInv

(***************************************************************************)
(* The stage                                                               *)
(***************************************************************************)
(* What viewer-stage.tsx keeps of a page that ended: nothing that could     *)
(* bring it back.                                                           *)
StageIInv == StageTypeOK /\ EndedIsLeft

(* A counter starts within its bound and is moved by one within it. *)
LEMMA CountersInBound ==
    \A m \in Nat : /\ 0 \in 0..m
                   /\ \A n \in 0..m : (n < m => n + 1 \in 0..m) /\ (n > 0 => n - 1 \in 0..m)
OBVIOUS

LEMMA StageStarts == StageInit => StageIInv
<1> SUFFICES ASSUME StageInit PROVE StageIInv
  OBVIOUS
<1>1. checks \in 0..MaxChecks /\ returns \in 0..MaxReturns /\ lost \in 0..MaxLost
      /\ failures \in 0..MaxFailures
  BY StageAssumption, CountersInBound DEF StageInit
<1> QED BY <1>1 DEF StageInit, StageIInv, StageTypeOK, EndedIsLeft

LEMMA StageStep == StageIInv /\ [StageNext]_stageVars => StageIInv'
<1> SUFFICES ASSUME StageIInv, [StageNext]_stageVars PROVE StageIInv'
  OBVIOUS
<1>a. /\ MayFail => failures' \in 0..MaxFailures
      /\ checkEnded => checks' \in 0..MaxChecks
      /\ returns < MaxReturns => returns + 1 \in 0..MaxReturns
      /\ lost < MaxLost => lost + 1 \in 0..MaxLost
  BY StageAssumption, CountersInBound DEF StageIInv, StageTypeOK, MayFail, checkEnded
<1>b. checks > 0 /\ checks' = checks - 1 => checks' \in 0..MaxChecks
  BY StageAssumption, CountersInBound DEF StageIInv, StageTypeOK
<1>c. returns' = returns + 1 => returns' > 0
  BY DEF StageIInv, StageTypeOK
<1> USE <1>a, <1>b, <1>c DEF StageIInv, StageTypeOK, EndedIsLeft
<1>1. CASE HostMoves
  BY <1>1 DEF HostMoves, faultVars
<1>2. CASE HostLeaves
  BY <1>2 DEF HostLeaves, faultVars
<1>3. CASE HostJoins
  BY <1>3 DEF HostJoins, faultVars
<1>4. CASE broadcastToken
  BY <1>4 DEF broadcastToken, markEnded, Hung, hostVars
<1>5. CASE JoinReturns
  BY <1>5 DEF JoinReturns, hostVars
<1>6. CASE TryAgain
  BY <1>6 DEF TryAgain, hostVars, faultVars
<1>7. CASE RenewalFires
  BY <1>7 DEF RenewalFires, hostVars, faultVars
<1>8. CASE renewToken
  BY <1>8 DEF renewToken, hostVars
<1>9. CASE RenewalLost
  BY <1>9 DEF RenewalLost, hostVars
<1>10. CASE TokenExpires
  BY <1>10 DEF TokenExpires, hostVars, faultVars
<1>11. CASE getBroadcastWatchable
  BY <1>11 DEF getBroadcastWatchable, markEnded, Hung, hostVars
<1>12. CASE UNCHANGED stageVars
  BY <1>12 DEF stageVars
<1> QED BY <1>1, <1>2, <1>3, <1>4, <1>5, <1>6, <1>7, <1>8, <1>9, <1>10, <1>11, <1>12 DEF StageNext

(* viewer-stage.tsx, markEnded: whatever the host, the token route, the SDK *)
(* and the renewals do, a page that says the class is over says so of one   *)
(* that stopped, and keeps nobody in its channel.                           *)
THEOREM EndedStageIsLeft == StageSpec => []EndedIsLeft
<1>1. StageIInv => EndedIsLeft
  BY DEF StageIInv
<1> QED BY <1>1, StageStarts, StageStep, PTL DEF StageSpec
=============================================================================
