# NowTutors in TLA+

NowTutors is a tutoring marketplace: a Next.js application over one Postgres
database. Students buy credits through PayPal and spend them on scheduled or
instant sessions; tutors earn credits, which a job releases after a hold and a
withdrawal pays out. Every process is a short-lived request handler, a webhook
delivery or a scheduled job, and the only shared state is the database, PayPal,
Agora/LessonSpace and the browser tabs. What is hard is therefore the order in
which database transactions of many callers interleave, what they read before
they lock, and what arrives late, twice or never.

This directory models the money (the credits ledger, the scheduled checkout with
PayPal, the tutor's payout and the admin actions that unwind them), the instant
sessions and broadcasts of a tutor, the room of a session, the browser tabs that
have to follow all of it over a Realtime channel, messaging, the jobs, a tutor's
review, and the slot grid.

## The modules

| Module | What it models |
| --- | --- |
| `Ledger` | The credits ledger as a value: rows by reference, cached balances, and the operators that move them together. No variables. |
| `AtomicLedger` | Abstract specification: what the ledger promises its callers. |
| `WalletTransactions` | `lib/credits/ledger.ts` statement by statement, under row locks, the unique index, aborts and redelivery. Implements `AtomicLedger`. |
| `Checkout` | The student's half: slot, hold, PayPal order, capture, webhook, expiry, force-cancel, refund reversal. |
| `Payout` | The tutor's half: owed earnings, hold, release runs, withdrawals, bonuses, adjustments, force-complete, force-cancel. |
| `AdminLocks` | The row locks of the transactions that book, unwind or pay a booking, and who can wait for whom. |
| `TutorTime` | Abstract specification: a tutor is in one place, a request is answered once and paid for when its room opens. |
| `InstantSession` | Everything that writes one tutor's profile row, requests, instant bookings and broadcasts, with crashes. Implements `TutorTime`. |
| `SessionRoom` | One booking from the moment it can be entered: join routes, stamps, tokens, the racing closers, the sweep. |
| `CallPage` | One tab in a call: the join, the devices, the screen share, late answers. |
| `RetryingChannel` | `useRetryingChannel`, which every Realtime subscription goes through. |
| `LiveThread`, `UnreadBadge` | An open conversation in a tab, and the unread count of a tab. |
| `Conversation` | Sends as the database sees them, under the conversation's row lock. |
| `WaitingModal`, `IncomingRequests` | The student's and the tutor's tab of an instant request. |
| `LiveStage` | A viewer's page of a broadcast, with `useTokenRenewal`. |
| `AvailabilityBonus`, `Reminders` | The accrual by heartbeats and the weekly bonus; the reminder sweep. |
| `TutorReview` | A tutor's profile between its editor and the admin's queues. |
| `SlotGrid` | `computeSlots`, `isSlotOpen` and the time zone conversions, against a definition of a slot. |
| `SumLemmas` | What a sum over a finite set does when the set or one value changes. |
| `WalletTransactions_proofs`, `Checkout_proofs`, `Payout_proofs`, `InstantSession_proofs`, `SessionRoom_proofs` | The theorems of one module each, checked by TLAPS. |
| `Tabs_proofs` | Those of the tabs: the channel, the modal, the queue, the thread, the badge, the call and the stage. |
| `Parts_proofs` | Those of the locks, the sends, the bonus, the reminders, the review and the calendar, and of `MCParts` as a whole. |
| `MCWallet`, `MCCheckout`, `MCHolds`, `MCPayout`, `MCAdminLocks`, `MCInstant`, `MCParts`, `MCDst` | The instances TLC checks. |

`Checkout` and `Payout` keep a `book` of `Ledger` in one variable and move it in
atomic steps; `WalletTransactions` is the reason they may. `InstantSession` keeps
a student's balance only: `accept` debits it in the transaction that takes the
tutor's row. How a session is closed is one choice in `Payout` and in
`InstantSession`; `SessionRoom` is where the closers race. `MCParts` puts the parts
that share no variables side by side: a behaviour of it is a behaviour of one of
them, chosen in the initial state, and its fairness is theirs.

### Ledger, AtomicLedger, WalletTransactions

*State.* `opened`, `balance` and `rows` are the committed `wallets` and
`credit_transactions`; `lock`, `pc` and `current` are each transaction's locks,
next statement and the balance it read. *Actions.* `LockWallet`,
`CreateWallet`, `RelockWallet`, `InsertTransaction`, `SetBalance` are the calls
of `applyDelta` in its order, with the early returns where the code has them;
`Commit` and `Abort` end the caller's transaction; `Deliver` starts a call, again
and again, since PayPal redelivers. `FOR UPDATE` waits for the holder and reads
what it committed; the insert waits for an uncommitted duplicate of its key.

A transaction of the model makes one post. The code's callers that make two (mint
and spend) make them on one wallet, whose lock they keep, so the pair is still
one step of the atomic ledger's books.

### Checkout

One action is one transaction, or the stretch between two awaits that another
caller can tell apart.

| Code | Actions |
| --- | --- |
| `createScheduledBooking` | `CheckSlot` (before the transaction), `CountHolds` (in it, nothing locked), `TakeSlot` or `LoseSlot` |
| `expireUnpaidBookings` | `ExpireUnpaid` |
| `POST /api/paypal/orders` | `OpenCheckout`, `CreatePayPalOrder`, `FailOrder`, `StampOrder` |
| PayPal (external) | `Approve`, `Review`, `RefundPart`, `RefundInFull` |
| `POST .../capture` | `CallCapture`, then `ApplyCompleted`, `ApplyPending` or `ApplyTerminal` on an answer that may be old |
| the webhook | `OnCompleted`, `OnDenied`, `OnRefunded`, any number of times once the fact is so |
| admin | `ForceCancel`, `ReverseByCancelling`, `ReverseByTaking` |

`Settle` is `settleCapture` and `Mark` is `markStatus`; both routes use the same
two, as in the code. `"confirmed"` stands for every status a force-cancel
accepts (`FORCE_CANCEL_FROM`), so a finished session keeps its slot in the model;
its time is past, and nobody can ask for it again. `paidBy` and nothing else is a
history variable.

### Payout

`Begin` and `Close` are the session (how it ends is one nondeterministic choice:
the classification by join stamps is `SessionRoom`'s);
`WriteOwed` is `writeOwedEarnings` with any batch, since `SKIP LOCKED` may skip
any row; `ListDue`, `ClaimAndCredit` and `RunDies` are a release run, whose list
is read long before it is used; `RequestWithdrawal`, `Approve`, `MarkPaid`,
`Reject` are `lib/withdrawals`; `AwardBonus` is the weekly job's credit, which lands in
the same wallet (which weeks are won is `AvailabilityBonus`'s); `Adjust`, `ForceComplete`
and `ForceCancel` are the admin. `Net` is what `splitEarnings` leaves (rounding the fee down keeps it
at least one credit for any fee below 100%). The withdrawal's minimum in dollars
is `MinCredits`, the balance that reaches it.

### AdminLocks

A transaction is the sequence of rows it locks on its longest path; it holds all
of them until it commits. Wallets are shared by the bookings of one student and
tutor, the other rows belong to one booking. `NoWaitCycle` says that no group of
transactions waits in a circle.

### InstantSession, TutorTime

*State.* `live`, `mode`, `fresh` are the tutor's profile row (`fresh`: the heartbeat
is inside the two minutes of `live_tutors`); `broadcast`, `request`, `due`,
`session` the other rows; `balance`, `charged` the money; `call` how far each accept
call has come; `sweep`, `swept` the presence job between its statements.

| Code | Actions |
| --- | --- |
| `db/queries/presence.ts` | `setTutorLive`, `touchPresence`, `GoStale`, the sweep's three statements as three steps |
| `db/queries/admin-users.ts` | `applySuspension` |
| `actions/session-requests.ts` | `CheckTutor`, `CheckStudent`, `insertSessionRequest` (three reads and writes apart), `declineSessionRequest`, `expirePendingRequests` |
| `lib/session-requests/accept.ts` | `AcceptCall`, `RefuseAccept`, `ExpireLate`, `acceptSessionRequest` (the transaction), `FailDebit` and `markFailedPayment` (two statements, a crash between) |
| `lib/broadcasts/service.ts` | start and end of a broadcast, the end of stale ones |
| the clock and the room | `Lapse`, `Meet`, `GraceEnds`, `RoomEnds`, `closeUnmetInstantSessions`, and `ForceClose` (an admin cancels or completes a room, met or not) |

The refinement maps the rows to `TutorTime`'s `place`, `deal` and `paid`: every
statement of every handler and job is a step there or does not show.

### SessionRoom, CallPage

`SessionRoom`: a participant's route is `EnterRoute` (the read and the check),
`launchSpace` for a scheduled lesson (it may fail), the join stamp and `mintToken`,
one statement each; `insertBooking` opens an instant session; the closers are
`endInstantSession`, `endElapsedInstantSession`, `closeUnmetInstantSession`,
`sweepElapsedScheduledSessions`, and an admin's `applyForceCancel` and
`applyForceComplete`, and each is one UPDATE, guarded or under the row's lock. The admin's two also take a row
that is closed: a cancel any outcome, a completion a no-show, and both leave an `ended_at`
that is there. `RoomTick` moves the clock, never past `MaxLatency` of a route under way.
`entry` (a token or link was handed out)
and `forced` (an admin completed it) are history variables.

`CallPage`: each await of `SessionClient.join`, `createLocalTracks` and
`startScreenShare` settles in `Settle(n)` of its client; `start`, `retry`, `leave`,
`Ask` and `refreshState` are the provider's. A client keeps the devices it has open,
whoever remembers it.

### The tabs on a Realtime channel

`RetryingChannel` has one action per callback: the watchdog, the auth prelude, the
subscribe callback, the retry timer, the unmount, and what supabase-js may still call
for a channel that was dropped. Its users (`LiveThread`, `UnreadBadge`,
`WaitingModal`, `IncomingRequests`) rely on what it keeps: they model the channel
as up or down, with `onSubscribed` each time it comes up and events lost while it is
down. Reads return what the database held when they ran, answers are applied in any
order, and calls may be answered late or never where the code catches that.
`UnreadBadge` has what it does then: a count that fails (`CountFails`), and a mark that
was committed and whose answer is lost (`MarkFails`), are logged and dropped, and the badge
stays as it is until the next signal makes it read again.

`LiveStage` is the viewer's page without such a channel: `HostLeaves` is Agora's
`user-left`, `broadcastToken` the first token request with its three answers,
`JoinReturns` what becomes of the join, `RenewalFires`, `renewToken`,
`RenewalLost` the renewal hook, `getBroadcastWatchable` the answer to
`checkEnded`. The broadcast's row is `onAir`; a stale host is not watchable.

### Conversation

`sendMessage` as five steps: the transaction begins and has its `now()`, takes the
conversation's row, looks for the client key, counts, and inserts and commits; it
may die at each. `created_at` is `now()` of the transaction, so it may be older than
a message that landed before it, which is what makes the count's window delicate.

### The jobs, the review and the calendar

`AvailabilityBonus`: `beat` is a heartbeat with its accrual, `goLive`/`goOffline` the
toggles and the sweep; a run is `StartRun`, `NextWeek`, `listQualifiers` and
`claimAndCredit`, and may die between any two. `Reminders`: a sweep claims what is due
by stamping it, then sends; calls come at a cadence, some are missed, some overlap.
A booking is confirmed when it is made in the model. One paid by PayPal is confirmed later, as a
rule within the hold of 20 minutes, less than the 30 for which even the later reminder waits;
a payment that settles after that begins its windows late, and of that the model says nothing.

`TutorReview`: a save is `ReadStatus` (before the transaction), `BeginSave` and
`updateTutorProfile` (with the two triggers of `drizzle/0025`); an admin's decision
is `Decide` (the read, the guard and the clock) and `Apply` (the update). The
queues are operators on the status and the two stamps. `saves`, the saves in the
order of their commits, is a history variable.

`SlotGrid` has no state: `computeSlots` is written as the code enumerates, and
`SlotsAreExact` compares it with a definition of a slot over a set of calendars. The
definition (`InSomeWindow`) does not use the code's arithmetic: a slot is on a window's grid, and
every instant of the lesson reads as inside that window on the tutor's clock. Two cases
are exempt, where the code differs from it: a start at an hour that clock skips or repeats
(finding 7), and a lesson during which the clock is moved, which is only sure to be inside up to
that moment (`Steady`).

## The runs

| Run | Instance | Shows |
| --- | --- | --- |
| `wallet` | 4 transactions, 1 fresh wallet, 3 references (one shared) | `LedgerIInv`, `NoWalletDrift`, and the refinement of `AtomicLedger` |
| `checkout` | 1 student, 1 slot wanted by PayPal and with credits, 2 payments, hold 1 tick, clock to 3 | the safety of the whole checkout, the finality of refunds, and that money becomes credits |
| `payout` | 1 tutor, 2 sessions of different worth, 2 requests, 2 runs, one adjustment of -1, one bonus of 1 | exactly-once payment, M12's claims, and that sessions are paid |
| `instant` | 1 tutor, 2 students with a request each and one credit, 1 broadcast, 1 accept call at a time, 1 crash | one place, one charge, the refinement of `TutorTime`, waits and gone hosts end |
| `parts` | one instance of each of the parts, below | everything the other modules promise |
| `replay`, `reversal` | the checkout instance | findings 1 and 2 |
| `holds` | 3 attempts, cap 2 | finding 3 |
| `admin_locks` | cancel, reversal and complete of one booking | finding 4 |
| `stage` | the instant instance | finding 5 |
| `late_answer` | 1 tab, 2 bookings, 2 clients | finding 6 |
| `dst` | New York and Berlin, every hour of the day of each transition | finding 7 |

*Bounds.* Two colliding bookings with one PayPal buyer already meet every race of
the slot; two payments are needed for one booking to be paid twice, and a third
adds no new relation between two of them. The hold of one tick against a clock of
three passes through live, exactly at the boundary (where the strict and the
non-strict comparison of the two sides differ) and stale. The package costs what the
session costs, so that credits retained by a lost slot can buy the other booking
and a reversal can find the wallet empty. Two release runs and two requests are
the smallest that overlap; different nets make a wrong sum visible; the
adjustment makes a balance that no longer covers an earning. In
`wallet` the payment alone covers the debit, so that debit and second credit can
run side by side on an open wallet, where a lost update would show; the second
credit alone does not cover it. In `instant` two requests of different students are
what two rooms or two charges take, one credit each lets a debit fail after a
spend elsewhere, and the accept call starts again after each answer, so a second
tab's call is a later one; the proofs are for any number of calls at once.

The parts of `MCParts`: six lock scripts on two bookings of one student and tutor; a
room whose session takes 2 ticks, with grace, window and latency of 1 or 2 and the
clock to 7, so that every closer can be early, on time and late; two bookings and
two join attempts of one tab; four connects of the channel, so that a late one meets
two newer; two messages and one draft with a page of two, so that a page can miss
a message; three arrivals for the badge; two reads in flight for the modal, two
requests and one list read at a time for the queue; a broadcast whose host comes
back once, two lost requests, one answer that is an error and two checks in flight;
four sends of one writer, two with one key and one in another conversation, against
a limit of one in two seconds; three weeks of three ticks and two bonus runs, so that a
run can look at a week that is not over; two reminder sweeps with one missed call;
two saves and two decisions of a review; and a few thousand calendars of two weekdays of
six hours, in zones on both sides of Greenwich with the clock put forward, back and left alone,
seen from three zones.

Deadlock is not checked where the system may really stop: in `checkout` and its
relatives when the bounded clock has run out and every order is over, in `payout`
when all is paid, in `instant` and `stage` when every request is answered, in `parts`
when a tab was closed or a bound is reached, in `dst` after the last hour.
`wallet`, `admin_locks` and `late_answer` check it.

### What each property is for

- `SlotHeldOnce`: the calendar, the hold count, the sweep and the exclusion
  constraint each look at another moment of the clock and another set of statuses;
  still no two colliding bookings are both held or paid for.
- `DebitIffConfirmed`: the code reads the `booking_debit` row as the record of a
  confirmation, in three places. It is that.
- `MoneyHonoured`, `MoneyBecomesCredits`: a captured payment is minted, whatever
  became of the slot, and nothing is minted that PayPal did not collect; even if
  the capture call never returns, the webhook gets there.
- `StatusTellsPayPal`: what an admin acts on (`failed`, `refunded`) is true,
  although partial refunds, denials, chargebacks and old capture answers use the
  same two functions.
- `RefundIsFinal`, `PaidSessionKept`: what no step may do.
- `ReversalUnwindsSession`: after a reversal, no session that payment bought.
- `NoWalletDrift`: reconcile-wallets would find nothing.
- `EarningTellsLedger`, `ClaimsAreAccountable`: the status of an earnings row, the
  request that claims it and the ledger tell the same story.
- `WithdrawalIsItsEarnings`: every credit in a tutor's wallet or withdrawn comes from a
  released session, a bonus or an adjustment, to the credit; and unless an admin took
  credits away, a request is worth at least the earnings rows it claimed, and what is
  left at least the unclaimed ones. A request takes the whole balance, so with a bonus in
  it, it is worth more than its earnings; without bonus and adjustment the two are equal.
- `CancelledIsNotPaid`, `SessionsArePaid`: nobody is paid for a session cancelled
  before its release, and everybody else is.
- `TutorInOnePlace`: never two rooms, nor a room while the row says on stage,
  whatever the order of accepts, starts, toggles, suspensions and sweeps.
- `ChargedOnceForARoom`: a failed debit, a crash before `failed_payment` is
  recorded, a second tab's accept or a late expiry change nothing of it.
- `ImplementsTutorTime`: no statement of a handler or job shows a state in between.
- `WaitEnds`, `GoneHostIsEnded`: a request is answered or expires, a broadcast
  whose host is gone is ended, however often a job dies between its statements.
- `NoWaitCycle` (in `parts`): the transactions that follow the documented order
  cannot wait for each other in a circle.
- `NoShowsWereAbsent`: nobody who was let in is recorded as a no-show, whichever
  closer wins and whatever joins are under way, and a completed session had both unless
  an admin completed it. `TokensEndWithTheSession`: no token
  outlives its session by more than the grace and a route's latency.
  `RoomIsClosed`: every booking is closed and classified.
- `HungUpIsReleased`: a hang-up between any two awaits leaves no device open and no
  channel joined, for good.
- `ChannelKept`: never two channels, none after the unmount, and always a
  subscription or a timer.
- `PicksUpEverything`, `SentOnce`: what lands while the channel is down is shown and
  marked; a text lands once however often it is sent.
- `AcceptedIsJoined`, `PendingIsShown`: a charged student's tab gets to the room, a
  tutor's tab shows a request, although the event about it may be lost.
- `EndIsLearned`: a viewer with a renewal to come learns that the class is over.
- `OnlineTimeWasInView`, `BonusPaidOnce`: no second is counted that `live_tutors`
  did not list the tutor in, no week is paid twice or early.
- `RemindedOnceInTime`: with one missed call a reminder is still claimed in its
  window, and nobody is reminded twice.
- `SlotsOfCalendarAreExact`: the grid offers the free starts whose whole lesson is inside a
  window on the tutor's clock, and no others, but where that clock is moved; and the server
  takes what the grid offers.
- `PartsIInv`: the types, and by name: `StartedWhenBothCame`, `EndedInTime`
  (the room's stamps: an instant session ends between its start and its deadline, a
  lesson at its scheduled end, and one an admin completed by that moment),
  `AcceptIsOnItsWay` (the modal), `QueuedOnce` (the tutor's
  queue), `BadgeSettles` (a badge whose
  channel is up and with nothing on its way is right, unless the latest read or the answer of a mark
  since was lost), `EndedIsLeft`
  (an ended viewer left the channel), `ThreadWithinRate` (no window of time
  holds more of a writer's messages in a conversation than the limit), `KeyLandsOnce` (one message
  per client key), `SavesAreSeenAgain` (every save that asked for a look
  and began after the admin's last one is in front of the admin again, unless an older save
  overtook it and stamped its own time over it), `GoneIsReleased` (a client hung up on holds nothing
  once its join is over). The rest of its conjuncts are what the proofs below
  need to be inductive, so that TLC sees them too.

### Findings

1. **Replay of a retained payment** (`replay`). Two payments of one booking: the
   replay of the one whose credits were retained answers
   `booking_already_confirmed`, because `settledLegs` looks at the booking's debit
   and not at whose settlement wrote it.
2. **Reversing the wrong payment cancels the right one's session** (`reversal`).
   The same look in `applyRefundReversal`: the student loses a session that was
   paid and never refunded.
3. **Three holds at once** (`holds`). The cap of two is a count nothing locks.
4. **Lock order** (`admin_locks`). The refund reversal takes the student's wallet
   before the booking, against the header's stated order.
5. **On stage without a broadcast** (`stage`). The sweep's statements read
   `live_tutors` apart: a host who is fresh at the first and gone at the last has
   the broadcast ended and the mode left, and no toggle or end gets it back.
6. **An answer about the other booking** (`late_answer`). `refreshState` finishes
   whatever call the tab is in by now.
7. **Skipped and repeated hours** (`dst`). `zonedWallToUtc` resolves them as its
   comment says on one side of Greenwich only.

Seen while modelling, without a run of their own (read in the code, not checked by a
model):

- *Renewals* (`viewer-stage.tsx:57`, `use-token-renewal.ts:31`). The comment on a
  failed check says "the next host event or renewal asks again", and `onRefused` is
  documented to come "after a retry" of a failed fetch. A refused renewal schedules no
  other, and a second network failure returns silently. So a viewer whose renewal
  was refused while the host was briefly stale (the check then says watchable), or
  whose check failed, is dropped when the token ends and may never learn of the end,
  unless the host's client leaves before that. `EndIsLearned` names exactly what is
  left. A join that rejects after the page ended shows an error in its place.
- *Rate of messages* (`lib/messaging/rules.ts:86`): "at most this many messages from
  one sender in any rolling window". The count is per sender, the lock per
  conversation: sends to two conversations do not see each other.
- *A lesson across a change of the clock* (`compute-slots.ts:12`): a slot is said to be inside a
  window with the whole lesson. The code adds the duration to the start's wall clock, so a
  lesson across a spring-forward may run past the window's end, and across a fall-back
  one may run outside it or one that fits not be offered.
- *`last_message_at`* can go back: it is the start of the transaction that commits last.
- *`thread.tsx`'s* header says a thread is marked read while visible; `onSubscribed`
  marks also while hidden. The composer stays editable during a send, and the
  answer empties it.
- *`settleCapture`* locks a wallet before a booking, outside the documented order;
  Postgres aborts one of the two and PayPal retries.
- *The waiting modal* is said to resume after a reload (`session-requests.ts:123`),
  which nothing asks for; it can be closed while pending, so a student can be
  charged with no tab waiting. "No answer, nothing was charged" shows before the read
  at the ring's end returns. The tutor's "missed request" toast shows although an
  Accept is in flight.
- *Tutor review*: the decisions stamp the time of the click and do not look at which
  version the page showed, so an edit made between the two is approved unseen, and a
  material edit begun before a decision and committed after it is never flagged. Two
  saves that overlap stamp their own beginnings, so one that began before the admin's look and
  commits last takes a newer one out of the queue. A save of a pending tutor between the
  approval's read and its update is approved unseen. A stale page's
  "mark reviewed" moves a resubmitted tutor back to waiting. The photo an approval
  asks for is read without a lock.
- *Promotion* (`admin-users.ts:265`, `lib/admin/users.ts:121`): it is refused to an
  account "who still has credits, sessions or money owed". The facts are read under the
  wallet's lock, which a PayPal hold does not take, and settlement does not look at the
  role. A session that is `completed` and has no earnings row yet (the next sweep
  writes it) is neither an open booking nor an unpaid earning, so its tutor can be
  promoted and be paid into a wallet that has no page. A promoted tutor's profile
  stays approved, and `createScheduledBooking` asks for no more.
- *A role set twice* (`actions/onboarding.ts:34`: "Role is set once here"). The student's
  and the tutor's form can both pass `requireUnonboarded` before either commits; the
  updates are by id alone, on the trusted connection the trigger lets through, so the
  later form decides, with the rows of both.

## Fairness

`Checkout!FairSpec` asks weak fairness of `OnCompleted` alone: PayPal redelivers a
completed capture until it is answered 200. Nothing is asked of buyers, of the
capture route or of the jobs. `Payout!FairSpec` asks weak fairness of
`WriteOwed` of each booking and of `ListDue` of each run (pg_cron calls the jobs
for ever), and strong fairness of `ClaimAndCredit` for each row of each run: a
run may die anywhere, but not always before the same row, since runs start with
the row that waits longest. No admin and no tutor is assumed to act.

`InstantSession!FairSpec` asks weak fairness of the clock (`Lapse` of each request)
and of the two jobs, `expirePendingRequests` and the presence `Sweep`, which pg_cron
calls for ever. `MCParts` asks, in each part alone: that time passes, a route under
way answers and the completion job is called (room); that a device prompt or an
SDK call settles (call); that a channel that is down is tried again, which `ChannelKept`
is about, and that reads are answered (thread, modal, asks); that requests settle, timers fire and a
host whose broadcast is over leaves the channel (stage). A read-back that fails is
assumed not to happen in the thread, the modal and the queue: their code does
not repeat it. (In the badge it may fail; what the badge promises is about the
rest.) Nobody is assumed to click.

## What is proved

TLAPS proves every safety property the passing runs check, and both refinements, for every
value of the constants. What is assumed of these are the `...Assumption`s of the
modules, which TLC evaluates in the runs. Most say that a count or a time is a number, and
that a "none" is not one of the things. The ones with content: a ledger reference belongs to one
user's wallet, and a wallet has finitely many (`KeysAssumption`); `Payout` has finitely many
bookings (`PayoutAssumption`); colliding is symmetric (`CheckoutAssumption`); the bonus looks
back at least one week (`BonusAssumption`); a reminder is for a booking made some time
ago (`ReminderAssumption`). The bounds on counters
and clocks are constants too, so the theorems hold for any bound.

- `WalletSafe`: `Spec => []LedgerIInv`. The invariant is inductive: a transaction
  past its lock holds the wallet's lock and worked on the committed balance, its
  reference is unused and nobody else's, and a wallet without a row has balance 0.
- `WalletsNeverDrift`: `Spec => []NoWalletDrift`. A commit puts one row under a reference
  that had none and sets the balance to the one it read plus the row's amount; that the
  balance it read is still the committed one is `LedgerIInv`, and that the sum moves by as
  much is `SumLemmas`.
- `WalletRefinesLedger`: `Spec => Atomic!Spec`. `Commit` maps to `Append` of the
  abstract ledger, which `LedgerIInv` shows to be allowed; every other step is a
  stutter.
- `CheckoutSafe`: `Spec => []CheckoutIInv`, one lemma per action. `SlotHeldOnce` and the
  money properties are not inductive alone. What they need: an attempt in
  progress has no row yet; an unstamped order was never approved; a capture
  answer still to be applied is true at PayPal; `paidBy` names a minted payment of
  that booking; a refund row stands only on a cancelled booking; purchase rows
  are never negative and debit rows never positive.
- `SlotsNeverCollide`, `ChargedIffConfirmed`, `CapturesAreHonoured`,
  `StatusesAreTrue`, `ReversalsUnwind`: the parts of it a reader wants by name.
- `RefundsAreFinal`, `PaidSessionsAreKept`: the two action properties.
- `PayoutSafe`: `Spec => []PayoutIInv`, one lemma per action that posts or moves a
  request and one for the steps of the session. The parts lean on each other: a row
  is credited once because a held row has no ledger row yet (`EarningTellsLedger`); a cancel takes
  back no row under withdrawal because a claimed available row has an open request
  of its tutor (`ClaimsAreAccountable`), which `tutorReversalFor` looks for; and a
  rejected request returns an amount that is not zero because it was held
  (`HoldTellsRequest`).
- `LedgerOfEarnings`, `ClaimsAreAccounted`, `NeverPaidAfterCancel`: the parts of it a
  reader wants by name, the last an action property that needs `OwedForASession` (a held row's
  booking is not cancelled).
- `WithdrawnIsEarned`: `Spec => []WithdrawalIsItsEarnings`, with `PayoutIInv`. The
  equation (`Accounted`) is of three sums, of earnings, of standing requests and of the
  ledger rows that come from no session: a request moves the balance from the wallet to
  itself, a rejection moves it back, a release adds one row to both sides and a cancellation
  takes one from both, a bonus or an adjustment adds its row. The two inequalities
  (`Covered`) are inductive beside each other: a request takes the balance together with all
  the rows it covers, a rejection gives both back. For a tutor an admin took credits from
  only the equation is claimed.
- `DocumentedOrderSuffices`: if every transaction is one of those that follow
  the documented order, `[]NoWaitCycle`. The argument: whoever waits has locked
  only rows of a lower rank than the one it waits for, so in a group of waiters
  the row of the highest rank that is waited for is held by none of them, and
  whoever waits for it waits for somebody outside the group.
- `InstantInvariant`: `Spec => []InstantIInv`, for any number of students, requests,
  broadcasts and accept calls. `TutorInOnePlace` and `ChargedOnceForARoom` need each
  other and `CallsAreAboutSentRequests`: an accept call past its first statement is
  about a request that exists, so what it writes is an answer.
  `TutorNeverInTwoPlaces` and `StudentPaysForRoomOnce` name the two.
- `InstantImplementsTutorTime`: `Spec => Time!Spec` (without fairness), one
  case per action, each a step of `TutorTime` or a stutter.
- `RoomSafe`: `Spec => []RoomIInv`. A route keeps what it read, and the row may be
  closed meanwhile: the invariant says of each route what is still true of what it read,
  that only who has joined was handed anything, that what the classification found
  stands, and bounds every token, before the start by the booking's length from now.
  `AbsentWereAbsent`, `TokensAreBounded` and `DatedInTime` are the parts by name.
- `ChannelIsKept`: for any number of overlapping connects, the hook has at most one
  channel, none once unmounted, and always a subscription or a timer. `ChannelIInv`
  adds that a connect whose prelude is under way has no channel yet.
- `AcceptIsHeard`: however often the channel is lost and whenever the ring ends, a
  modal that waits on an accepted request has the news announced, being read, or
  read when the channel is back. `ModalIInv` adds that whatever is
  announced, read or shown is the end the request came to.
- `ThreadIsWithinRate`, `KeyLandsOneMessage`: `SendsSpec => []SendsIInv`, for any
  number of sends, writers and conversations, and any limit and window. A
  transaction's clock is that of its start, so a send that waited for the lock may be
  counted after messages with later clocks; the count has no upper end, so it holds
  those too, and the lock keeps what a counted send saw of its own conversation
  (`CountStands`) until it commits. Without the lock (`OneHolder`) both fail.
- `OnlineTimeIsInView`, `WeeksArePaidOnce`: a beat credits the gap since the last one,
  up to the stale window. That no second is counted twice or out of view rests on
  `ViewIsAhead`: what is credited stops at the last beat, and the seconds since then
  in which `live_tutors` still lists the tutor are not credited yet. That a week is over
  when it is paid rests on `RunsAtPastWeeks`.
- `RemindersAreOnceAndInTime`: a sweep that has a booking in hand claimed it
  (`SendersStamped`, `CalledIsClaimed`), and a scheduled call finds nothing to claim only before
  the window opens; so a reminder that is due and not claimed
  has waited for the calls missed since, one `Cadence` each, and no longer
  (`UnclaimedWasMissed`).
- `SavesComeBack`: `[]SavesAreSeenAgain`. A save that asked for a look left its beginning as
  the row's stamp, or a save that committed after it did (`AskingIsStamped`); if that one
  began after the look too, the stamp is still past it. What is left is the
  save that began before the look and committed last. A tutor on hold was looked at
  (`HoldIsStamped`), and no decision's time is the value of a stamp never set (`DecidedByClock`).
- `TextsAreSentOnce`: one client key per text (`KeyPerText`) on the tab's side and one row
  per key (`RowPerKey`) on the server's.
- `BadgeIsRight`: while nothing is announced, the latest read answers what the rows say,
  or has done so (`LatestIsTrue`); older answers do not win. What failed since the latest read
  began is in the history variable `dropped`, and the next read clears it.
- `RequestsAreQueuedOnce`: `drop` filters the queue, and the filter `Without` is a recursive
  function: a queue without repeats is without repeats after it, by an induction on its
  length. `mergeIntoQueue` looks before it appends, and what is dropped after an answer is
  an ask of this tutor (`AnswersAnAsk`).
- `GoneClientsAreReleased`: the safety half of `HungUpIsReleased`. Leaving tears a client
  down at once, but for a join under way, which looks at `disposed` after each await and
  then lets go of what it opened. `HeldHasClient` says there is a client to tell.
- `EndedStageIsLeft`: `[]EndedIsLeft`, inductive as it stands.
- `EverySlotIsExact`: `SlotsAreExact` for every calendar whose windows lie in a day, every
  range of days, and every viewer, in zones less than a day from UTC and moved by at most
  a day. Four things carry it. The refined guess is an instant that reads as the wall
  clock, if any does (`RefinedIsAReading`). Readings keep the order of their instants but for
  the hours a clock was put back, so one more date on either side of the range has every start in
  it (`ClocksAreClose`, `DatesPass`). And a start is less than a day from the
  date it was made from, so the server's three days have that date among theirs
  (`StartsAreNear`). And while the clock is not moved it runs with the instants
  (`SteadyClockRuns`), so the code's `start + duration <= end` is the whole lesson inside the window
  (`RoomIsInside`, `InsideHasRoom`). `EveryCalendarsSlotsAreExact` is the run's property, for any day of at
  least the six hours its windows need.
- `HoursResolveOnOneSide`: where the comment of finding 7 is right: clocks put forward
  east of Greenwich, put back west of it, or not changed there.
- `PartsAreSafe`, `PartsKeepTheirPromises`, `OrderSufficesAmongParts`: the
  same for `MCParts`, the specification the run checks: a step is one of one part and
  leaves the variables of the others, so the conjunction of their inductive invariants is
  one (`StepsAreOfParts`).

Only model-checked: the liveness properties `MoneyBecomesCredits`, `SessionsArePaid`,
`WaitEnds`, `GoneHostIsEnded`, `RoomIsClosed`, `HungUpIsReleased`, `PicksUpEverything`,
`AcceptedIsJoined`, `PendingIsShown` and `EndIsLearned`, which rest on fairness and so on
`ENABLED`, out of the prover's reach. The findings are counterexamples of TLC.

## Inventory

For each part: its state, operations, what is hard, what makes it correct.

- **Credits ledger** (`lib/credits/ledger.ts`): `wallets`, `credit_transactions`
  (append-only, unique on type and reference). Credit, debit. Hard: concurrent
  first credits, duplicates in flight. Correct: no drift, once per reference,
  never below zero. *Modelled, proved.*
- **Scheduled booking and holds** (`actions/bookings.ts`): `bookings`. Create,
  expire. Hard: the unlocked reads before and in the transaction, the clock, the
  exclusion constraint that cannot see it. Correct: one holder per slot. *Modelled, proved.*
- **PayPal checkout** (`app/api/paypal`, `lib/paypal`): `payments`, PayPal's
  orders. Open, capture, webhook. Hard: timeouts, late answers, replays, refunds.
  Correct: money honoured once, status true. *Modelled, proved.*
- **Admin unwinds** (`db/queries/admin-bookings.ts`): touches both halves and
  every lock. *Modelled in halves: the student's side in `Checkout`, the tutor's in
  `Payout`, the locks in `AdminLocks`; not composed.*
- **Earnings and withdrawals** (`lib/earnings`, `lib/withdrawals`):
  `tutor_earnings`, `withdrawal_requests`. *Modelled, proved.*
- **Completion sweep** (`lib/sessions`, `db/queries/complete-sessions.ts`): closes
  sessions from join stamps and clocks, then writes what is owed. Hard: four
  closers race (participant, deadline, sweep, admin). *Modelled; the room's side proved.*
- **Instant requests** (`lib/session-requests`, the two tabs): `session_requests`:
  pending to accepted, declined, expired, failed_payment. Hard: accept against
  expiry, a broadcast start, a second accept; lost news of it. Correct: one room and
  one debit per request, and the tabs get to know. *Modelled, proved.*
- **Session room** (`db/queries/sessions.ts`, Agora token route, `lib/agora`): join
  stamps, early exit, deadline, no-show, the tab's call. *Modelled, proved.*
- **Scheduled classroom** (`db/queries/classroom.ts`): the join window from 10
  minutes before to 30 after, the LessonSpace link. *Modelled, proved with the room.*
- **Presence and broadcasts** (`db/queries/presence.ts`, `lib/broadcasts`): one tutor
  row with `is_live`, `live_mode`, `last_seen_at`; heartbeats, toggles, starts,
  ends and the sweep; the viewer's page. *Modelled, proved.*
- **Availability slots** (`lib/availability`): a pure algorithm on rules, exceptions
  and bookings. *Modelled, proved.*
- **Availability bonus** (`lib/availability-bonus`): seconds accrued by heartbeat,
  capped by the staleness window; one award per tutor and week. *Modelled, proved.*
- **Messaging** (`lib/messaging`, the thread and the badge): a send once per client key,
  a rate count under the thread's lock, late and lost events. *Partly modelled, and what is, proved.*
- **Realtime hooks** (`hooks/use-retrying-channel.ts`, `use-token-renewal.ts`):
  watchdog, backoff, generations, disposal; renewal with one retry. *Modelled; the
  channel and the viewer's page proved.*
- **Reminders** (`lib/bookings/booking-reminders.ts`): the claim and the sends. *Modelled, proved.*
- **Tutor review** (`actions/admin-tutors.ts`, `actions/tutor-profile.ts`,
  `drizzle/0025`): two stamps and a status. *Modelled, proved.*
- **Admin users and adjustments**: credit adjustments in `Payout`, the suspension of a
  tutor in `InstantSession`. *Partly modelled.*

## Not modelled

- *Onboarding and promotion*: the guards are reads before a transaction that others can
  slip in after; what that allows is listed under Findings, from reading alone.
- *Starting a conversation, favourites, tutor settings, subjects, availability rules*:
  guards and single-row writes or one upsert, with no step of another actor in between
  that matters.
- *Rate limits*: one atomic SQL statement per hit, which fails open.
- *Cron dispatch*: a secret and a switch; the jobs' own steps are in their modules,
  as calls that may be missed, overlap or die.
- *Retained-credits wording*: a label derived from the rows finding 1 is about.
- *Emails and their templates, pages, forms, tables*: presentation.
- *Recording, remote tracks, device pickers, viewer counts*: the SDK's, or display.

The rest of the repository is mostly this last kind: of its lines the greater part
is markup, templates, seeds and scripts, tests and read-only queries, which have
no behaviour a state machine would add to; that is why the mapped lines are a small share
of all of them.

## What could follow

1. `Checkout` and `Payout` composed, sharing the booking's status and
   `applyForceCancel`: a refunded student and a paid tutor only where the platform
   absorbs it on purpose.
2. An abstract direct payment (paid, then session or credits, then at most one
   unwind) that `Checkout` refines, and an abstract payout that `Payout` refines.
3. One account's role: the two onboarding forms, suspension and promotion against what
   the account holds and is owed.
