------------------------- MODULE AvailabilityBonus -------------------------
(***************************************************************************)
(* One tutor's live time and the weekly bonus it earns: the heartbeat      *)
(* accrues seconds into the week, and the Monday job, which may overlap an *)
(* admin's "run now", pays each complete week that reached the minimum.    *)
(* Times are ticks, and 0 is a tutor who was never seen.                   *)
(***************************************************************************)
EXTENDS Naturals, Functions

CONSTANTS
    StaleSeconds,   \* PRESENCE_STALE_SECONDS, and ACCRUAL_CAP_SECONDS
    WeekLength,
    MinSeconds,     \* settings.minHours
    WeeksToCheck,   \* WEEKS_TO_CHECK
    BonusRuns,      \* runs of the job
    LastTick        \* bound: the clock

ASSUME BonusAssumption ==
    /\ StaleSeconds \in Nat \ {0} /\ WeekLength \in Nat \ {0}
    /\ MinSeconds \in Nat \ {0} /\ WeeksToCheck \in Nat \ {0} /\ LastTick \in Nat \ {0}

VARIABLES
    now,
    isLive, lastSeenAt,
    seconds,     \* seconds[w]: tutor_online_time summed over the week
    inView,      \* inView[w]: how long live_tutors listed the tutor (history)
    awards,      \* weeks with a row in availability_bonus_awards
    paid,        \* paid[w]: availability_bonus credits for the week
    job          \* job[r]: the week a run is at, and what it listed

bonusVars == <<now, isLive, lastSeenAt, seconds, inView, awards, paid, job>>

WeekOf(t) == t \div WeekLength
Weeks == 0..WeekOf(LastTick)
OffDuty == [week |-> 0, listed |-> FALSE, busy |-> FALSE]

BonusInit ==
    /\ now = 1 /\ isLive = FALSE /\ lastSeenAt = 0
    /\ seconds = [w \in Weeks |-> 0] /\ inView = [w \in Weeks |-> 0]
    /\ awards = {} /\ paid = [w \in Weeks |-> 0]
    /\ job = [r \in BonusRuns |-> OffDuty]

(* Mutant of secondsToAccrue: the whole gap since the last beat. *)
wholeGap(prev, at) == IF prev = 0 \/ at <= prev THEN 0 ELSE at - prev

secondsToAccrue(prev, at) ==
    IF prev = 0 \/ at <= prev THEN 0
    ELSE IF at - prev >= StaleSeconds THEN StaleSeconds ELSE at - prev

(* One heartbeat: read, accrue and bump under the tutor's row lock. *)
beat ==
    /\ seconds' = [seconds EXCEPT ![WeekOf(now)] =
                      @ + IF isLive THEN secondsToAccrue(lastSeenAt, now) ELSE 0]
    /\ lastSeenAt' = now
    /\ UNCHANGED <<now, isLive, inView, awards, paid, job>>

(* The toggle or a broadcast; both ways of going live write last_seen_at. *)
goLive ==
    /\ isLive' = TRUE /\ lastSeenAt' = now
    /\ UNCHANGED <<now, seconds, inView, awards, paid, job>>

InLiveTutors == isLive /\ now < lastSeenAt + StaleSeconds

(* The toggle, the end of a broadcast, a suspension, or the sweep. *)
goOffline ==
    /\ isLive /\ isLive' = FALSE
    /\ UNCHANGED <<now, lastSeenAt, seconds, inView, awards, paid, job>>

BonusTick ==
    /\ now < LastTick /\ now' = now + 1
    /\ inView' = [inView EXCEPT ![WeekOf(now)] = @ + IF InLiveTutors THEN 1 ELSE 0]
    /\ UNCHANGED <<isLive, lastSeenAt, seconds, awards, paid, job>>

(* recentCompleteWeekStarts: the weeks before this one, oldest first. *)
FirstWeek == IF WeekOf(now) >= WeeksToCheck THEN WeekOf(now) - WeeksToCheck ELSE 0

StartRun(r) ==
    /\ ~job[r].busy /\ WeekOf(now) > 0
    /\ job' = [job EXCEPT ![r] = [week |-> FirstWeek, listed |-> FALSE, busy |-> TRUE]]
    /\ UNCHANGED <<now, isLive, lastSeenAt, seconds, inView, awards, paid>>

NextWeek(r) == IF job[r].week + 1 < WeekOf(now)
               THEN [week |-> job[r].week + 1, listed |-> FALSE, busy |-> TRUE] ELSE OffDuty

(* The tutor qualifies for the week, or the run goes on to the next one;   *)
(* so it does for a tutor who is suspended or not approved.                *)
listQualifiers(r) ==
    /\ job[r].busy /\ ~job[r].listed
    /\ \/ /\ seconds[job[r].week] >= MinSeconds /\ job[r].week \notin awards
          /\ job' = [job EXCEPT ![r].listed = TRUE]
       \/ job' = [job EXCEPT ![r] = NextWeek(r)]
    /\ UNCHANGED <<now, isLive, lastSeenAt, seconds, inView, awards, paid>>

(* Mutant of claimAndCredit: the list is believed. *)
creditListed(r) ==
    /\ job[r].listed
    /\ awards' = awards \cup {job[r].week}
    /\ paid' = [paid EXCEPT ![job[r].week] = @ + 1]
    /\ job' = [job EXCEPT ![r] = NextWeek(r)]
    /\ UNCHANGED <<now, isLive, lastSeenAt, seconds, inView>>

(* One transaction: the award row is the claim, the credit rides on it. A  *)
(* throw rolls both back, and the run goes on.                             *)
claimAndCredit(r) ==
    /\ job[r].listed
    /\ \/ /\ job[r].week \notin awards
          /\ awards' = awards \cup {job[r].week}
          /\ paid' = [paid EXCEPT ![job[r].week] = @ + 1]
       \/ UNCHANGED <<awards, paid>>
    /\ job' = [job EXCEPT ![r] = NextWeek(r)]
    /\ UNCHANGED <<now, isLive, lastSeenAt, seconds, inView>>

RunDies(r) ==
    /\ job[r].busy /\ job' = [job EXCEPT ![r] = OffDuty]
    /\ UNCHANGED <<now, isLive, lastSeenAt, seconds, inView, awards, paid>>

BonusNext ==
    \/ beat \/ goLive \/ goOffline \/ BonusTick
    \/ \E r \in BonusRuns : StartRun(r) \/ listQualifiers(r) \/ claimAndCredit(r) \/ RunDies(r)

BonusSpec == BonusInit /\ [][BonusNext]_bonusVars

(***************************************************************************)
(* Properties                                                              *)
(***************************************************************************)
BonusTypeOK ==
    /\ now \in 1..LastTick /\ isLive \in BOOLEAN /\ lastSeenAt \in 0..LastTick
    /\ seconds \in [Weeks -> Nat] /\ inView \in [Weeks -> Nat] /\ paid \in [Weeks -> Nat]
    /\ awards \subseteq Weeks
    /\ job \in [BonusRuns -> [week : Weeks, listed : BOOLEAN, busy : BOOLEAN]]

(* accrual.ts: the seconds counted are seconds live_tutors listed the tutor *)
(* in: a beat that comes late counts no more than the window, and time that *)
(* was spent offline counts nothing, whatever order the toggles came in.    *)
UpTo(w, counts) == SumFunctionOnSet(counts, 0..w)
OnlineTimeWasInView == \A w \in Weeks : UpTo(w, seconds) <= UpTo(w, inView)

(* A week is paid at most once, by runs that overlap or die, and only if it *)
(* is over and reached the minimum.                                         *)
BonusPaidOnce == \A w \in Weeks :
    /\ paid[w] = IF w \in awards THEN 1 ELSE 0
    /\ w \in awards => w < WeekOf(now) /\ seconds[w] >= MinSeconds

(* What the next beat would add was in view as well. *)
Pending == IF isLive THEN secondsToAccrue(lastSeenAt, now) ELSE 0
ViewIsAhead ==
    /\ lastSeenAt <= now
    /\ \A w \in Weeks : IF w < WeekOf(now) THEN UpTo(w, seconds) <= UpTo(w, inView)
                        ELSE UpTo(w, seconds) + Pending <= UpTo(w, inView)

(* A run is at a week that is over, and pays one that reached the minimum. *)
RunsAtPastWeeks == \A r \in BonusRuns :
    /\ job[r].busy => job[r].week < WeekOf(now)
    /\ job[r].listed => job[r].busy /\ seconds[job[r].week] >= MinSeconds
=============================================================================
