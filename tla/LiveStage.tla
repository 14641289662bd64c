----------------------------- MODULE LiveStage -----------------------------
(***************************************************************************)
(* A signed-in viewer's page of one broadcast. That the class is over is   *)
(* learned without polling: the host leaves the channel, or a token        *)
(* renewal is refused, and the page asks the server once.                  *)
(***************************************************************************)
EXTENDS Naturals

CONSTANTS
    MaxReturns,    \* bound: the host's heartbeat or client comes back
    MaxLost,       \* bound: renewals whose request is lost on the way
    MaxFailures,   \* bound: a server or the SDK answers with an error
    MaxChecks      \* bound: getBroadcastWatchable calls in flight

ASSUME StageAssumption ==
    /\ MaxReturns \in Nat /\ MaxLost \in Nat /\ MaxFailures \in Nat
    /\ MaxChecks \in Nat \ {0}

VARIABLES
    onAir,         \* the row: "live" and its host in live_tutors, "stale" host, "ended"
    hostThere,     \* the host's client is in the channel
    page,          \* Phase
    fetching,      \* the first token request is in flight
    watcher,       \* LiveClient, "dropped" by Agora once its token is over
    renewal,       \* useTokenRenewal, "off" when no request of it will come
    checks,        \* getBroadcastWatchable calls in flight
    returns, lost, failures,
    unanswered     \* a getBroadcastWatchable was answered with an error

stageVars == <<onAir, hostThere, page, fetching, watcher, renewal, checks, returns, lost, failures, unanswered>>
hostVars == <<onAir, hostThere, returns>>
faultVars == <<lost, failures, unanswered>>

StageInit ==
    /\ onAir = "live" /\ hostThere = TRUE
    /\ page = "connecting" /\ fetching = TRUE /\ watcher = "idle"
    /\ renewal = "off" /\ checks = 0
    /\ returns = 0 /\ lost = 0 /\ failures = 0 /\ unanswered = FALSE

MayFail == failures < MaxFailures /\ failures' = failures + 1

(* LiveClient.leave: a join under way is left to its next checkpoint. *)
Hung == IF watcher = "joining" THEN "leaving" ELSE "left"

markEnded == page' = "ended" /\ watcher' = Hung /\ renewal' = "off"

checkEnded == checks < MaxChecks /\ checks' = checks + 1

(***************************************************************************)
(* The host                                                                *)
(***************************************************************************)
(* The End button or the sweep, a heartbeat that stops or is back. *)
HostMoves ==
    /\ \/ onAir # "ended" /\ onAir' = "ended" /\ UNCHANGED returns
       \/ onAir = "live" /\ onAir' = "stale" /\ UNCHANGED returns
       \/ onAir = "stale" /\ onAir' = "live" /\ returns < MaxReturns /\ returns' = returns + 1
    /\ UNCHANGED <<hostThere, page, fetching, watcher, renewal, checks, faultVars>>

(* user-left, heard by a viewer who is in the channel; a client whose join *)
(* has not returned may be in it.                                          *)
HostLeaves ==
    /\ hostThere /\ hostThere' = FALSE
    /\ \/ watcher \in {"joining", "in"} /\ checkEnded
       \/ watcher # "in" /\ UNCHANGED checks
    /\ UNCHANGED <<onAir, returns, page, fetching, watcher, renewal, faultVars>>

HostJoins ==
    /\ ~hostThere /\ hostThere' = TRUE
    /\ onAir = "live" /\ returns < MaxReturns /\ returns' = returns + 1
    /\ UNCHANGED <<onAir, page, fetching, watcher, renewal, checks, faultVars>>

(***************************************************************************)
(* The viewer's page                                                       *)
(***************************************************************************)
(* The token route: a grant, 404 for a broadcast nobody can watch, or an   *)
(* error. A page that ended meanwhile has a client that is spent.          *)
broadcastToken ==
    /\ fetching /\ fetching' = FALSE
    /\ \/ /\ onAir = "live"
          /\ watcher' = IF watcher = "idle" THEN "joining" ELSE watcher
          /\ UNCHANGED <<page, renewal, failures>>
       \/ onAir # "live" /\ markEnded /\ UNCHANGED failures
       \/ MayFail /\ page' = "error" /\ UNCHANGED <<watcher, renewal>>
    /\ UNCHANGED <<hostVars, checks, lost, unanswered>>

JoinReturns ==
    /\ watcher \in {"joining", "leaving"}
    /\ \/ /\ watcher = "joining"
          /\ watcher' = "in" /\ page' = "live" /\ renewal' = "armed"
          /\ UNCHANGED failures
       \/ watcher = "leaving" /\ watcher' = "left" /\ UNCHANGED <<page, renewal, failures>>
       \/ MayFail /\ watcher' = "left" /\ page' = "error" /\ UNCHANGED renewal
    /\ UNCHANGED <<hostVars, fetching, checks, lost, unanswered>>

TryAgain ==
    /\ page = "error" /\ ~fetching
    /\ page' = "connecting" /\ fetching' = TRUE /\ watcher' = "idle"
    /\ UNCHANGED <<hostVars, renewal, checks, faultVars>>

(* The timer set off the grant's expiresAt, or thirty seconds after a lost *)
(* request.                                                                *)
RenewalFires ==
    /\ \/ renewal = "armed" /\ renewal' = "asking"
       \/ renewal = "waiting" /\ renewal' = "again"
    /\ UNCHANGED <<hostVars, page, fetching, watcher, checks, faultVars>>

(* The route's answer. A grant the SDK takes sets the next timer; a grant  *)
(* it does not take, and a refusal, set none and ask what is true.         *)
renewToken ==
    /\ renewal \in {"asking", "again"}
    /\ \/ onAir = "live" /\ renewal' = "armed" /\ UNCHANGED <<checks, failures>>
       \/ onAir # "live" /\ renewal' = "off" /\ checkEnded /\ UNCHANGED failures
       \/ MayFail /\ renewal' = "off" /\ checkEnded
    /\ UNCHANGED <<hostVars, page, fetching, watcher, lost, unanswered>>

(* Mutant of RenewalLost: no second attempt. *)
RenewalLostForGood ==
    /\ renewal \in {"asking", "again"} /\ renewal' = "off"
    /\ lost < MaxLost /\ lost' = lost + 1
    /\ UNCHANGED <<hostVars, page, fetching, watcher, checks, failures, unanswered>>

(* The request is lost: it is repeated once, and then no more. *)
RenewalLost ==
    /\ \/ renewal = "asking" /\ renewal' = "waiting"
       \/ renewal = "again" /\ renewal' = "off"
    /\ lost < MaxLost /\ lost' = lost + 1
    /\ UNCHANGED <<hostVars, page, fetching, watcher, checks, failures, unanswered>>

(* A token nobody renews runs out, and nothing listens for that. *)
TokenExpires ==
    /\ watcher = "in" /\ renewal = "off"
    /\ watcher' = "dropped"
    /\ UNCHANGED <<hostVars, page, fetching, renewal, checks, faultVars>>

(* The answer of isBroadcastWatchable, which speaks for whatever attempt   *)
(* the page is at by now; an error says nothing.                           *)
getBroadcastWatchable ==
    /\ checks > 0 /\ checks' = checks - 1
    /\ \/ onAir # "live" /\ markEnded /\ UNCHANGED <<failures, unanswered>>
       \/ onAir = "live" /\ UNCHANGED <<page, watcher, renewal, failures, unanswered>>
       \/ MayFail /\ unanswered' = TRUE /\ UNCHANGED <<page, watcher, renewal>>
    /\ UNCHANGED <<hostVars, fetching, lost>>

StageNext ==
    \/ HostMoves \/ HostLeaves \/ HostJoins
    \/ broadcastToken \/ JoinReturns \/ TryAgain
    \/ RenewalFires \/ renewToken \/ RenewalLost \/ TokenExpires
    \/ getBroadcastWatchable

(* Requests and the SDK's promises settle, timers fire, and the host's     *)
(* client leaves the channel of a broadcast that is over.                  *)
StageSpec ==
    /\ StageInit /\ [][StageNext]_stageVars
    /\ WF_stageVars(broadcastToken)
    /\ WF_stageVars(JoinReturns)
    /\ WF_stageVars(RenewalFires)
    /\ WF_stageVars(renewToken)
    /\ WF_stageVars(getBroadcastWatchable)
    /\ WF_stageVars(onAir = "ended" /\ HostLeaves)

(***************************************************************************)
(* Properties                                                              *)
(***************************************************************************)
StageTypeOK ==
    /\ onAir \in {"live", "stale", "ended"} /\ hostThere \in BOOLEAN
    /\ page \in {"connecting", "live", "ended", "error"} /\ fetching \in BOOLEAN
    /\ watcher \in {"idle", "joining", "leaving", "in", "dropped", "left"}
    /\ renewal \in {"off", "armed", "asking", "waiting", "again"}
    /\ checks \in 0..MaxChecks
    /\ returns \in 0..MaxReturns /\ lost \in 0..MaxLost /\ failures \in 0..MaxFailures
    /\ unanswered \in BOOLEAN

(* viewer-stage.tsx, markEnded: nobody is told the class is over while it  *)
(* never stopped, nor kept in its channel afterwards.                      *)
EndedIsLeft == page = "ended" =>
    /\ onAir # "live" \/ returns > 0
    /\ watcher \in {"leaving", "left"} /\ renewal = "off"

(* viewer-stage.tsx, useTokenRenewal: a viewer with a renewal to come      *)
(* learns that the class is over, whatever was heard of the host, unless   *)
(* the answer about it is an error or two requests were lost. One without  *)
(* a renewal to come may never learn it.                                   *)
EndIsLearned ==
    onAir = "ended" /\ page = "live" /\ renewal # "off" ~> page # "live" \/ unanswered \/ lost > 1
=============================================================================
