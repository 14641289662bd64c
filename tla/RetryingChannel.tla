-------------------------- MODULE RetryingChannel --------------------------
(***************************************************************************)
(* The hook every Realtime subscription of the app goes through: one       *)
(* channel, a watchdog for a connect that never reports, a retry with      *)
(* backoff, and a generation that tells a late auth prelude it is late.    *)
(* A connect is named by the member of Attempts it uses; the name is free  *)
(* again when nothing of that connect is left.                             *)
(***************************************************************************)
EXTENDS Naturals, FiniteSets

CONSTANTS Attempts, NoChannel

ASSUME ChannelAssumption == NoChannel \notin Attempts /\ IsFiniteSet(Attempts) /\ Attempts # {}

VARIABLES
    mounted,     \* ~disposed
    hookStatus,  \* RealtimeStatus
    channel,     \* the closure's channel
    open,        \* channels on the socket
    generation,  \* the connect `generation` stands for
    prelude,     \* connects still awaiting getSession or setAuth
    late,        \* channels removed, whose callback may still be called
    watchdog, retryTimer

channelVars == <<mounted, hookStatus, channel, open, generation, prelude, late, watchdog, retryTimer>>

ChannelInit ==
    /\ mounted = TRUE /\ hookStatus = "connecting" /\ channel = NoChannel /\ open = {}
    /\ generation = CHOOSE a \in Attempts : TRUE
    /\ prelude = {generation} /\ late = {}
    /\ watchdog = TRUE /\ retryTimer = FALSE

dropChannel ==
    /\ channel' = NoChannel
    /\ open' = open \ {channel}
    /\ late' = IF channel = NoChannel THEN late ELSE late \cup {channel}

clearTimers == watchdog' = FALSE /\ retryTimer' = FALSE

(* Report, clear, drop, and try again after the backoff. *)
fail ==
    /\ watchdog' = FALSE /\ retryTimer' = TRUE
    /\ dropChannel
    /\ hookStatus' = "unavailable"

Free(a) == a \notin prelude \cup open \cup late

connect ==
    /\ mounted /\ retryTimer /\ retryTimer' = FALSE
    /\ dropChannel
    /\ \E a \in Attempts :
          /\ Free(a) /\ a # channel
          /\ generation' = a /\ prelude' = prelude \cup {a}
    /\ watchdog' = TRUE
    /\ UNCHANGED <<mounted, hookStatus>>

watchdogFires ==
    /\ mounted /\ watchdog /\ fail
    /\ UNCHANGED <<mounted, generation, prelude>>

(* Mutant of PreludeDone: a late prelude goes on. *)
PreludeDoneAnyway(a) ==
    /\ a \in prelude /\ prelude' = prelude \ {a}
    /\ IF mounted THEN channel' = a /\ open' = open \cup {a} ELSE UNCHANGED <<channel, open>>
    /\ UNCHANGED <<mounted, hookStatus, generation, late, watchdog, retryTimer>>

(* The auth prelude settles: its connect opens the channel and subscribes, *)
(* unless a newer connect or the unmount has overtaken it.                 *)
PreludeDone(a) ==
    /\ a \in prelude /\ prelude' = prelude \ {a}
    /\ IF mounted /\ a = generation
       THEN channel' = a /\ open' = open \cup {a}
       ELSE UNCHANGED <<channel, open>>
    /\ UNCHANGED <<mounted, hookStatus, generation, late, watchdog, retryTimer>>

PreludeFails(a) ==
    /\ a \in prelude /\ prelude' = prelude \ {a}
    /\ IF mounted /\ a = generation
       THEN fail
       ELSE UNCHANGED <<hookStatus, channel, open, late, watchdog, retryTimer>>
    /\ UNCHANGED <<mounted, generation>>

Subscribed ==
    /\ mounted /\ channel # NoChannel
    /\ clearTimers /\ hookStatus' = "subscribed"
    /\ UNCHANGED <<mounted, channel, open, generation, prelude, late>>

(* CHANNEL_ERROR or TIMED_OUT, of the channel or of one already removed. *)
ChannelFails ==
    /\ channel # NoChannel \/ late # {}
    /\ IF mounted THEN fail ELSE UNCHANGED <<hookStatus, channel, open, late, watchdog, retryTimer>>
    /\ UNCHANGED <<mounted, generation, prelude>>

(* A removed channel reports for the last time. *)
Forget(a) ==
    /\ a \in late /\ late' = late \ {a}
    /\ UNCHANGED <<mounted, hookStatus, channel, open, generation, prelude, watchdog, retryTimer>>

unmount ==
    /\ mounted /\ mounted' = FALSE
    /\ clearTimers /\ dropChannel
    /\ UNCHANGED <<hookStatus, generation, prelude>>

ChannelNext ==
    \/ connect \/ watchdogFires \/ Subscribed \/ ChannelFails \/ unmount
    \/ \E a \in Attempts : PreludeDone(a) \/ PreludeFails(a) \/ Forget(a)

ChannelSpec == ChannelInit /\ [][ChannelNext]_channelVars

(***************************************************************************)
(* Properties                                                              *)
(***************************************************************************)
ChannelTypeOK ==
    /\ mounted \in BOOLEAN /\ hookStatus \in {"connecting", "subscribed", "unavailable"}
    /\ channel \in Attempts \cup {NoChannel} /\ open \subseteq Attempts /\ generation \in Attempts
    /\ prelude \subseteq Attempts /\ late \subseteq Attempts
    /\ watchdog \in BOOLEAN /\ retryTimer \in BOOLEAN

(* Never two channels on the socket, none that the unmount would not find,  *)
(* and a mounted hook that is not subscribed has a timer that will act.     *)
ChannelKept ==
    /\ open = {channel} \ {NoChannel}
    /\ mounted => (hookStatus = "subscribed" /\ channel # NoChannel) \/ watchdog \/ retryTimer
    /\ ~mounted => open = {} /\ ~watchdog /\ ~retryTimer
=============================================================================
