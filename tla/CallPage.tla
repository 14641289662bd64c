------------------------------ MODULE CallPage ------------------------------
(***************************************************************************)
(* One browser tab in a call: the booking the provider holds, the client   *)
(* of each join attempt with the devices it has open, and the server calls *)
(* whose answers are still on their way. Every await of join() and of the  *)
(* screen share is a step, and leaving can fall between any two of them.   *)
(***************************************************************************)
EXTENDS Naturals, Sequences

CONSTANTS
    Rooms,      \* the bookings this person can join
    IsTutor,       \* grant.isTutor
    None,
    MaxClients     \* bound: join attempts

ASSUME CallAssumption ==
    None \notin Rooms /\ IsTutor \in BOOLEAN /\ MaxClients \in Nat \ {0}

VARIABLES
    held,          \* meta.bookingId
    phase,         \* CallPhase
    finished,
    over,          \* the bookings the server has closed
    clients,       \* every SessionClient, the last one is clientRef.current
    asked          \* bookings with a getSessionState or an endSession in flight

callVars == <<held, phase, finished, over, clients, asked>>

Fresh == [at |-> "fetching", disposed |-> FALSE, open |-> {}, inside |-> FALSE, share |-> "off"]

Clients == [at : {"fetching", "loading", "entering", "opening", "microphone", "publishing", "joined", "settled"},
            disposed : BOOLEAN, open : SUBSET {"mic", "camera", "screen"}, inside : BOOLEAN,
            share : {"off", "picking", "publishing"}]

CallInit ==
    /\ held = None /\ phase = "idle" /\ finished = FALSE
    /\ over = {} /\ clients = <<>> /\ asked = {}

Joining(c) == c.at \in {"loading", "entering", "opening", "microphone", "publishing"}
Torn(c) == [c EXCEPT !.open = {}, !.inside = FALSE]

(* SessionClient.leave: a join under way is left to reach its checkpoint. *)
HungUp(c) == IF Joining(c) THEN [c EXCEPT !.disposed = TRUE] ELSE [Torn(c) EXCEPT !.disposed = TRUE]

LastHungUp ==
    IF clients = <<>> THEN clients ELSE [clients EXCEPT ![Len(clients)] = HungUp(@)]

(* The cleanup of the join effect has run for every client but this one. *)
Cancelled(n) == held = None \/ n # Len(clients)

Fail(n) == phase' = IF Cancelled(n) THEN phase ELSE "error"

(* A checkpoint: the join goes on, or what it has made is torn down. *)
GoOn(n, c, next) ==
    clients' = [clients EXCEPT ![n] =
        IF c.disposed THEN [Torn(c) EXCEPT !.at = "settled"] ELSE [c EXCEPT !.at = next]]

(* An await that rejects: everything is released and the client is spent. *)
Throw(n) ==
    /\ clients' = [clients EXCEPT ![n] = [Torn(@) EXCEPT !.at = "settled", !.disposed = TRUE]]
    /\ Fail(n)

(***************************************************************************)
(* The join effect and SessionClient.join                                  *)
(***************************************************************************)
FetchToken(n) ==
    /\ clients[n].at = "fetching"
    /\ \/ /\ clients' = [clients EXCEPT ![n].at = "settled"] /\ Fail(n)
       \/ /\ GoOn(n, clients[n], "loading")
          /\ phase' = IF Cancelled(n) \/ clients[n].disposed THEN phase ELSE "joining"
    /\ UNCHANGED <<held, finished, over, asked>>

ImportSdk(n) ==
    /\ clients[n].at = "loading"
    /\ \/ GoOn(n, clients[n], "entering") /\ UNCHANGED phase
       \/ Throw(n)
    /\ UNCHANGED <<held, finished, over, asked>>

JoinChannel(n) ==
    /\ clients[n].at = "entering"
    /\ \/ GoOn(n, [clients[n] EXCEPT !.inside = TRUE], "opening") /\ UNCHANGED phase
       \/ Throw(n)
    /\ UNCHANGED <<held, finished, over, asked>>

(* The permission prompt. A student who has no camera is asked once more,  *)
(* for the microphone alone.                                               *)
createLocalTracks(n) ==
    /\ \/ /\ clients[n].at = "opening"
          /\ GoOn(n, [clients[n] EXCEPT !.open = {"mic", "camera"}], "publishing") /\ UNCHANGED phase
       \/ /\ clients[n].at = "opening" /\ ~IsTutor /\ ~clients[n].disposed
          /\ GoOn(n, clients[n], "microphone") /\ UNCHANGED phase
       \/ /\ clients[n].at = "microphone"
          /\ GoOn(n, [clients[n] EXCEPT !.open = {"mic"}], "publishing") /\ UNCHANGED phase
       \/ /\ clients[n].at = "opening" /\ (IsTutor \/ clients[n].disposed)
          /\ Throw(n)
       \/ clients[n].at = "microphone" /\ Throw(n)
    /\ UNCHANGED <<held, finished, over, asked>>

PublishTracks(n) ==
    /\ clients[n].at = "publishing"
    /\ \/ /\ GoOn(n, clients[n], "joined")
          /\ phase' = IF Cancelled(n) \/ clients[n].disposed THEN phase ELSE "live"
       \/ Throw(n)
    /\ UNCHANGED <<held, finished, over, asked>>

(***************************************************************************)
(* The screen share                                                        *)
(***************************************************************************)
startScreenShare ==
    /\ held # None /\ ~finished /\ phase = "live"
    /\ LET c == clients[Len(clients)] IN
       /\ c.at = "joined" /\ ~c.disposed /\ c.share = "off" /\ "screen" \notin c.open
       /\ clients' = [clients EXCEPT ![Len(clients)].share = "picking"]
    /\ UNCHANGED <<held, phase, finished, over, asked>>

(* Mutant of PickScreen: the screen that was picked is kept. *)
PickScreenAnyway(n) ==
    /\ clients[n].share = "picking"
    /\ clients' = [clients EXCEPT ![n].open = @ \cup {"screen"}, ![n].share = "publishing"]
    /\ UNCHANGED <<held, phase, finished, over, asked>>

(* The browser's picker is dismissed, or names a screen; the tab may have  *)
(* hung up while it was open, and then the screen is closed at once.       *)
PickScreen(n) ==
    /\ clients[n].share = "picking"
    /\ \/ clients' = [clients EXCEPT ![n].share = "off"]
       \/ /\ ~clients[n].disposed
          /\ clients' = [clients EXCEPT ![n].open = @ \cup {"screen"}, ![n].share = "publishing"]
    /\ UNCHANGED <<held, phase, finished, over, asked>>

PublishScreen(n) ==
    /\ clients[n].share = "publishing"
    /\ \/ clients' = [clients EXCEPT ![n].share = "off"]
       \/ clients' = [clients EXCEPT ![n].share = "off", ![n].open = @ \ {"screen"}]
    /\ UNCHANGED <<held, phase, finished, over, asked>>

(* The button, or the browser's own bar. *)
stopScreenShare(n) ==
    /\ clients[n].share = "off" /\ "screen" \in clients[n].open
    /\ clients' = [clients EXCEPT ![n].open = @ \ {"screen"}]
    /\ UNCHANGED <<held, phase, finished, over, asked>>

(***************************************************************************)
(* The provider                                                            *)
(***************************************************************************)
(* The lobby joins; the first read of the booking goes out with it. *)
start(b) ==
    /\ held = None /\ Len(clients) < MaxClients
    /\ held' = b /\ phase' = "connecting" /\ finished' = FALSE
    /\ clients' = Append(clients, Fresh)
    /\ asked' = asked \cup {b}
    /\ UNCHANGED over

retry ==
    /\ held # None /\ ~finished /\ phase \in {"error", "live"} /\ Len(clients) < MaxClients
    /\ phase' = "connecting"
    /\ clients' = Append(LastHungUp, Fresh)
    /\ UNCHANGED <<held, finished, over, asked>>

(* The button, a sign-out, an account page, or the mini-player once the    *)
(* ended card has been shown.                                              *)
leave ==
    /\ held # None
    /\ held' = None /\ phase' = "idle" /\ finished' = FALSE
    /\ clients' = LastHungUp
    /\ UNCHANGED <<over, asked>>

(* An arrival, a departure, a deadline, a refused renewal; or the End      *)
(* button. Each asks the server about the booking that is held.            *)
Ask ==
    /\ held # None /\ ~finished /\ phase = "live" /\ held \notin asked
    /\ asked' = asked \cup {held}
    /\ UNCHANGED <<held, phase, finished, over, clients>>

closeOnServer(b) ==
    /\ b \notin over /\ over' = over \cup {b}
    /\ UNCHANGED <<held, phase, finished, clients, asked>>

(* The answer runs finish() for whatever is held by then. It can be about  *)
(* a moment before the room was closed, or be an error, and say nothing.   *)
refreshState(b) ==
    /\ b \in asked /\ asked' = asked \ {b}
    /\ \/ /\ b \in over
          /\ finished' = TRUE
          /\ clients' = IF held = None THEN clients ELSE LastHungUp
       \/ UNCHANGED <<finished, clients>>
    /\ UNCHANGED <<held, phase, over>>

Settle(n) ==
    \/ FetchToken(n) \/ ImportSdk(n) \/ JoinChannel(n) \/ createLocalTracks(n) \/ PublishTracks(n)
    \/ PickScreen(n) \/ PublishScreen(n)

CallNext ==
    \/ \E n \in 1..Len(clients) : Settle(n) \/ stopScreenShare(n)
    \/ \E b \in Rooms : start(b) \/ closeOnServer(b) \/ refreshState(b)
    \/ startScreenShare \/ retry \/ leave \/ Ask

CallSpec == CallInit /\ [][CallNext]_callVars

(***************************************************************************)
(* Properties                                                              *)
(***************************************************************************)
CallTypeOK ==
    /\ held \in Rooms \cup {None} /\ phase \in {"idle", "connecting", "joining", "live", "error"}
    /\ finished \in BOOLEAN /\ over \subseteq Rooms /\ asked \subseteq Rooms
    /\ clients \in Seq(Clients) /\ Len(clients) <= MaxClients

(* active-session.tsx:84: finished is terminal, "the server closed the      *)
(* session and the call has been torn down". The call held now is that one. *)
FinishedIsOver == held # None /\ finished => held \in over

HasGone(n) == n < Len(clients) \/ (n = Len(clients) /\ (held = None \/ finished))

(* client.ts, leave: every device is released and the channel left, also    *)
(* when the hang-up falls between two awaits of a join or of a share; and   *)
(* nothing that settles later opens them again.                             *)
HungUpIsReleased == \A n \in 1..MaxClients :
    HasGone(n) ~> [](n <= Len(clients) /\ clients[n].open = {} /\ ~clients[n].inside)

(* The safety in it: a client that is gone was told so, and one that was    *)
(* told holds no device and no channel outside a join under way.           *)
GoneIsReleased == \A n \in 1..Len(clients) :
    /\ HasGone(n) => clients[n].disposed
    /\ clients[n].disposed /\ ~Joining(clients[n]) => clients[n].open = {} /\ ~clients[n].inside

(* Who holds a booking has a client. *)
HeldHasClient == held # None => Len(clients) > 0
=============================================================================
