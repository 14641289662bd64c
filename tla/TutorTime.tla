----------------------------- MODULE TutorTime -----------------------------
(***************************************************************************)
(* What instant requests and broadcasts promise together. One tutor is in  *)
(* one place at a time: in a room with one student, on stage in a          *)
(* broadcast, or free. A request is answered once, and a student pays for  *)
(* it at the moment the room opens or never.                               *)
(***************************************************************************)
EXTENDS Naturals

CONSTANTS Requests

VARIABLES
    place,        \* "free", "room" or "stage"
    deal,         \* deal[r]: "unsent", "waiting", "agreed" or "lapsed"
    paid          \* paid[r]: how many times r was charged

vars == <<place, deal, paid>>

Init ==
    /\ place = "free"
    /\ deal = [r \in Requests |-> "unsent"]
    /\ paid = [r \in Requests |-> 0]

Lapsing(R) == [r \in Requests |-> IF r \in R THEN "lapsed" ELSE deal[r]]
Waiting == {r \in Requests : deal[r] = "waiting"}

Ask(r) ==
    /\ deal[r] = "unsent"
    /\ deal' = [deal EXCEPT ![r] = "waiting"]
    /\ UNCHANGED <<place, paid>>

Lapse == \E R \in SUBSET Waiting :
    /\ deal' = Lapsing(R)
    /\ UNCHANGED <<place, paid>>

(* The room opens, the student pays, and nobody else is kept waiting. *)
Agree(r) ==
    /\ place = "free" /\ place' = "room"
    /\ r \in Waiting
    /\ deal' = [Lapsing(Waiting) EXCEPT ![r] = "agreed"]
    /\ paid' = [paid EXCEPT ![r] = 1]

GoOnStage ==
    /\ place = "free" /\ place' = "stage"
    /\ deal' = Lapsing(Waiting)
    /\ UNCHANGED paid

BecomeFree == place' = "free" /\ UNCHANGED <<deal, paid>>

Next == (\E r \in Requests : Ask(r) \/ Agree(r)) \/ Lapse \/ GoOnStage \/ BecomeFree

Spec == Init /\ [][Next]_vars
=============================================================================
