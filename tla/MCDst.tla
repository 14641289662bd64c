------------------------------- MODULE MCDst -------------------------------
(***************************************************************************)
(* Every wall-clock hour of a day on which the clock is put forward or     *)
(* back, west of Greenwich (New York) and east of it (Berlin). The day     *)
(* starts at instant 0 in UTC.                                             *)
(***************************************************************************)
EXTENDS SlotGrid

VARIABLES zone, wall

Zones == {[before |-> -5, after |-> -4, at |-> 7], [before |-> -4, after |-> -5, at |-> 6],
          [before |-> 1, after |-> 2, at |-> 1], [before |-> 2, after |-> 1, at |-> 1]}

Init == zone \in Zones /\ wall = 0
Next == wall < Day - 1 /\ wall' = wall + 1 /\ UNCHANGED zone
Spec == Init /\ [][Next]_<<zone, wall>>

(* compute-slots.ts:185: what zonedWallToUtc says of the hours a transition *)
(* skips or repeats, for each of them in each of these zones.               *)
HoursResolveAsStated == ResolvesAsStated(wall, zone)
=============================================================================
