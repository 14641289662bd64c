------------------------------ MODULE MCPayout ------------------------------
(***************************************************************************)
(* One tutor, two sessions of different worth, a first and a second        *)
(* withdrawal, an adjustment that takes credits away, a weekly bonus, and  *)
(* two overlapping runs of the release job.                                *)
(***************************************************************************)
EXTENDS Payout

CONSTANTS tom, maths, physics, july, august, correction, week, run1, run2

MCTutors == {tom}
MCBookings == {maths, physics}
MCRequests == {july, august}
MCAdjustments == {correction}
MCBonuses == {week}
MCRuns == {run1, run2}

MCTutor == [b \in MCBookings |-> tom]
MCNet == [b \in MCBookings |-> IF b = maths THEN 1 ELSE 2]
MCOf == [r \in MCRequests |-> tom]
MCFor == [a \in MCAdjustments |-> tom]
MCDelta == [a \in MCAdjustments |-> -1]
MCBonusFor == [w \in MCBonuses |-> tom]
MCBonusCredits == [w \in MCBonuses |-> 1]
MCMinCredits == 1
=============================================================================
