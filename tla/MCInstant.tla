----------------------------- MODULE MCInstant -----------------------------
(***************************************************************************)
(* One tutor, two students who each ask once, and a broadcast.             *)
(***************************************************************************)
EXTENDS InstantSession

CONSTANTS sue, sam, sue1, sam1, algebra, tab1

MCStudents == {sue, sam}
MCRequests == {sue1, sam1}
MCFrom == [r \in MCRequests |-> IF r = sam1 THEN sam ELSE sue]
MCPrice == [r \in MCRequests |-> 1]
MCBroadcasts == {algebra}
MCCalls == {tab1}
=============================================================================
