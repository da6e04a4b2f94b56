----------------------------- MODULE MCSessions -----------------------------
(***************************************************************************)
(* A browser with one tab and two requests, for TLC.                       *)
(***************************************************************************)
EXTENDS Sessions

MCTabs == {"t1"}
MCRequests == {"q1", "q2"}
MCTabOf == [q \in MCRequests |-> "t1"]
=============================================================================
