-------------------------- MODULE MCOrderAdmission --------------------------
(* Instances of OrderAdmission for TLC: requests for one ticker, or for two. *)
EXTENDS OrderAdmission

FourOrders == 1..4
TwoTickers == {"t1", "t2"}
TwoOrders == 1..2
OneTicker == {"t1"}
SameTicker == [o \in TwoOrders |-> "t1"]
Mixed == [o \in FourOrders |-> IF o = 4 THEN "t2" ELSE "t1"]
=============================================================================
